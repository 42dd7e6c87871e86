---------------------------- MODULE MCHttpServer ----------------------------
(* A small instance of the HTTP server for TLC.                            *)
EXTENDS HttpServer

CONSTANTS c1, c2
=============================================================================
