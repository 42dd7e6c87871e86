---------------------------- MODULE MCAppSession ----------------------------
(* A small instance of the app's session for TLC.                          *)
EXTENDS AppSession

CONSTANTS k1, k2
=============================================================================
