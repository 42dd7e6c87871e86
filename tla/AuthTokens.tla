----------------------------- MODULE AuthTokens -----------------------------
(***************************************************************************)
(* Accounts and refresh tokens (features/auth): sign-up, which runs in one *)
(* transaction, and login and renewal, which do not.  A request runs in    *)
(* its own goroutine; pc[q] names the statement that it executes next, and *)
(* the refresh token it generates, being random, is called q like the      *)
(* request.  An account stands for its username and e-mail, both UNIQUE.   *)
(***************************************************************************)
EXTENDS Integers, FiniteSets

CONSTANTS Accounts,
          Requests,    \* bound: the requests the server ever receives
          Week,        \* seven days, the life of a refresh token
          MaxTime,     \* bound: the clock stops there
          MaxActive,   \* bound: requests in flight at a time
          MayBreak     \* bound: whether statements may fail and replies be lost

ASSUME AuthAssumption ==
  Week \in Nat /\ MaxTime \in Nat /\ MaxActive \in Nat /\ MayBreak \in BOOLEAN

VARIABLES
  role,      \* users.user_role, "none" without a row
  orgs,      \* accounts with a row in organizations
  rows,      \* refresh_tokens; "by" is the request that inserted the row
  now,
  expiresAt, \* the package variable ExpiresAt
  op, pc, reply,
  tx,        \* tx[q]: what q's open transaction has written
  holder,    \* RenewToken's local tokenHolder
  issued,    \* history: when token q was written
  spent      \* history: tokens replaced by a renewal

tables == <<role, orgs, rows>>
clock  == <<now, expiresAt>>
vars   == <<tables, clock, op, pc, reply, tx, holder, issued, spent>>

Roles == {"user", "organization"}
NoOp  == [kind |-> "none"]
SignUp(u, r) == [kind |-> "signup", user |-> u, role |-> r]
Login(u)     == [kind |-> "login", user |-> u]
Renew(u, t)  == [kind |-> "renew", user |-> u, token |-> t]
Op == {SignUp(u, r) : u \in Accounts, r \in Roles} \cup {Login(u) : u \in Accounts}
        \cup {Renew(u, t) : u \in Accounts, t \in Requests}

InTx == {"insertOrg", "insertToken", "commit"}
PC   == InTx \cup {"idle", "insertUser", "lookup", "findUser", "findOrg", "storeToken", "rotate"}
NoHolder == [user |-> "none", expires |-> -1, read |-> -1]

Init ==
  /\ role = [u \in Accounts |-> "none"] /\ orgs = {} /\ rows = {}
  /\ now = 0 /\ expiresAt = Week
  /\ op = [q \in Requests |-> NoOp]
  /\ pc = [q \in Requests |-> "idle"]
  /\ reply = [q \in Requests |-> "none"]
  /\ tx = [q \in Requests |-> {}]
  /\ holder = [q \in Requests |-> NoHolder]
  /\ issued = [q \in Requests |-> -1]
  /\ spent = {}
-----------------------------------------------------------------------------
User(q)   == op[q].user
At(q, l)  == pc[q] = l /\ reply[q] = "none"
Active(q) == pc[q] # "idle" /\ reply[q] = "none"

Goto(q, l)   == pc' = [pc EXCEPT ![q] = l] /\ UNCHANGED reply
Answer(q, a) == reply' = [reply EXCEPT ![q] = a] /\ UNCHANGED pc

\* The last write of a request was applied: the tokens are answered, unless
\* the reply to the statement was lost.
Granted(q) == Answer(q, "ok") \/ (MayBreak /\ Answer(q, "error"))

Receive(q, o, l) ==
  /\ At(q, "idle")
  /\ Cardinality({r \in Requests : Active(r)}) < MaxActive
  /\ op' = [op EXCEPT ![q] = o]
  /\ Goto(q, l)
  /\ UNCHANGED <<tables, clock, tx, holder, issued, spent>>

\* A device renews with a token it was given.  It reads token and username
\* from its storage one after the other: they may be of two accounts.
Request(q) ==
  \E u \in Accounts :
    \/ \E r \in Roles : Receive(q, SignUp(u, r), "insertUser")
    \/ Receive(q, Login(u), "findUser")
    \/ \E t \in Requests : reply[t] = "ok" /\ Receive(q, Renew(u, t), "lookup")

\* Any statement may fail; an open transaction is rolled back.
Fail(q) ==
  /\ MayBreak /\ Active(q)
  /\ Answer(q, "error")
  /\ tx' = [tx EXCEPT ![q] = {}]
  /\ UNCHANGED <<tables, clock, op, holder, issued, spent>>
-----------------------------------------------------------------------------
(* Signup.                                                                 *)

Writes(q, w, l) ==
  /\ tx' = [tx EXCEPT ![q] = @ \cup {w}]
  /\ Goto(q, l)
  /\ UNCHANGED <<tables, clock, op, holder, issued, spent>>

\* WithOrgNot: an organization signs up without its organizations row.
WithOrgNot(q) == FALSE
WithOrg(q) == op[q].role = "organization"

\* The unique index: an uncommitted insert of the same name is waited for.
NameFree(u) ==
  /\ role[u] = "none"
  /\ \A r \in Requests : op[r].kind = "signup" /\ op[r].user = u => tx[r] = {}

InsertUser(q) ==
  /\ At(q, "insertUser")
  /\ NameFree(User(q))
  /\ Writes(q, "user", IF WithOrg(q) THEN "insertOrg" ELSE "insertToken")

NameTaken(q) ==
  /\ At(q, "insertUser")
  /\ role[User(q)] # "none"
  /\ Answer(q, "error")
  /\ UNCHANGED <<tables, clock, op, tx, holder, issued, spent>>

InsertOrg(q)   == At(q, "insertOrg") /\ Writes(q, "org", "insertToken")
InsertToken(q) == At(q, "insertToken") /\ Writes(q, "token", "commit")

Row(q) == [by |-> q, user |-> User(q), token |-> q, expires |-> expiresAt]

Commit(q) ==
  /\ At(q, "commit")
  /\ role' = IF "user" \in tx[q] THEN [role EXCEPT ![User(q)] = op[q].role] ELSE role
  /\ orgs' = IF "org" \in tx[q] THEN orgs \cup {User(q)} ELSE orgs
  /\ rows' = IF "token" \in tx[q] THEN rows \cup {Row(q)} ELSE rows
  /\ tx' = [tx EXCEPT ![q] = {}]
  /\ issued' = [issued EXCEPT ![q] = now]
  /\ Granted(q)
  /\ UNCHANGED <<clock, op, holder, spent>>
-----------------------------------------------------------------------------
(* Login and RenewToken.                                                   *)

\* ExpiredNot: the time is not looked at.
ExpiredNot(r) == FALSE
Expired(r) == now > r.expires

\* GetRefreshToken: all rows of a user may hold the same token, and the first
\* is taken.
Lookup(q) ==
  /\ At(q, "lookup")
  /\ \E r \in rows :
       /\ r.token = op[q].token
       /\ holder' = [holder EXCEPT ![q] = [user |-> r.user, expires |-> r.expires, read |-> now]]
       /\ IF Expired(r) THEN Answer(q, "expired") ELSE Goto(q, "findUser")
  /\ UNCHANGED <<tables, clock, op, tx, issued, spent>>

NotFound(q) ==
  /\ At(q, "lookup")
  /\ \A r \in rows : r.token # op[q].token
  /\ Answer(q, "error")
  /\ UNCHANGED <<tables, clock, op, tx, holder, issued, spent>>

\* An error other than "no rows" is dropped: the holder is empty, and its
\* zero time has passed.
LookupBreaks(q) ==
  /\ MayBreak /\ At(q, "lookup")
  /\ Answer(q, "expired")
  /\ UNCHANGED <<tables, clock, op, tx, holder, issued, spent>>

AfterUser(q) == IF op[q].kind = "login" THEN "storeToken" ELSE "rotate"

\* tokenHolder.UserID # user.Id.  OwnerAny: not compared.
OwnerAny(q) == TRUE
Owner(q) == op[q].kind = "renew" => holder[q].user = User(q)

FindUser(q) ==
  /\ At(q, "findUser")
  /\ IF role[User(q)] = "none" THEN Answer(q, "error")
     ELSE IF role[User(q)] = "organization" THEN Goto(q, "findOrg")
     ELSE IF Owner(q) THEN Goto(q, AfterUser(q)) ELSE Answer(q, "error")
  /\ UNCHANGED <<tables, clock, op, tx, holder, issued, spent>>

FindOrg(q) ==
  /\ At(q, "findOrg")
  /\ IF User(q) \in orgs /\ Owner(q) THEN Goto(q, AfterUser(q)) ELSE Answer(q, "error")
  /\ UNCHANGED <<tables, clock, op, tx, holder, issued, spent>>

StoreToken(q) ==
  /\ At(q, "storeToken")
  /\ rows' = rows \cup {Row(q)}
  /\ issued' = [issued EXCEPT ![q] = now]
  /\ Granted(q)
  /\ UNCHANGED <<role, orgs, clock, op, tx, holder, spent>>

\* RenewedOne: only the rows of the token presented.
RenewedOne(r, q) ==
  IF r.token = op[q].token THEN [r EXCEPT !.token = q, !.expires = expiresAt] ELSE r
\* RenewedStale: the new token is not stored.
RenewedStale(r, q) ==
  IF r.user = User(q) THEN [r EXCEPT !.expires = expiresAt] ELSE r
\* A row after the renewal q: every row of the user changes, whatever device it
\* was inserted for.
Renewed(r, q) ==
  IF r.user = User(q) THEN [r EXCEPT !.token = q, !.expires = expiresAt] ELSE r

Rotate(q) ==
  /\ At(q, "rotate")
  /\ rows' = {Renewed(r, q) : r \in rows}
  /\ spent' = spent \cup {r.token : r \in {s \in rows : s.user = User(q)}}
  /\ issued' = [issued EXCEPT ![q] = now]
  /\ Granted(q)
  /\ UNCHANGED <<role, orgs, clock, op, tx, holder>>
-----------------------------------------------------------------------------
Tick ==
  /\ now < MaxTime /\ now' = now + 1
  /\ UNCHANGED <<tables, expiresAt, op, pc, reply, tx, holder, issued, spent>>

\* A new process computes ExpiresAt once; the requests in flight are cut off.
Restart ==
  /\ expiresAt # now + Week
  /\ expiresAt' = now + Week
  /\ reply' = [q \in Requests |-> IF Active(q) THEN "error" ELSE reply[q]]
  /\ tx' = [q \in Requests |-> {}]
  /\ UNCHANGED <<tables, now, op, pc, holder, issued, spent>>

Next ==
  \/ \E q \in Requests :
       \/ Request(q) \/ Fail(q)
       \/ InsertUser(q) \/ NameTaken(q) \/ InsertOrg(q) \/ InsertToken(q) \/ Commit(q)
       \/ Lookup(q) \/ NotFound(q) \/ LookupBreaks(q)
       \/ FindUser(q) \/ FindOrg(q) \/ StoreToken(q) \/ Rotate(q)
  \/ Tick \/ Restart

Spec == Init /\ [][Next]_vars
-----------------------------------------------------------------------------
\* The tables and the locals of the requests hold what the code puts there: a
\* row's user is an account, never the zero value of an empty holder.
TypeOK ==
  /\ role \in [Accounts -> Roles \cup {"none"}] /\ orgs \subseteq Accounts
  /\ rows \subseteq [by : Requests, user : Accounts, token : Requests, expires : Nat]
  /\ now \in Nat /\ expiresAt \in Nat
  /\ op \in [Requests -> Op \cup {NoOp}] /\ pc \in [Requests -> PC]
  /\ reply \in [Requests -> {"none", "ok", "error", "expired"}]
  /\ tx \in [Requests -> SUBSET {"user", "org", "token"}]
  /\ holder \in [Requests -> [user : Accounts, expires : Nat, read : Nat] \cup {NoHolder}]
  /\ issued \in [Requests -> Nat \cup {-1}]
  /\ spent \subseteq Requests

\* A renewal revokes every earlier token of its user, on every device, and a
\* revoked token never comes back, however renewals overlap: an old token that
\* leaks or is retried is worth nothing.
RevokedForGood == \A r \in rows : r.token \notin spent

\* A device loses its session only to a renewal of the same account: the token
\* it was answered is stored until then.
LostOnlyByRenewal ==
  \A q \in Requests : reply[q] = "ok" => q \in spent \/ \E r \in rows : r.token = q

\* Tokens are renewed for the account they were issued to, even when the device
\* mixes up two accounts, or another request replaces the row in between.
RenewedForItsOwner ==
  \A q \in Requests : op[q].kind = "renew" /\ reply[q] = "ok"
    => op[op[q].token].user = User(q)

\* A sign-up that fails or is cut off anywhere leaves nothing; one that committed
\* left the account, its organization and its session.
AccountsAreComplete ==
  \A u \in Accounts :
    /\ role[u] = "organization" <=> u \in orgs
    /\ role[u] # "none" <=> \E r \in rows : r.user = u

\* Two sign-ups at once under one name: at most one is answered with tokens.
OneAccountPerName ==
  \A p, q \in Requests :
    /\ op[p].kind = "signup" /\ op[q].kind = "signup"
    /\ op[p].user = op[q].user /\ reply[p] = "ok" /\ reply[q] = "ok"
    => p = q

\* A token is not renewed later than a week after it was written.  Expiries are compared
\* as written: the column is a TIMESTAMP without a zone, and the server's zone is UTC.
RenewedWithinAWeek ==
  \A q \in Requests : op[q].kind = "renew" /\ pc[q] \in {"findUser", "findOrg", "rotate"}
    => holder[q].read <= issued[op[q].token] + Week
-----------------------------------------------------------------------------
(* The inductive invariant.                                                *)

\* Which requests reach which statements.
PathOK(q) ==
  /\ pc[q] \in InTx \cup {"insertUser"} => op[q].kind = "signup"
  /\ pc[q] = "storeToken" => op[q].kind = "login"
  /\ pc[q] \in {"lookup", "rotate"} => op[q].kind = "renew"
  /\ pc[q] \in {"findUser", "findOrg"} => op[q].kind \in {"login", "renew"}
  /\ pc[q] = "idle" => op[q] = NoOp /\ reply[q] = "none"

\* What an open transaction has written where it stands.
TxOK(q) ==
  /\ reply[q] # "none" \/ pc[q] \notin InTx => tx[q] = {}
  /\ At(q, "insertOrg") => tx[q] = {"user"} /\ WithOrg(q)
  /\ At(q, "insertToken") => tx[q] = {"user"} \cup (IF WithOrg(q) THEN {"org"} ELSE {})
  /\ At(q, "commit") => tx[q] = {"user", "token"} \cup (IF WithOrg(q) THEN {"org"} ELSE {})

\* An open transaction holds its name against everyone.
NameHeld ==
  \A q \in Requests : tx[q] # {} =>
    /\ role[User(q)] = "none"
    /\ \A p \in Requests : tx[p] # {} /\ User(p) = User(q) => p = q

FoundOK(q) ==
  \/ pc[q] \in {"findOrg", "storeToken", "rotate"}
  \/ op[q].kind = "signup" /\ reply[q] = "ok"
  => role[User(q)] # "none"

\* Rows and spent tokens come from requests that have been answered.
RowsOK ==
  /\ \A r \in rows :
       /\ reply[r.token] # "none" /\ r.user = User(r.token)
       /\ r.expires <= issued[r.token] + Week
  /\ \A t \in spent : reply[t] # "none"

\* What a renewal knows of the token it was given.
RenewalOK(q) ==
  op[q].kind = "renew" =>
  /\ reply[op[q].token] = "ok"
  /\ pc[q] \in {"findUser", "findOrg", "rotate"} => holder[q].user = User(op[q].token)
  /\ pc[q] = "rotate" => holder[q].user = User(q)

ClockOK == expiresAt <= now + Week

\* The inductive invariant: each property above is one of its conjuncts.
AuthInv ==
  /\ TypeOK /\ NameHeld /\ RowsOK /\ ClockOK
  /\ \A q \in Requests : PathOK(q) /\ TxOK(q) /\ FoundOK(q) /\ RenewalOK(q)
  /\ RevokedForGood /\ LostOnlyByRenewal /\ RenewedForItsOwner
  /\ AccountsAreComplete /\ OneAccountPerName /\ RenewedWithinAWeek
=============================================================================
