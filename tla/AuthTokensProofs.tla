-------------------------- MODULE AuthTokensProofs --------------------------
(***************************************************************************)
(* Theorems of accounts and refresh tokens, for every set of accounts and  *)
(* requests, any length of the week and any number of requests in flight.  *)
(***************************************************************************)
EXTENDS AuthTokens, TLAPS

Replies == {"none", "ok", "error", "expired"}

\* What the operations carry.
LEMMA Ops ==
  /\ \A u \in Accounts, r \in Roles :
       /\ SignUp(u, r) \in Op /\ SignUp(u, r).kind = "signup"
       /\ SignUp(u, r).user = u /\ SignUp(u, r).role = r
  /\ \A u \in Accounts : Login(u) \in Op /\ Login(u).kind = "login" /\ Login(u).user = u
  /\ \A u \in Accounts, t \in Requests :
       /\ Renew(u, t) \in Op /\ Renew(u, t).kind = "renew"
       /\ Renew(u, t).user = u /\ Renew(u, t).token = t
  /\ NoOp.kind = "none"
<1>1. \A u, r : SignUp(u, r).kind = "signup" /\ SignUp(u, r).user = u /\ SignUp(u, r).role = r
  BY DEF SignUp
<1>2. \A u : Login(u).kind = "login" /\ Login(u).user = u
  BY DEF Login
<1>3. \A u, t : Renew(u, t).kind = "renew" /\ Renew(u, t).user = u /\ Renew(u, t).token = t
  BY DEF Renew
<1>4. NoOp.kind = "none"
  BY DEF NoOp
<1>. QED
  BY <1>1, <1>2, <1>3, <1>4 DEF Op

\* The fields of a request, by its kind.
LEMMA Fields ==
  ASSUME NEW o \in Op \cup {NoOp}
  PROVE  /\ o.kind \in {"none", "signup", "login", "renew"}
         /\ o.kind # "none" => o.user \in Accounts
         /\ o.kind = "signup" => o.role \in Roles
         /\ o.kind = "renew" => o.token \in Requests
  BY DEF Op, NoOp, SignUp, Login, Renew

\* The initial states satisfy the invariant.
LEMMA InitAuth == Init => AuthInv
<1> SUFFICES ASSUME Init PROVE AuthInv
  OBVIOUS
<1>. USE AuthAssumption
<1>1. TypeOK
  BY DEF Init, TypeOK, PC, InTx, Roles
<1>2. NameHeld /\ RowsOK /\ ClockOK
  BY DEF Init, NameHeld, RowsOK, ClockOK
<1>3. ASSUME NEW q \in Requests
      PROVE  PathOK(q) /\ TxOK(q) /\ FoundOK(q) /\ RenewalOK(q)
  <2>1. op[q].kind = "none"
    BY Ops DEF Init
  <2>. QED
    BY <2>1 DEF Init, PathOK, TxOK, FoundOK, RenewalOK, At, InTx
<1>4. RevokedForGood /\ LostOnlyByRenewal /\ AccountsAreComplete
  BY DEF Init, RevokedForGood, LostOnlyByRenewal, AccountsAreComplete
<1>5. RenewedForItsOwner /\ OneAccountPerName /\ RenewedWithinAWeek
  BY DEF Init, RenewedForItsOwner, OneAccountPerName, RenewedWithinAWeek
<1>. QED
  BY <1>1, <1>2, <1>3, <1>4, <1>5 DEF AuthInv

\* Another request's invariant survives: the tokens it relies on were answered.
LEMMA OtherRequest ==
  ASSUME AuthInv, NEW q \in Requests, reply[q] = "none", NEW h \in Requests, h # q,
         \A g \in Requests : g # q =>
           /\ pc'[g] = pc[g] /\ reply'[g] = reply[g] /\ op'[g] = op[g]
           /\ tx'[g] = tx[g] /\ holder'[g] = holder[g] /\ issued'[g] = issued[g],
         \A u \in Accounts : role[u] # "none" => role'[u] # "none"
  PROVE  /\ PathOK(h)' /\ TxOK(h)' /\ FoundOK(h)' /\ RenewalOK(h)'
         /\ op[h].kind = "renew" => op[h].token \in Requests /\ op[h].token # q
<1>1. PathOK(h) /\ TxOK(h) /\ FoundOK(h) /\ RenewalOK(h)
  BY DEF AuthInv
<1>2. op[h] \in Op \cup {NoOp}
  BY DEF AuthInv, TypeOK
<1>3. PathOK(h)'
  BY <1>1 DEF PathOK
<1>4. TxOK(h)'
  BY <1>1 DEF TxOK, At, WithOrg
<1>5. op[h].kind # "none" => User(h) \in Accounts
  BY <1>2, Fields DEF User
<1>6. FoundOK(h)'
  BY <1>1, <1>5 DEF FoundOK, PathOK, User
<1>7. op[h].kind = "renew" => op[h].token \in Requests /\ op[h].token # q
  BY <1>1, <1>2, Fields DEF RenewalOK
<1>8. RenewalOK(h)'
  BY <1>1, <1>7 DEF RenewalOK, User
<1>. QED
  BY <1>3, <1>4, <1>6, <1>7, <1>8

\* A step that writes no table and grants nothing keeps the invariant when it
\* leaves its own request in order.
LEMMA Quiet ==
  ASSUME AuthInv, NEW q \in Requests, reply[q] = "none", reply'[q] # "ok",
         UNCHANGED <<tables, clock, issued, spent>>,
         pc' \in [Requests -> PC], reply' \in [Requests -> Replies],
         op' \in [Requests -> Op \cup {NoOp}],
         tx' \in [Requests -> SUBSET {"user", "org", "token"}],
         holder' \in [Requests -> [user : Accounts, expires : Nat, read : Nat] \cup {NoHolder}],
         \A g \in Requests : g # q =>
           /\ pc'[g] = pc[g] /\ reply'[g] = reply[g] /\ op'[g] = op[g]
           /\ tx'[g] = tx[g] /\ holder'[g] = holder[g],
         PathOK(q)', TxOK(q)', FoundOK(q)', RenewalOK(q)', NameHeld',
         op'[q].kind = "renew" /\ pc'[q] \in {"findUser", "findOrg", "rotate"}
           => holder'[q].read <= issued[op'[q].token] + Week
  PROVE  AuthInv'
<1>1. UNCHANGED <<role, orgs, rows, now, expiresAt, issued, spent>>
  BY DEF tables, clock
<1>2. TypeOK'
  BY <1>1 DEF AuthInv, TypeOK, Replies
<1>3. \A h \in Requests : PathOK(h)' /\ TxOK(h)' /\ FoundOK(h)' /\ RenewalOK(h)'
  BY <1>1, OtherRequest
<1>4. \A r \in rows : r.token \in Requests /\ r.token # q
  BY DEF AuthInv, TypeOK, RowsOK
<1>5. \A t \in spent : t \in Requests /\ t # q
  BY DEF AuthInv, TypeOK, RowsOK
<1>6. RowsOK'
  BY <1>1, <1>4, <1>5 DEF AuthInv, RowsOK, User
<1>7. ClockOK' /\ RevokedForGood' /\ LostOnlyByRenewal' /\ AccountsAreComplete'
  BY <1>1 DEF AuthInv, ClockOK, RevokedForGood, LostOnlyByRenewal, AccountsAreComplete
<1>8. \A h \in Requests : h # q /\ op[h].kind = "renew" => op[h].token \in Requests /\ op[h].token # q
  BY <1>1, OtherRequest
<1>9. RenewedForItsOwner'
  BY <1>8 DEF AuthInv, RenewedForItsOwner, User
<1>10. OneAccountPerName'
  BY DEF AuthInv, OneAccountPerName
<1>11. RenewedWithinAWeek'
  BY <1>1, <1>8 DEF AuthInv, RenewedWithinAWeek
<1>. QED
  BY <1>1, <1>2, <1>3, <1>6, <1>7, <1>9, <1>10, <1>11 DEF AuthInv

\* A request goes to its next statement, or is answered that it failed.
LEMMA Goes ==
  ASSUME AuthInv, NEW q \in Requests, NEW l \in PC, Goto(q, l)
  PROVE  /\ pc' \in [Requests -> PC] /\ reply' \in [Requests -> Replies]
         /\ \A g \in Requests : g # q => pc'[g] = pc[g]
         /\ pc'[q] = l /\ reply' = reply
  BY DEF AuthInv, TypeOK, Goto, Replies

LEMMA Answers ==
  ASSUME AuthInv, NEW q \in Requests, NEW a \in Replies, Answer(q, a)
  PROVE  /\ pc' \in [Requests -> PC] /\ reply' \in [Requests -> Replies]
         /\ \A g \in Requests : g # q => reply'[g] = reply[g]
         /\ reply'[q] = a /\ pc' = pc
  BY DEF AuthInv, TypeOK, Answer, Replies

LEMMA RequestStep ==
  ASSUME AuthInv, NEW q \in Requests, Request(q)
  PROVE  AuthInv'
<1>1. ASSUME NEW o \in Op, NEW l \in {"insertUser", "findUser", "lookup"}, Receive(q, o, l),
             o.kind = "renew" => l = "lookup" /\ reply[o.token] = "ok",
             o.kind = "login" => l = "findUser",
             o.kind = "signup" => l = "insertUser",
             o.kind # "none"
      PROVE  AuthInv'
  <2>1. At(q, "idle") /\ Goto(q, l) /\ op' = [op EXCEPT ![q] = o]
        /\ UNCHANGED <<tables, clock, tx, holder, issued, spent>>
    BY <1>1 DEF Receive
  <2>2. l \in PC /\ l # "idle" /\ l \notin InTx
    BY DEF PC, InTx
  <2>3. /\ pc' \in [Requests -> PC] /\ reply' \in [Requests -> Replies]
        /\ \A g \in Requests : g # q => pc'[g] = pc[g]
        /\ pc'[q] = l /\ reply' = reply
    BY <2>1, <2>2, Goes
  <2>4. op' \in [Requests -> Op \cup {NoOp}] /\ op'[q] = o /\ \A g \in Requests : g # q => op'[g] = op[g]
    BY <2>1 DEF AuthInv, TypeOK
  <2>5. TxOK(q) /\ pc[q] = "idle" /\ reply[q] = "none"
    BY <2>1 DEF AuthInv, At
  <2>6. tx[q] = {}
    BY <2>5 DEF TxOK, InTx
  <2>a. o.kind \in {"none", "signup", "login", "renew"}
    BY <1>1, Fields
  <2>7. PathOK(q)' /\ TxOK(q)'
    BY <1>1, <2>a, <2>1, <2>2, <2>3, <2>4, <2>6 DEF PathOK, TxOK, At, InTx
  <2>8. FoundOK(q)'
    BY <2>3, <2>5 DEF FoundOK
  <2>9. RenewalOK(q)'
    BY <1>1, <2>3, <2>4 DEF RenewalOK
  <2>10. NameHeld'
    BY <2>1, <2>4, <2>6 DEF AuthInv, NameHeld, User, tables
  <2>11. op'[q].kind = "renew" => pc'[q] \notin {"findUser", "findOrg", "rotate"}
    BY <1>1, <2>3, <2>4
  <2>12. UNCHANGED <<tables, clock, issued, spent>> /\ tx' = tx /\ holder' = holder
    BY <2>1
  <2>13. tx' \in [Requests -> SUBSET {"user", "org", "token"}]
         /\ holder' \in [Requests -> [user : Accounts, expires : Nat, read : Nat] \cup {NoHolder}]
    BY <2>12 DEF AuthInv, TypeOK
  <2>. QED
    BY <2>3, <2>4, <2>5, <2>7, <2>8, <2>9, <2>10, <2>11, <2>12, <2>13, Quiet
<1>2. ASSUME NEW u \in Accounts, NEW r \in Roles, Receive(q, SignUp(u, r), "insertUser")
      PROVE  AuthInv'
  BY <1>1, <1>2, Ops
<1>3. ASSUME NEW u \in Accounts, Receive(q, Login(u), "findUser")
      PROVE  AuthInv'
  BY <1>1, <1>3, Ops
<1>4. ASSUME NEW u \in Accounts, NEW t \in Requests, reply[t] = "ok", Receive(q, Renew(u, t), "lookup")
      PROVE  AuthInv'
  BY <1>1, <1>4, Ops
<1>. QED
  BY <1>2, <1>3, <1>4 DEF Request

\* A request that ends with an error, its transaction rolled back or never open.
LEMMA EndsWithError ==
  ASSUME AuthInv, NEW q \in Requests, reply[q] = "none", pc[q] # "idle",
         NEW a \in {"error", "expired"}, Answer(q, a),
         UNCHANGED <<tables, clock, op, issued, spent>>,
         tx' = [tx EXCEPT ![q] = {}],
         holder' \in [Requests -> [user : Accounts, expires : Nat, read : Nat] \cup {NoHolder}],
         \A g \in Requests : g # q => holder'[g] = holder[g],
         holder'[q] = holder[q] \/ pc[q] = "lookup"
  PROVE  AuthInv'
<1>1. /\ pc' \in [Requests -> PC] /\ reply' \in [Requests -> Replies]
      /\ \A g \in Requests : g # q => reply'[g] = reply[g]
      /\ reply'[q] = a /\ pc' = pc
  BY Answers DEF Replies
<1>2. /\ tx' \in [Requests -> SUBSET {"user", "org", "token"}]
      /\ tx'[q] = {} /\ \A g \in Requests : g # q => tx'[g] = tx[g]
  BY DEF AuthInv, TypeOK
<1>3. PathOK(q) /\ FoundOK(q) /\ RenewalOK(q)
  BY DEF AuthInv
<1>4. op' = op /\ UNCHANGED <<role, now, issued>> /\ op \in [Requests -> Op \cup {NoOp}]
  BY DEF tables, clock, AuthInv, TypeOK
<1>5. PathOK(q)' /\ TxOK(q)'
  BY <1>1, <1>2, <1>3, <1>4 DEF PathOK, TxOK, At
<1>6. FoundOK(q)'
  BY <1>1, <1>3, <1>4 DEF FoundOK, User
<1>7. op[q].kind = "renew" => op[q].token # q /\ op[q].token \in Requests
  BY <1>3, <1>4, Fields DEF RenewalOK
<1>8. RenewalOK(q)'
  BY <1>1, <1>3, <1>4, <1>7 DEF RenewalOK, User
<1>9. NameHeld'
  BY <1>2, <1>4 DEF AuthInv, NameHeld, User
<1>10. op'[q].kind = "renew" /\ pc'[q] \in {"findUser", "findOrg", "rotate"}
         => holder'[q].read <= issued[op'[q].token] + Week
  BY <1>1, <1>4 DEF AuthInv, RenewedWithinAWeek
<1>11. reply'[q] # "ok"
  BY <1>1
<1>. QED
  BY <1>1, <1>2, <1>4, <1>5, <1>6, <1>8, <1>9, <1>10, <1>11, Quiet

LEMMA FailStep ==
  ASSUME AuthInv, NEW q \in Requests, Fail(q)
  PROVE  AuthInv'
<1>1. Active(q) /\ Answer(q, "error") /\ tx' = [tx EXCEPT ![q] = {}]
      /\ UNCHANGED <<tables, clock, op, holder, issued, spent>>
  BY DEF Fail
<1>2. holder' \in [Requests -> [user : Accounts, expires : Nat, read : Nat] \cup {NoHolder}]
  BY <1>1 DEF AuthInv, TypeOK
<1>. QED
  BY <1>1, <1>2, EndsWithError DEF Active

\* Answers that write nothing: outside a transaction, tx is empty already.
LEMMA Refuses ==
  ASSUME AuthInv, NEW q \in Requests, NEW a \in {"error", "expired"}, Answer(q, a),
         At(q, pc[q]), pc[q] \notin InTx \cup {"idle"},
         UNCHANGED <<tables, clock, op, tx, holder, issued, spent>>
  PROVE  AuthInv'
<1>1. TxOK(q) /\ tx \in [Requests -> SUBSET {"user", "org", "token"}]
  BY DEF AuthInv, TypeOK
<1>2. tx' = [tx EXCEPT ![q] = {}]
  BY <1>1 DEF TxOK
<1>3. holder' \in [Requests -> [user : Accounts, expires : Nat, read : Nat] \cup {NoHolder}]
  BY DEF AuthInv, TypeOK
<1>. QED
  BY <1>2, <1>3, EndsWithError DEF At

LEMMA RefusalSteps ==
  ASSUME AuthInv, NEW q \in Requests, NameTaken(q) \/ NotFound(q) \/ LookupBreaks(q)
  PROVE  AuthInv'
<1>1. CASE NameTaken(q)
  BY <1>1, Refuses DEF NameTaken, At, InTx
<1>2. CASE NotFound(q)
  BY <1>2, Refuses DEF NotFound, At, InTx
<1>3. CASE LookupBreaks(q)
  BY <1>3, Refuses DEF LookupBreaks, At, InTx
<1>. QED
  BY <1>1, <1>2, <1>3

\* A statement of a transaction: what it writes is where it stands.
LEMMA TransactionStep ==
  ASSUME AuthInv, NEW q \in Requests, InsertUser(q) \/ InsertOrg(q) \/ InsertToken(q)
  PROVE  AuthInv'
<1>0. /\ pc \in [Requests -> PC] /\ tx \in [Requests -> SUBSET {"user", "org", "token"}]
      /\ PathOK(q) /\ TxOK(q)
  BY DEF AuthInv, TypeOK
<1>1. ASSUME NEW w \in {"user", "org", "token"}, NEW l \in InTx, Writes(q, w, l),
             At(q, pc[q]), pc[q] \in InTx \cup {"insertUser"}, TxOK(q)', NameHeld'
      PROVE  AuthInv'
  <2>1. /\ tx' = [tx EXCEPT ![q] = @ \cup {w}] /\ Goto(q, l)
        /\ UNCHANGED <<tables, clock, op, holder, issued, spent>>
    BY <1>1 DEF Writes
  <2>2. l \in PC
    BY DEF PC
  <2>3. /\ pc' \in [Requests -> PC] /\ reply' \in [Requests -> Replies]
        /\ \A g \in Requests : g # q => pc'[g] = pc[g]
        /\ pc'[q] = l /\ reply' = reply
    BY <2>1, <2>2, Goes
  <2>4. tx' \in [Requests -> SUBSET {"user", "org", "token"}]
        /\ \A g \in Requests : g # q => tx'[g] = tx[g]
    BY <1>0, <2>1
  <2>5. reply[q] = "none" /\ op[q].kind = "signup"
    BY <1>0, <1>1 DEF At, PathOK
  <2>6. PathOK(q)' /\ FoundOK(q)' /\ RenewalOK(q)'
    BY <2>1, <2>3, <2>5 DEF PathOK, FoundOK, RenewalOK, InTx
  <2>7. op' \in [Requests -> Op \cup {NoOp}]
        /\ holder' \in [Requests -> [user : Accounts, expires : Nat, read : Nat] \cup {NoHolder}]
    BY <2>1 DEF AuthInv, TypeOK
  <2>8. op'[q].kind # "renew"
    BY <2>1, <2>5
  <2>. QED
    BY <1>1, <2>1, <2>3, <2>4, <2>5, <2>6, <2>7, <2>8, Quiet
<1>2. CASE InsertUser(q)
  <2> DEFINE l == IF WithOrg(q) THEN "insertOrg" ELSE "insertToken"
  <2>1. At(q, "insertUser") /\ NameFree(User(q)) /\ Writes(q, "user", l)
    BY <1>2 DEF InsertUser
  <2>2. tx[q] = {} /\ op[q].kind = "signup"
    BY <1>0, <2>1 DEF TxOK, PathOK, At, InTx
  <2>3. tx' = [tx EXCEPT ![q] = @ \cup {"user"}] /\ pc' = [pc EXCEPT ![q] = l]
        /\ reply' = reply /\ op' = op /\ role' = role
    BY <2>1 DEF Writes, Goto, tables
  <2>4. tx'[q] = {"user"} /\ pc'[q] = l /\ \A g \in Requests : g # q => tx'[g] = tx[g]
    BY <1>0, <2>2, <2>3
  <2>5. TxOK(q)'
    BY <2>1, <2>3, <2>4 DEF TxOK, At, WithOrg, InTx
  <2>6. ASSUME NEW p \in Requests, tx[p] # {}
        PROVE  User(p) # User(q)
    <3>1. PathOK(p) /\ TxOK(p)
      BY DEF AuthInv
    <3>2. op[p].kind = "signup"
      BY <2>6, <3>1 DEF PathOK, TxOK
    <3>. QED
      BY <2>1, <2>6, <3>2 DEF NameFree, User
  <2>7. NameHeld'
    <3>1. role[User(q)] = "none"
      BY <2>1 DEF NameFree
    <3>. QED
      BY <2>3, <2>4, <2>6, <3>1 DEF AuthInv, NameHeld, User
  <2>8. pc[q] = "insertUser" /\ At(q, pc[q]) /\ l \in InTx
    BY <2>1 DEF At, InTx
  <2>. QED
    BY <1>1, <2>1, <2>5, <2>7, <2>8
<1>3. CASE InsertOrg(q)
  <2>1. At(q, "insertOrg") /\ Writes(q, "org", "insertToken")
    BY <1>3 DEF InsertOrg
  <2>2. tx[q] = {"user"} /\ WithOrg(q)
    BY <1>0, <2>1 DEF TxOK
  <2>3. tx' = [tx EXCEPT ![q] = @ \cup {"org"}] /\ pc' = [pc EXCEPT ![q] = "insertToken"]
        /\ reply' = reply /\ op' = op /\ role' = role
    BY <2>1 DEF Writes, Goto, tables
  <2>4. tx'[q] = {"user"} \cup {"org"} /\ pc'[q] = "insertToken"
        /\ \A g \in Requests : g # q => tx'[g] = tx[g]
    BY <1>0, <2>2, <2>3
  <2>5. TxOK(q)'
    BY <2>1, <2>2, <2>3, <2>4 DEF TxOK, At, WithOrg, InTx
  <2>6. NameHeld'
    BY <2>2, <2>3, <2>4 DEF AuthInv, NameHeld, User
  <2>7. pc[q] = "insertOrg" /\ At(q, pc[q]) /\ "insertOrg" \in InTx /\ "insertToken" \in InTx
    BY <2>1 DEF At, InTx
  <2>. QED
    BY <1>1, <2>1, <2>5, <2>6, <2>7
<1>4. CASE InsertToken(q)
  <2>1. At(q, "insertToken") /\ Writes(q, "token", "commit")
    BY <1>4 DEF InsertToken
  <2>2. tx[q] = {"user"} \cup (IF WithOrg(q) THEN {"org"} ELSE {})
    BY <1>0, <2>1 DEF TxOK
  <2>3. tx' = [tx EXCEPT ![q] = @ \cup {"token"}] /\ pc' = [pc EXCEPT ![q] = "commit"]
        /\ reply' = reply /\ op' = op /\ role' = role
    BY <2>1 DEF Writes, Goto, tables
  <2>4. tx'[q] = {"user", "token"} \cup (IF WithOrg(q) THEN {"org"} ELSE {}) /\ pc'[q] = "commit"
        /\ \A g \in Requests : g # q => tx'[g] = tx[g]
    BY <1>0, <2>2, <2>3
  <2>5. TxOK(q)'
    BY <2>1, <2>3, <2>4 DEF TxOK, At, WithOrg, InTx
  <2>6. NameHeld'
    BY <2>2, <2>3, <2>4 DEF AuthInv, NameHeld, User
  <2>7. pc[q] = "insertToken" /\ At(q, pc[q]) /\ "insertToken" \in InTx /\ "commit" \in InTx
    BY <2>1 DEF At, InTx
  <2>. QED
    BY <1>1, <2>1, <2>5, <2>6, <2>7
<1>. QED
  BY <1>2, <1>3, <1>4

\* The reads of login and renewal.
LEMMA LookupStep ==
  ASSUME AuthInv, NEW q \in Requests, Lookup(q)
  PROVE  AuthInv'
<1>. USE AuthAssumption
<1>1. PICK r \in rows :
        /\ r.token = op[q].token
        /\ holder' = [holder EXCEPT ![q] = [user |-> r.user, expires |-> r.expires, read |-> now]]
        /\ IF Expired(r) THEN Answer(q, "expired") ELSE Goto(q, "findUser")
  BY DEF Lookup
<1>2. At(q, "lookup") /\ UNCHANGED <<tables, clock, op, tx, issued, spent>>
  BY DEF Lookup
<1>3. /\ r.user \in Accounts /\ r.token \in Requests /\ r.expires \in Nat /\ now \in Nat
      /\ r.user = User(r.token) /\ r.expires <= issued[r.token] + Week
      /\ issued \in [Requests -> Nat \cup {-1}]
      /\ PathOK(q) /\ TxOK(q) /\ RenewalOK(q) /\ pc[q] = "lookup" /\ reply[q] = "none"
  BY <1>2 DEF AuthInv, TypeOK, RowsOK, At
<1>4. /\ holder' \in [Requests -> [user : Accounts, expires : Nat, read : Nat] \cup {NoHolder}]
      /\ holder'[q].user = r.user /\ holder'[q].read = now
      /\ \A g \in Requests : g # q => holder'[g] = holder[g]
  BY <1>1, <1>3 DEF AuthInv, TypeOK
<1>5. op[q].kind = "renew" /\ tx[q] = {}
  BY <1>3 DEF PathOK, TxOK, InTx
<1>6. CASE Expired(r)
  <2>1. tx' = [tx EXCEPT ![q] = {}]
    BY <1>2, <1>5 DEF AuthInv, TypeOK
  <2>2. Answer(q, "expired")
    BY <1>1, <1>6
  <2>. QED
    BY <1>2, <1>3, <1>4, <2>1, <2>2, EndsWithError
<1>7. CASE ~Expired(r)
  <2>1. Goto(q, "findUser") /\ "findUser" \in PC
    BY <1>1, <1>7 DEF PC
  <2>2. /\ pc' \in [Requests -> PC] /\ reply' \in [Requests -> Replies]
        /\ \A g \in Requests : g # q => pc'[g] = pc[g]
        /\ pc'[q] = "findUser" /\ reply' = reply
    BY <2>1, Goes
  <2>3. PathOK(q)' /\ TxOK(q)'
    BY <1>2, <1>5, <2>2 DEF PathOK, TxOK, At, InTx
  <2>4. FoundOK(q)'
    BY <1>3, <2>2 DEF FoundOK
  <2>5. RenewalOK(q)'
    BY <1>1, <1>2, <1>3, <1>4, <2>2 DEF RenewalOK, User
  <2>6. NameHeld'
    BY <1>2 DEF AuthInv, NameHeld, User, tables
  <2>7. now <= issued[r.token] + Week
    BY <1>3, <1>7 DEF Expired
  <2>8. holder'[q].read <= issued[op'[q].token] + Week
    BY <1>1, <1>2, <1>4, <2>7
  <2>9. /\ op' \in [Requests -> Op \cup {NoOp}]
        /\ tx' \in [Requests -> SUBSET {"user", "org", "token"}]
    BY <1>2 DEF AuthInv, TypeOK
  <2>. QED
    BY <1>2, <1>3, <1>4, <2>2, <2>3, <2>4, <2>5, <2>6, <2>8, <2>9, Quiet
<1>. QED
  BY <1>6, <1>7

LEMMA FindSteps ==
  ASSUME AuthInv, NEW q \in Requests, FindUser(q) \/ FindOrg(q)
  PROVE  AuthInv'
<1>0. /\ reply[q] = "none" /\ pc[q] \in {"findUser", "findOrg"}
      /\ UNCHANGED <<tables, clock, op, tx, holder, issued, spent>>
      /\ PathOK(q) /\ TxOK(q) /\ FoundOK(q) /\ RenewalOK(q)
      /\ op \in [Requests -> Op \cup {NoOp}]
  BY DEF FindUser, FindOrg, At, AuthInv, TypeOK
<1>1. ASSUME Answer(q, "error")
      PROVE  AuthInv'
  BY <1>0, <1>1, Refuses DEF At, InTx
<1>2. ASSUME NEW l \in {"findOrg", "storeToken", "rotate"}, Goto(q, l), role[User(q)] # "none",
             l # "findOrg" => l = AfterUser(q) /\ Owner(q)
      PROVE  AuthInv'
  <2>1. l \in PC /\ l \notin InTx \cup {"idle", "insertUser", "lookup", "findUser"}
    BY DEF PC, InTx
  <2>2. /\ pc' \in [Requests -> PC] /\ reply' \in [Requests -> Replies]
        /\ \A g \in Requests : g # q => pc'[g] = pc[g]
        /\ pc'[q] = l /\ reply' = reply
    BY <1>2, <2>1, Goes
  <2>3. op[q].kind \in {"login", "renew"} /\ tx[q] = {}
    BY <1>0 DEF PathOK, TxOK, InTx
  <2>4. PathOK(q)' /\ TxOK(q)'
    BY <1>0, <1>2, <2>1, <2>2, <2>3 DEF PathOK, TxOK, At, AfterUser
  <2>5. FoundOK(q)'
    BY <1>0, <1>2, <2>2 DEF FoundOK, User, tables
  <2>6. RenewalOK(q)'
    BY <1>0, <1>2, <2>2 DEF RenewalOK, Owner, AfterUser, User
  <2>7. NameHeld'
    BY <1>0 DEF AuthInv, NameHeld, User, tables
  <2>8. op'[q].kind = "renew" => holder'[q].read <= issued[op'[q].token] + Week
    BY <1>0 DEF AuthInv, RenewedWithinAWeek
  <2>9. /\ op' \in [Requests -> Op \cup {NoOp}]
        /\ tx' \in [Requests -> SUBSET {"user", "org", "token"}]
        /\ holder' \in [Requests -> [user : Accounts, expires : Nat, read : Nat] \cup {NoHolder}]
    BY <1>0 DEF AuthInv, TypeOK
  <2>. QED
    BY <1>0, <2>2, <2>4, <2>5, <2>6, <2>7, <2>8, <2>9, Quiet
<1>3. CASE FindUser(q)
  <2>1. AfterUser(q) \in {"storeToken", "rotate"}
    BY DEF AfterUser
  <2>. QED
    BY <1>1, <1>2, <1>3, <2>1 DEF FindUser
<1>4. CASE FindOrg(q)
  <2>1. AfterUser(q) \in {"storeToken", "rotate"} /\ pc[q] = "findOrg"
    BY <1>4 DEF AfterUser, FindOrg, At
  <2>2. role[User(q)] # "none"
    BY <1>0, <2>1 DEF FoundOK
  <2>. QED
    BY <1>1, <1>2, <1>4, <2>1, <2>2 DEF FindOrg
<1>. QED
  BY <1>3, <1>4

\* What the last write of a request leaves in order, whatever rows it writes.
LEMMA Grants ==
  ASSUME AuthInv, NEW q \in Requests, reply[q] = "none", Granted(q), pc[q] # "idle",
         UNCHANGED <<clock, op, holder>>, issued' = [issued EXCEPT ![q] = now],
         tx' = [tx EXCEPT ![q] = {}],
         \A u \in Accounts : role[u] # "none" => role'[u] # "none",
         op[q].kind = "signup" => role'[User(q)] # "none",
         \A h \in Requests : op[h].kind = "signup" /\ tx[h] # {} /\ h # q => role'[User(h)] = role[User(h)]
  PROVE  /\ \A h \in Requests : PathOK(h)' /\ TxOK(h)' /\ FoundOK(h)' /\ RenewalOK(h)'
         /\ NameHeld' /\ ClockOK' /\ RenewedWithinAWeek'
         /\ pc' = pc /\ reply' \in [Requests -> Replies] /\ reply'[q] \in {"ok", "error"}
         /\ \A h \in Requests : h # q => reply'[h] = reply[h] /\ issued'[h] = issued[h]
         /\ issued' \in [Requests -> Nat \cup {-1}] /\ issued'[q] = now
         /\ tx' \in [Requests -> SUBSET {"user", "org", "token"}]
<1>0. /\ op \in [Requests -> Op \cup {NoOp}] /\ now \in Nat
      /\ \A h \in Requests : PathOK(h) /\ TxOK(h) /\ FoundOK(h) /\ RenewalOK(h)
  BY DEF AuthInv, TypeOK
<1>1. PICK a \in {"ok", "error"} : Answer(q, a)
  BY DEF Granted
<1>2. /\ pc' = pc /\ reply' \in [Requests -> Replies] /\ reply'[q] = a
      /\ \A g \in Requests : g # q => reply'[g] = reply[g]
  BY <1>1, Answers DEF Replies
<1>3. /\ issued' \in [Requests -> Nat \cup {-1}] /\ issued'[q] = now
      /\ \A g \in Requests : g # q => issued'[g] = issued[g]
  BY <1>0 DEF AuthInv, TypeOK
<1>4. /\ tx' \in [Requests -> SUBSET {"user", "org", "token"}] /\ tx'[q] = {}
      /\ \A g \in Requests : g # q => tx'[g] = tx[g]
  BY DEF AuthInv, TypeOK
<1>5. \A h \in Requests : op[h].kind = "renew" => op[h].token \in Requests /\ op[h].token # q
  BY <1>0, Fields DEF RenewalOK
<1>6. PathOK(q)' /\ TxOK(q)' /\ FoundOK(q)' /\ RenewalOK(q)'
  <2>1. PathOK(q)' /\ TxOK(q)'
    BY <1>0, <1>2, <1>4 DEF PathOK, TxOK, At
  <2>2. User(q)' = User(q)
    BY DEF User
  <2>3. User(q) \in Accounts
    BY <1>0, Fields DEF PathOK, User, PC, InTx, AuthInv, TypeOK
  <2>4. FoundOK(q)'
    BY <1>0, <1>2, <2>2, <2>3 DEF FoundOK
  <2>5. RenewalOK(q)'
    BY <1>0, <1>2, <1>5, <2>2 DEF RenewalOK, User
  <2>. QED
    BY <2>1, <2>4, <2>5
<1>7. \A h \in Requests : PathOK(h)' /\ TxOK(h)' /\ FoundOK(h)' /\ RenewalOK(h)'
  BY <1>2, <1>3, <1>4, <1>6, OtherRequest
<1>8. NameHeld'
  <2>1. \A h \in Requests : tx[h] # {} => op[h].kind = "signup"
    BY <1>0 DEF TxOK, PathOK
  <2>. QED
    BY <1>4, <2>1 DEF AuthInv, NameHeld, User
<1>9. ClockOK' /\ RenewedWithinAWeek'
  BY <1>2, <1>3, <1>5 DEF AuthInv, ClockOK, RenewedWithinAWeek, clock
<1>. QED
  BY <1>2, <1>3, <1>4, <1>7, <1>8, <1>9

\* A new row, its token granted by its own request.
LEMMA NewRow ==
  ASSUME AuthInv, NEW q \in Requests, reply[q] = "none", User(q) \in Accounts,
         op' = op, spent' = spent, rows' = rows \cup {Row(q)}, reply'[q] # "none",
         \A h \in Requests : h # q => reply'[h] = reply[h] /\ issued'[h] = issued[h],
         issued'[q] = now
  PROVE  /\ rows' \subseteq [by : Requests, user : Accounts, token : Requests, expires : Nat]
         /\ RowsOK' /\ RevokedForGood' /\ LostOnlyByRenewal'
<1>1. /\ Row(q) \in [by : Requests, user : Accounts, token : Requests, expires : Nat]
      /\ Row(q).token = q /\ Row(q).user = User(q) /\ Row(q).expires = expiresAt
  BY DEF AuthInv, TypeOK, Row
<1>2. \A r \in rows : r.token \in Requests /\ r.token # q
  BY DEF AuthInv, TypeOK, RowsOK
<1>3. \A t \in spent : t \in Requests /\ t # q
  BY DEF AuthInv, TypeOK, RowsOK
<1>4. rows' \subseteq [by : Requests, user : Accounts, token : Requests, expires : Nat]
  BY <1>1 DEF AuthInv, TypeOK
<1>5. RowsOK'
  BY <1>1, <1>2, <1>3 DEF AuthInv, RowsOK, ClockOK, User
<1>6. RevokedForGood' /\ LostOnlyByRenewal'
  BY <1>1, <1>3 DEF AuthInv, RevokedForGood, LostOnlyByRenewal
<1>. QED
  BY <1>4, <1>5, <1>6

LEMMA CommitStep ==
  ASSUME AuthInv, NEW q \in Requests, Commit(q)
  PROVE  AuthInv'
<1>1. /\ PathOK(q) /\ TxOK(q) /\ At(q, "commit") /\ pc[q] = "commit" /\ reply[q] = "none"
      /\ op \in [Requests -> Op \cup {NoOp}] /\ role \in [Accounts -> Roles \cup {"none"}]
      /\ orgs \subseteq Accounts
  BY DEF AuthInv, TypeOK, Commit, At
<1>2. op[q].kind = "signup" /\ User(q) \in Accounts /\ op[q].role \in Roles
  BY <1>1, Fields DEF PathOK, InTx, User
<1>3. tx[q] = {"user", "token"} \cup (IF WithOrg(q) THEN {"org"} ELSE {})
  BY <1>1 DEF TxOK
<1>4. role[User(q)] = "none" /\ \A h \in Requests : tx[h] # {} /\ h # q => User(h) # User(q)
  BY <1>3 DEF AuthInv, NameHeld
<1>5. /\ role' = [role EXCEPT ![User(q)] = op[q].role]
      /\ orgs' = IF WithOrg(q) THEN orgs \cup {User(q)} ELSE orgs
      /\ rows' = rows \cup {Row(q)}
      /\ tx' = [tx EXCEPT ![q] = {}] /\ issued' = [issued EXCEPT ![q] = now]
      /\ Granted(q) /\ UNCHANGED <<clock, op, holder, spent>>
  BY <1>3 DEF Commit
<1>6. /\ role' \in [Accounts -> Roles \cup {"none"}] /\ role'[User(q)] = op[q].role
      /\ \A u \in Accounts : u # User(q) => role'[u] = role[u]
      /\ op[q].role # "none"
  BY <1>1, <1>2, <1>5 DEF Roles
<1>7. \A u \in Accounts : role[u] # "none" => role'[u] # "none"
  BY <1>6
<1>a. \A h \in Requests : op[h].kind = "signup" /\ tx[h] # {} /\ h # q => role'[User(h)] = role[User(h)]
  <2>1. \A h \in Requests : op[h].kind = "signup" => User(h) \in Accounts
    BY <1>1, Fields DEF User
  <2>. QED
    BY <1>4, <1>6, <2>1
<1>8. /\ \A h \in Requests : PathOK(h)' /\ TxOK(h)' /\ FoundOK(h)' /\ RenewalOK(h)'
      /\ NameHeld' /\ ClockOK' /\ RenewedWithinAWeek'
      /\ pc' = pc /\ reply' \in [Requests -> Replies] /\ reply'[q] \in {"ok", "error"}
      /\ \A h \in Requests : h # q => reply'[h] = reply[h] /\ issued'[h] = issued[h]
      /\ issued' \in [Requests -> Nat \cup {-1}] /\ issued'[q] = now
      /\ tx' \in [Requests -> SUBSET {"user", "org", "token"}]
  BY <1>1, <1>5, <1>6, <1>7, <1>a, Grants
<1>9. /\ rows' \subseteq [by : Requests, user : Accounts, token : Requests, expires : Nat]
      /\ RowsOK' /\ RevokedForGood' /\ LostOnlyByRenewal'
  BY <1>1, <1>2, <1>5, <1>8, NewRow
<1>10. TypeOK'
  BY <1>1, <1>2, <1>5, <1>6, <1>8, <1>9 DEF AuthInv, TypeOK, Replies, clock
<1>11. AccountsAreComplete'
  <2>1. Row(q).user = User(q)
    BY DEF Row
  <2>2. ASSUME NEW u \in Accounts, u # User(q)
        PROVE  /\ role'[u] = "organization" <=> u \in orgs'
               /\ role'[u] # "none" <=> \E r \in rows' : r.user = u
    BY <1>5, <1>6, <2>1, <2>2 DEF AuthInv, AccountsAreComplete
  <2>3. User(q) \notin orgs
    BY <1>2, <1>4 DEF AuthInv, AccountsAreComplete
  <2>4. op[q].role = "organization" <=> User(q) \in orgs'
    BY <1>5, <2>3 DEF WithOrg
  <2>5. Row(q) \in rows'
    BY <1>5
  <2>. QED
    BY <1>6, <2>1, <2>2, <2>4, <2>5 DEF AccountsAreComplete
<1>12. OneAccountPerName'
  <2>1. ASSUME NEW p \in Requests, op[p].kind = "signup", reply[p] = "ok"
        PROVE  User(p) # User(q)
    BY <1>4, <2>1 DEF AuthInv, FoundOK
  <2>. QED
    BY <1>5, <1>8, <2>1 DEF AuthInv, OneAccountPerName, User
<1>13. RenewedForItsOwner'
  BY <1>2, <1>5, <1>8 DEF AuthInv, RenewedForItsOwner, User
<1>. QED
  BY <1>8, <1>9, <1>10, <1>11, <1>12, <1>13 DEF AuthInv

LEMMA StoreTokenStep ==
  ASSUME AuthInv, NEW q \in Requests, StoreToken(q)
  PROVE  AuthInv'
<1>1. /\ PathOK(q) /\ FoundOK(q) /\ TxOK(q) /\ pc[q] = "storeToken" /\ reply[q] = "none"
      /\ op \in [Requests -> Op \cup {NoOp}] /\ tx \in [Requests -> SUBSET {"user", "org", "token"}]
      /\ rows' = rows \cup {Row(q)} /\ issued' = [issued EXCEPT ![q] = now]
      /\ Granted(q) /\ UNCHANGED <<role, orgs, clock, op, tx, holder, spent>>
  BY DEF AuthInv, TypeOK, StoreToken, At
<1>2. op[q].kind = "login" /\ User(q) \in Accounts /\ role[User(q)] # "none" /\ tx[q] = {}
  BY <1>1, Fields DEF PathOK, FoundOK, User, TxOK, InTx
<1>3. tx' = [tx EXCEPT ![q] = {}]
  BY <1>1, <1>2
<1>4. /\ \A h \in Requests : PathOK(h)' /\ TxOK(h)' /\ FoundOK(h)' /\ RenewalOK(h)'
      /\ NameHeld' /\ ClockOK' /\ RenewedWithinAWeek'
      /\ pc' = pc /\ reply' \in [Requests -> Replies] /\ reply'[q] \in {"ok", "error"}
      /\ \A h \in Requests : h # q => reply'[h] = reply[h] /\ issued'[h] = issued[h]
      /\ issued' \in [Requests -> Nat \cup {-1}] /\ issued'[q] = now
      /\ tx' \in [Requests -> SUBSET {"user", "org", "token"}]
  BY <1>1, <1>2, <1>3, Grants
<1>5. /\ rows' \subseteq [by : Requests, user : Accounts, token : Requests, expires : Nat]
      /\ RowsOK' /\ RevokedForGood' /\ LostOnlyByRenewal'
  BY <1>1, <1>2, <1>4, NewRow
<1>6. TypeOK'
  BY <1>1, <1>4, <1>5 DEF AuthInv, TypeOK, Replies, clock
<1>7. AccountsAreComplete'
  <2>1. Row(q).user = User(q)
    BY DEF Row
  <2>. QED
    BY <1>1, <1>2, <2>1 DEF AuthInv, AccountsAreComplete
<1>8. OneAccountPerName' /\ RenewedForItsOwner'
  BY <1>1, <1>2, <1>4 DEF AuthInv, OneAccountPerName, RenewedForItsOwner, User
<1>. QED
  BY <1>4, <1>5, <1>6, <1>7, <1>8 DEF AuthInv

\* A renewal: the rows of the account take the new token, all others stay.
LEMMA RotateStep ==
  ASSUME AuthInv, NEW q \in Requests, Rotate(q)
  PROVE  AuthInv'
<1>1. /\ PathOK(q) /\ FoundOK(q) /\ TxOK(q) /\ RenewalOK(q) /\ pc[q] = "rotate" /\ reply[q] = "none"
      /\ op \in [Requests -> Op \cup {NoOp}] /\ tx \in [Requests -> SUBSET {"user", "org", "token"}]
      /\ rows' = {Renewed(r, q) : r \in rows} /\ issued' = [issued EXCEPT ![q] = now]
      /\ spent' = spent \cup {r.token : r \in {s \in rows : s.user = User(q)}}
      /\ Granted(q) /\ UNCHANGED <<role, orgs, clock, op, tx, holder>>
  BY DEF AuthInv, TypeOK, Rotate, At
<1>2. /\ op[q].kind = "renew" /\ User(q) \in Accounts /\ role[User(q)] # "none" /\ tx[q] = {}
      /\ op[q].token \in Requests
  BY <1>1, Fields DEF PathOK, FoundOK, User, TxOK, InTx
<1>3. tx' = [tx EXCEPT ![q] = {}]
  BY <1>1, <1>2
<1>4. /\ \A h \in Requests : PathOK(h)' /\ TxOK(h)' /\ FoundOK(h)' /\ RenewalOK(h)'
      /\ NameHeld' /\ ClockOK' /\ RenewedWithinAWeek'
      /\ pc' = pc /\ reply' \in [Requests -> Replies] /\ reply'[q] \in {"ok", "error"}
      /\ \A h \in Requests : h # q => reply'[h] = reply[h] /\ issued'[h] = issued[h]
      /\ issued' \in [Requests -> Nat \cup {-1}] /\ issued'[q] = now
      /\ tx' \in [Requests -> SUBSET {"user", "org", "token"}]
  BY <1>1, <1>2, <1>3, Grants
<1>5. \A r \in rows : /\ r.token \in Requests /\ r.token # q /\ r.user = User(r.token)
                      /\ r \in [by : Requests, user : Accounts, token : Requests, expires : Nat]
  BY <1>1 DEF AuthInv, TypeOK, RowsOK
<1>6. expiresAt \in Nat
  BY DEF AuthInv, TypeOK
<1>7. \A r \in rows :
        /\ Renewed(r, q) \in [by : Requests, user : Accounts, token : Requests, expires : Nat]
        /\ Renewed(r, q).user = r.user
        /\ r.user = User(q) => Renewed(r, q).token = q /\ Renewed(r, q).expires = expiresAt
        /\ r.user # User(q) => Renewed(r, q) = r
  BY <1>5, <1>6 DEF Renewed
<1>8. \A t \in spent' : t \in Requests /\ t # q /\ reply[t] # "none"
  BY <1>1, <1>5 DEF AuthInv, TypeOK, RowsOK
<1>9. TypeOK'
  <2>1. rows' \subseteq [by : Requests, user : Accounts, token : Requests, expires : Nat]
    BY <1>1, <1>7
  <2>2. spent' \subseteq Requests
    BY <1>8
  <2>. QED
    BY <1>1, <1>4, <2>1, <2>2 DEF AuthInv, TypeOK, Replies, clock
<1>10. RowsOK'
  <2>1. ASSUME NEW r \in rows
        PROVE  /\ reply'[Renewed(r, q).token] # "none" /\ Renewed(r, q).user = User(Renewed(r, q).token)
               /\ Renewed(r, q).expires <= issued'[Renewed(r, q).token] + Week
    <3>1. CASE r.user = User(q)
      BY <1>4, <1>7, <3>1 DEF AuthInv, ClockOK
    <3>2. CASE r.user # User(q)
      BY <1>4, <1>5, <1>7, <3>2 DEF AuthInv, RowsOK
    <3>. QED
      BY <3>1, <3>2
  <2>2. \A t \in spent' : reply'[t] # "none"
    BY <1>4, <1>8
  <2>. QED
    BY <1>1, <2>1, <2>2 DEF RowsOK, User
<1>11. RevokedForGood'
  <2>1. ASSUME NEW r \in rows
        PROVE  Renewed(r, q).token \notin spent'
    <3>1. CASE r.user = User(q)
      BY <1>7, <1>8, <3>1
    <3>2. CASE r.user # User(q)
      <4>1. \A s \in rows : s.user = User(q) => s.token # r.token
        BY <1>5, <3>2
      <4>. QED
        BY <1>1, <1>7, <3>2, <4>1 DEF AuthInv, RevokedForGood
    <3>. QED
      BY <3>1, <3>2
  <2>. QED
    BY <1>1, <2>1 DEF RevokedForGood
<1>12. LostOnlyByRenewal'
  <2>1. PICK r \in rows : r.user = User(q)
    BY <1>2 DEF AuthInv, AccountsAreComplete
  <2>2. Renewed(r, q) \in rows' /\ Renewed(r, q).token = q
    BY <1>1, <1>7, <2>1
  <2>3. ASSUME NEW h \in Requests, h # q, reply'[h] = "ok"
        PROVE  h \in spent' \/ \E s \in rows' : s.token = h
    <3>1. CASE h \in spent
      BY <1>1, <3>1
    <3>2. CASE h \notin spent
      <4>1. PICK s \in rows : s.token = h
        BY <1>4, <2>3, <3>2 DEF AuthInv, LostOnlyByRenewal
      <4>2. CASE s.user = User(q)
        BY <1>1, <4>1, <4>2
      <4>3. CASE s.user # User(q)
        BY <1>1, <1>7, <4>1, <4>3
      <4>. QED
        BY <4>2, <4>3
    <3>. QED
      BY <3>1, <3>2
  <2>. QED
    BY <2>2, <2>3 DEF LostOnlyByRenewal
<1>13. AccountsAreComplete'
  <2>1. ASSUME NEW u
        PROVE  (\E r \in rows' : r.user = u) <=> (\E r \in rows : r.user = u)
    BY <1>1, <1>7
  <2>. QED
    BY <1>1, <2>1 DEF AuthInv, AccountsAreComplete
<1>14. OneAccountPerName'
  BY <1>1, <1>2, <1>4 DEF AuthInv, OneAccountPerName, User
<1>15. RenewedForItsOwner'
  <2>1. User(op[q].token) = User(q)
    BY <1>1, <1>2 DEF RenewalOK
  <2>. QED
    BY <1>1, <1>4, <2>1 DEF AuthInv, RenewedForItsOwner, User
<1>. QED
  BY <1>4, <1>9, <1>10, <1>11, <1>12, <1>13, <1>14, <1>15 DEF AuthInv

LEMMA TickStep ==
  ASSUME AuthInv, Tick
  PROVE  AuthInv'
<1>1. /\ now' = now + 1 /\ UNCHANGED <<role, orgs, rows, expiresAt, op, pc, reply, tx, holder, issued, spent>>
      /\ now \in Nat /\ expiresAt \in Nat /\ Week \in Nat
  BY AuthAssumption DEF AuthInv, TypeOK, Tick, tables
<1>2. TypeOK' /\ ClockOK'
  BY <1>1 DEF AuthInv, TypeOK, ClockOK
<1>3. \A q \in Requests : PathOK(q)' /\ TxOK(q)' /\ FoundOK(q)' /\ RenewalOK(q)'
  BY <1>1 DEF AuthInv, PathOK, TxOK, FoundOK, RenewalOK, At, WithOrg, User
<1>4. NameHeld' /\ RowsOK' /\ RevokedForGood' /\ LostOnlyByRenewal' /\ AccountsAreComplete'
  BY <1>1 DEF AuthInv, NameHeld, RowsOK, RevokedForGood, LostOnlyByRenewal, AccountsAreComplete, User
<1>5. OneAccountPerName' /\ RenewedForItsOwner' /\ RenewedWithinAWeek'
  BY <1>1 DEF AuthInv, OneAccountPerName, RenewedForItsOwner, RenewedWithinAWeek, User
<1>. QED
  BY <1>2, <1>3, <1>4, <1>5 DEF AuthInv

\* A restart answers only requests that were not answered yet.
LEMMA RestartStep ==
  ASSUME AuthInv, Restart
  PROVE  AuthInv'
<1>1. /\ expiresAt' = now + Week /\ now \in Nat /\ Week \in Nat
      /\ reply' = [q \in Requests |-> IF Active(q) THEN "error" ELSE reply[q]]
      /\ tx' = [q \in Requests |-> {}]
      /\ UNCHANGED <<role, orgs, rows, now, op, pc, holder, issued, spent>>
      /\ reply \in [Requests -> Replies]
  BY AuthAssumption DEF AuthInv, TypeOK, Restart, tables, Replies
<1>2. /\ reply' \in [Requests -> Replies] /\ tx' \in [Requests -> SUBSET {"user", "org", "token"}]
      /\ \A q \in Requests : tx'[q] = {} /\ (reply[q] # "none" \/ pc[q] = "idle" => reply'[q] = reply[q])
      /\ \A q \in Requests : reply'[q] = "ok" <=> reply[q] = "ok"
      /\ \A q \in Requests : pc[q] # "idle" => reply'[q] # "none"
  BY <1>1 DEF Active, Replies
<1>3. TypeOK' /\ ClockOK'
  BY <1>1, <1>2 DEF AuthInv, TypeOK, ClockOK, Replies
<1>4. ASSUME NEW q \in Requests
      PROVE  PathOK(q)' /\ TxOK(q)' /\ FoundOK(q)' /\ RenewalOK(q)'
  <2>1. PathOK(q) /\ FoundOK(q) /\ RenewalOK(q) /\ op[q] \in Op \cup {NoOp}
    BY DEF AuthInv, TypeOK
  <2>2. PathOK(q)'
    BY <1>1, <1>2, <2>1 DEF PathOK
  <2>3. TxOK(q)'
    BY <1>1, <1>2 DEF TxOK, At, InTx
  <2>4. FoundOK(q)' /\ RenewalOK(q)'
    BY <1>1, <1>2, <2>1, Fields DEF FoundOK, RenewalOK, User
  <2>. QED
    BY <2>2, <2>3, <2>4
<1>5. NameHeld'
  BY <1>2 DEF NameHeld
<1>6. RowsOK'
  <2>1. \A r \in rows : r.token \in Requests
    BY DEF AuthInv, TypeOK
  <2>2. spent \subseteq Requests
    BY DEF AuthInv, TypeOK
  <2>. QED
    BY <1>1, <1>2, <2>1, <2>2 DEF AuthInv, RowsOK, User
<1>7. RevokedForGood' /\ LostOnlyByRenewal' /\ AccountsAreComplete'
  BY <1>1, <1>2 DEF AuthInv, RevokedForGood, LostOnlyByRenewal, AccountsAreComplete
<1>8. OneAccountPerName' /\ RenewedForItsOwner' /\ RenewedWithinAWeek'
  BY <1>1, <1>2 DEF AuthInv, OneAccountPerName, RenewedForItsOwner, RenewedWithinAWeek, User
<1>. QED
  BY <1>3, <1>4, <1>5, <1>6, <1>7, <1>8 DEF AuthInv

LEMMA StepAuth == AuthInv /\ [Next]_vars => AuthInv'
<1> SUFFICES ASSUME AuthInv, [Next]_vars PROVE AuthInv'
  OBVIOUS
<1>1. ASSUME NEW q \in Requests, Request(q)
      PROVE  AuthInv'
  BY <1>1, RequestStep
<1>2. ASSUME NEW q \in Requests, Fail(q)
      PROVE  AuthInv'
  BY <1>2, FailStep
<1>3. ASSUME NEW q \in Requests, InsertUser(q) \/ InsertOrg(q) \/ InsertToken(q)
      PROVE  AuthInv'
  BY <1>3, TransactionStep
<1>4. ASSUME NEW q \in Requests, NameTaken(q) \/ NotFound(q) \/ LookupBreaks(q)
      PROVE  AuthInv'
  BY <1>4, RefusalSteps
<1>5. ASSUME NEW q \in Requests, Commit(q)
      PROVE  AuthInv'
  BY <1>5, CommitStep
<1>6. ASSUME NEW q \in Requests, Lookup(q)
      PROVE  AuthInv'
  BY <1>6, LookupStep
<1>7. ASSUME NEW q \in Requests, FindUser(q) \/ FindOrg(q)
      PROVE  AuthInv'
  BY <1>7, FindSteps
<1>8. ASSUME NEW q \in Requests, StoreToken(q)
      PROVE  AuthInv'
  BY <1>8, StoreTokenStep
<1>9. ASSUME NEW q \in Requests, Rotate(q)
      PROVE  AuthInv'
  BY <1>9, RotateStep
<1>10. CASE Tick
  BY <1>10, TickStep
<1>11. CASE Restart
  BY <1>11, RestartStep
<1>12. CASE UNCHANGED vars
  <2>1. /\ UNCHANGED <<role, orgs, rows, now, expiresAt, op, pc, reply, tx, holder, issued, spent>>
    BY <1>12 DEF vars, tables, clock
  <2>2. TypeOK' /\ ClockOK' /\ NameHeld' /\ RowsOK'
    BY <2>1 DEF AuthInv, TypeOK, ClockOK, NameHeld, RowsOK, User
  <2>3. \A q \in Requests : PathOK(q)' /\ TxOK(q)' /\ FoundOK(q)' /\ RenewalOK(q)'
    BY <2>1 DEF AuthInv, PathOK, TxOK, FoundOK, RenewalOK, At, WithOrg, User
  <2>4. RevokedForGood' /\ LostOnlyByRenewal' /\ AccountsAreComplete'
    BY <2>1 DEF AuthInv, RevokedForGood, LostOnlyByRenewal, AccountsAreComplete
  <2>5. OneAccountPerName' /\ RenewedForItsOwner' /\ RenewedWithinAWeek'
    BY <2>1 DEF AuthInv, OneAccountPerName, RenewedForItsOwner, RenewedWithinAWeek, User
  <2>. QED
    BY <2>2, <2>3, <2>4, <2>5 DEF AuthInv
<1>. QED
  BY <1>1, <1>2, <1>3, <1>4, <1>5, <1>6, <1>7, <1>8, <1>9, <1>10, <1>11, <1>12 DEF Next
-----------------------------------------------------------------------------
\* The inductive invariant holds in every reachable state.
THEOREM AuthInvariant == Spec => []AuthInv
  BY InitAuth, StepAuth, PTL DEF Spec

\* Renewals (auth_repository.go:94) revoke what they replace, for ever.
THEOREM Revoked == Spec => []RevokedForGood
<1>1. AuthInv => RevokedForGood
  BY DEF AuthInv
<1>. QED
  BY <1>1, AuthInvariant, PTL

\* A session that was answered can be renewed until a renewal of the same
\* account, whatever else the tables go through.
THEOREM SessionsLast == Spec => []LostOnlyByRenewal
<1>1. AuthInv => LostOnlyByRenewal
  BY DEF AuthInv
<1>. QED
  BY <1>1, AuthInvariant, PTL

\* The check of renew_token.go:35 holds when the row is written, statements later.
THEOREM OwnersRenew == Spec => []RenewedForItsOwner
<1>1. AuthInv => RenewedForItsOwner
  BY DEF AuthInv
<1>. QED
  BY <1>1, AuthInvariant, PTL

\* Sign-up (signup.go:44-86) is all or nothing, and the name it takes is its own.
THEOREM SignUpIsAtomic == Spec => [](AccountsAreComplete /\ OneAccountPerName)
<1>1. AuthInv => AccountsAreComplete /\ OneAccountPerName
  BY DEF AuthInv
<1>. QED
  BY <1>1, AuthInvariant, PTL

\* No token outlives a week, however often the process restarts.
THEOREM NoLateRenewal == Spec => []RenewedWithinAWeek
<1>1. AuthInv => RenewedWithinAWeek
  BY DEF AuthInv
<1>. QED
  BY <1>1, AuthInvariant, PTL
=============================================================================
