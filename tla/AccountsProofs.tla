--------------------------- MODULE AccountsProofs ---------------------------
(* Theorems about Accounts. *)
EXTENDS Accounts, TLAPS

\* The statements the actions are made of are expanded everywhere.
USE DEF CreateSession, RevokeSessionsForUser, SetTotpSecret, SetPendingTotp,
        GetPendingTotp, DiscardPendingTotp, ActivatePendingTotp,
        ReplaceRecoveryCodes, ClaimRecoveryCode, FindPasswordReset,
        ClaimPasswordReset, ApplyPasswordReset

Places == {"idle", "failing", "recovering", "claiming", "activating",
           "issuing", "recording", "marking", "inserting", "resetClaiming",
           "linking", "applying", "revoking", "reset", "authenticated",
           "beginning", "discarding", "promoting", "ending", "reissuing",
           "rotated", "done"}

-----------------------------------------------------------------------------
(* What the two ways of moving on do to the record of a request. *)

LEMMA QuietType ==
  ASSUME NEW place \in Places
  PROVE  /\ Quiet(place) \in Request
         /\ Quiet(place).at = place /\ Quiet(place).held = {}
<1>1. 0 \in Steps /\ 0 \in 0..MaxClock
  BY TimeAssumption DEF Steps
<1>2. QED
  BY <1>1 DEF Quiet, Request, Places

LEMMA GoEffect ==
  ASSUME TypeOK, NEW r \in Requests, NEW place \in Places, Go(r, place)
  PROVE  /\ req' \in [Requests -> Request]
         /\ req'[r].at = place /\ req'[r].held = {}
         /\ \A q \in Requests \ {r} : req'[q] = req[q]
BY QuietType DEF Go, TypeOK

LEMMA KeepEffect ==
  ASSUME TypeOK, NEW r \in Requests, NEW place \in Places, KeepOn(r, place)
  PROVE  /\ req' \in [Requests -> Request]
         /\ req'[r].at = place
         /\ req'[r].held = req[r].held /\ req'[r].link = req[r].link
         /\ req'[r].secret = req[r].secret
         /\ \A q \in Requests \ {r} : req'[q] = req[q]
<1>1. req[r] \in Request
  BY DEF TypeOK
<1>2. [req[r] EXCEPT !.at = place] \in Request
  BY <1>1 DEF Request, Places
<1>3. req'[r] = [req[r] EXCEPT !.at = place]
  BY DEF KeepOn, TypeOK
<1>4. req' \in [Requests -> Request] /\ \A q \in Requests \ {r} : req'[q] = req[q]
  BY <1>2 DEF KeepOn, TypeOK
<1>5. QED
  BY <1>1, <1>3, <1>4 DEF Request

\* The steps that write more of the record than the place.
LEMMA CodeEffect ==
  ASSUME TypeOK, NEW r \in Requests, NEW code \in Code, LoginCode(r, code)
  PROVE  /\ req' \in [Requests -> Request]
         /\ \A q \in Requests \ {r} : req'[q] = req[q]
         /\ \/ req'[r].at = "failing" /\ req'[r].held = {}
            \/ /\ req'[r].at = "claiming" /\ req'[r].held = req[r].held
               /\ req'[r].secret = user.secret
               /\ req'[r].counter = code.counter /\ req'[r].since = clock
               /\ Verifies(user.secret, code)
               /\ proven' = proven \cup {user.secret}
<1>1. CASE Go(r, "failing")
  BY <1>1, GoEffect DEF Places
<1>2. CASE ~Go(r, "failing")
  <2> DEFINE x == [req[r] EXCEPT !.at = "claiming", !.secret = user.secret,
                    !.counter = code.counter, !.since = clock,
                    !.activates = ~user.mfaEnabled]
  <2>1. /\ req[r] \in Request /\ user.secret \in Secrets \cup {None}
        /\ code.counter \in Steps /\ clock \in 0..MaxClock
    BY DEF TypeOK, User, Code
  <2>2. /\ x \in Request /\ x.at = "claiming" /\ x.held = req[r].held
        /\ x.secret = user.secret /\ x.counter = code.counter /\ x.since = clock
    BY <2>1, (~user.mfaEnabled) \in BOOLEAN DEF Request
  <2>3. /\ req' = [req EXCEPT ![r] = x] /\ Verifies(user.secret, code)
        /\ proven' = proven \cup {user.secret}
    BY <1>2 DEF LoginCode, TypeOK
  <2>4. req'[r] = x /\ \A q \in Requests \ {r} : req'[q] = req[q]
    BY <2>3 DEF TypeOK
  <2>5. req' \in [Requests -> Request]
    BY <2>2, <2>3 DEF TypeOK
  <2>6. QED
    BY <2>2, <2>3, <2>4, <2>5
<1>3. QED
  BY <1>1, <1>2

LEMMA RecoveryEffect ==
  ASSUME TypeOK, NEW r \in Requests, NEW g \in Requests, LoginRecovery(r, g)
  PROVE  /\ req' \in [Requests -> Request]
         /\ \A q \in Requests \ {r} : req'[q] = req[q]
         /\ req'[r].at = "recovering" /\ req'[r].held = req[r].held
         /\ req'[r].link = g
<1> DEFINE x == [req[r] EXCEPT !.at = "recovering", !.link = g]
<1>1. req[r] \in Request
  BY DEF TypeOK
<1>2. x \in Request /\ x.at = "recovering" /\ x.held = req[r].held /\ x.link = g
  BY <1>1 DEF Request
<1>3. req' = [req EXCEPT ![r] = x]
  BY DEF LoginRecovery, TypeOK
<1>4. QED
  BY <1>2, <1>3 DEF TypeOK

LEMMA ReadEffect ==
  ASSUME TypeOK, NEW r \in Requests, NEW l \in Requests, NEW code \in Code,
         ResetRead(r, l, code)
  PROVE  /\ req' \in [Requests -> Request]
         /\ \A q \in Requests \ {r} : req'[q] = req[q]
         /\ req'[r].held = req[r].held
         /\ \/ req'[r].at = "linking" /\ ~ResetNeedsCode /\ proven' = proven
            \/ /\ req'[r].at = "resetClaiming"
               /\ req'[r].counter = code.counter /\ req'[r].since = clock
               /\ Verifies(user.secret, code)
               /\ proven' = proven \cup {user.secret}
               /\ user.secret # None
<1> DEFINE x == [req[r] EXCEPT !.at = "linking", !.link = l]
           y == [req[r] EXCEPT !.at = "resetClaiming", !.link = l,
                               !.counter = code.counter, !.since = clock]
<1>1. /\ req[r] \in Request /\ code.counter \in Steps /\ clock \in 0..MaxClock
  BY DEF TypeOK, Code
<1>2. x \in Request /\ x.at = "linking" /\ x.held = req[r].held
  BY <1>1 DEF Request
<1>3. /\ y \in Request /\ y.at = "resetClaiming" /\ y.held = req[r].held
      /\ y.counter = code.counter /\ y.since = clock
  BY <1>1 DEF Request
<1>4. \/ req' = [req EXCEPT ![r] = x] /\ ~ResetNeedsCode /\ proven' = proven
      \/ /\ req' = [req EXCEPT ![r] = y] /\ Verifies(user.secret, code)
         /\ proven' = proven \cup {user.secret} /\ user.secret # None
  BY DEF ResetRead, TypeOK
<1>5. CASE req' = [req EXCEPT ![r] = x] /\ ~ResetNeedsCode /\ proven' = proven
  BY <1>2, <1>5 DEF TypeOK
<1>6. CASE /\ req' = [req EXCEPT ![r] = y] /\ Verifies(user.secret, code)
           /\ proven' = proven \cup {user.secret} /\ user.secret # None
  BY <1>3, <1>6 DEF TypeOK
<1>7. QED
  BY <1>4, <1>5, <1>6

LEMMA HoldEffect ==
  ASSUME TypeOK, NEW r \in Requests, NEW place \in Places,
         req' = [req EXCEPT ![r].at = place, ![r].held = live]
  PROVE  /\ req' \in [Requests -> Request]
         /\ \A q \in Requests \ {r} : req'[q] = req[q]
         /\ req'[r].at = place /\ req'[r].held = live
<1> DEFINE x == [req[r] EXCEPT !.at = place, !.held = live]
<1>1. req[r] \in Request /\ live \in SUBSET Requests
  BY DEF TypeOK
<1>2. x \in Request /\ x.at = place /\ x.held = live
  BY <1>1 DEF Request, Places
<1>3. req' = [req EXCEPT ![r] = x]
  BY DEF TypeOK
<1>4. QED
  BY <1>2, <1>3 DEF TypeOK

\* Claiming a time step leaves rows of totp_used.
LEMMA ConsumeType ==
  ASSUME TypeOK, NEW counter \in Steps, Consume(counter)
  PROVE  used' \subseteq [counter : Steps, at : 0..MaxClock]
<1>1. [counter |-> counter, at |-> clock] \in [counter : Steps, at : 0..MaxClock]
  BY DEF TypeOK
<1>2. QED
  BY <1>1 DEF Consume, Remembered, TypeOK

LEMMA WinType ==
  ASSUME TypeOK, NEW r \in Requests,
         NEW kind \in {"totp", "link", "code", "rotation"},
         NEW of \in Steps \cup Requests \cup Secrets, Win(r, kind, of)
  PROVE  won' \subseteq Claim
<1>1. [kind |-> kind, of |-> of, by |-> r] \in Claim
  BY DEF Claim
<1>2. QED
  BY <1>1 DEF Win, TypeOK

-----------------------------------------------------------------------------
(* Type correctness, one handler at a time. *)

LEMMA LoginType ==
  ASSUME TypeOK, NEW r \in Requests, Login(r)
  PROVE  TypeOK'
<1>1. /\ req[r] \in Request /\ user \in User
      /\ req[r].secret \in Secrets \cup {None} /\ req[r].counter \in Steps
      /\ user.failed \in Nat
  BY DEF TypeOK, Request, User
<1>2. CASE LoginWrong(r)
  BY <1>2, GoEffect DEF LoginWrong, Places, TypeOK, history
<1>3. CASE LoginPlain(r)
  BY <1>3, GoEffect DEF LoginPlain, Places, TypeOK, history
<1>4. ASSUME NEW g \in Requests, LoginRecovery(r, g)
      PROVE  TypeOK'
  BY Zenon, <1>4, RecoveryEffect DEF LoginRecovery, TypeOK, history
<1>5. ASSUME NEW code \in Code, LoginCode(r, code)
      PROVE  TypeOK'
  <2>1. user.secret \in Secrets
    BY <1>1, <1>5 DEF User, LoginCode
  <2>2. proven' \subseteq Secrets
    BY <1>5, <2>1 DEF LoginCode, TypeOK
  <2>3. QED
    BY Zenon, <1>5, <2>2, CodeEffect DEF LoginCode, TypeOK
<1>6. CASE LoginFail(r)
  <2>1. user' \in User
    <3> DEFINE lock == user.locked \/ user.failed + 1 >= MaxFailures
               count == user.failed + 1
    <3>1. lock \in BOOLEAN
      OBVIOUS
    <3>2. count \in Nat
      BY <1>1
    <3>3. user' = [user EXCEPT !.failed = count, !.locked = lock]
      BY <1>6 DEF LoginFail
    <3> HIDE DEF lock, count
    <3>4. QED
      BY <1>1, <3>1, <3>2, <3>3 DEF User
  <2>2. lapsed' \in BOOLEAN
    BY <1>6 DEF LoginFail
  <2>3. QED
    BY <1>6, <2>1, <2>2, GoEffect DEF LoginFail, Places, TypeOK
<1>7. CASE LoginRecover(r)
  <2>1. CASE req[r].link \in codes
    <3>1. Win(r, "code", req[r].link) /\ Go(r, "issuing") /\ codes' \subseteq codes
      BY <1>7, <2>1 DEF LoginRecover
    <3>2. won' \subseteq Claim
      BY <2>1, <3>1, WinType DEF TypeOK
    <3>3. QED
      BY <1>7, <3>1, <3>2, GoEffect DEF LoginRecover, Places, TypeOK
  <2>2. CASE req[r].link \notin codes
    BY <1>7, <2>2, GoEffect DEF LoginRecover, Places, TypeOK
  <2>3. QED
    BY <2>1, <2>2
<1>8. CASE LoginConsume(r)
  <2>1. used' \subseteq [counter : Steps, at : 0..MaxClock]
    BY <1>1, <1>8, ConsumeType DEF LoginConsume
  <2>2. req' \in [Requests -> Request] /\ won' \subseteq Claim
    BY <1>1, <1>8, WinType, GoEffect, KeepEffect DEF LoginConsume, Places, TypeOK
  <2>3. QED
    BY <1>8, <2>1, <2>2 DEF LoginConsume, TypeOK
<1>9. CASE LoginActivate(r)
  <2>1. user' \in User
    BY <1>1, <1>9 DEF LoginActivate, User
  <2>2. QED
    BY <1>9, <2>1, GoEffect DEF LoginActivate, Places, TypeOK, history
<1>10. CASE LoginIssue(r)
  BY <1>10, GoEffect DEF LoginIssue, Places, TypeOK, history
<1>11. CASE LoginRecord(r)
  <2>1. user' \in User
    BY <1>1, <1>11 DEF LoginRecord, User
  <2>2. QED
    BY <1>11, <2>1, GoEffect DEF LoginRecord, Places, TypeOK, history
<1>12. QED
  BY <1>2, <1>3, <1>4, <1>5, <1>6, <1>7, <1>8, <1>9, <1>10, <1>11 DEF Login

LEMMA ResetType ==
  ASSUME TypeOK, NEW r \in Requests, Reset(r)
  PROVE  TypeOK'
<1>1. /\ req[r] \in Request /\ user \in User /\ req[r].counter \in Steps
  BY DEF TypeOK, Request
<1>2. CASE ResetRequest(r)
  BY <1>2, GoEffect DEF ResetRequest, Places, TypeOK, history
<1>3. CASE ResetMark(r)
  BY <1>3, GoEffect DEF ResetMark, Places, TypeOK, history
<1>4. CASE ResetInsert(r)
  BY <1>4, GoEffect DEF ResetInsert, Places, TypeOK, history
<1>5. ASSUME NEW l \in Requests, NEW code \in Code, ResetRead(r, l, code)
      PROVE  TypeOK'
  <2>1. proven' \subseteq Secrets
    BY <1>1, <1>5, ReadEffect DEF User, TypeOK
  <2>2. QED
    BY Zenon, <1>5, <2>1, ReadEffect DEF ResetRead, TypeOK
<1>6. CASE ResetConsume(r)
  <2>1. used' \subseteq [counter : Steps, at : 0..MaxClock]
    BY <1>1, <1>6, ConsumeType DEF ResetConsume
  <2>2. req' \in [Requests -> Request] /\ won' \subseteq Claim
    BY <1>1, <1>6, WinType, GoEffect, KeepEffect DEF ResetConsume, Places, TypeOK
  <2>3. QED
    BY <1>6, <2>1, <2>2 DEF ResetConsume, TypeOK
<1>7. CASE ResetClaim(r)
  <2>1. CASE req[r].link \in links
    <3>1. Win(r, "link", req[r].link) /\ Go(r, "applying") /\ links' \subseteq links
      BY <1>7, <2>1 DEF ResetClaim
    <3>2. won' \subseteq Claim
      BY <2>1, <3>1, WinType DEF TypeOK
    <3>3. QED
      BY <1>7, <3>1, <3>2, GoEffect DEF ResetClaim, Places, TypeOK
  <2>2. CASE req[r].link \notin links
    BY <1>7, <2>2, GoEffect DEF ResetClaim, Places, TypeOK
  <2>3. QED
    BY <2>1, <2>2
<1>8. CASE ResetApply(r)
  <2>1. user' \in User
    BY <1>1, <1>8 DEF ResetApply, User
  <2>2. QED
    BY Zenon, <1>8, <2>1, HoldEffect DEF ResetApply, Places, TypeOK, history
<1>9. CASE ResetRevoke(r)
  BY <1>9, KeepEffect DEF ResetRevoke, Places, TypeOK, history
<1>10. QED
  BY <1>2, <1>3, <1>4, <1>5, <1>6, <1>7, <1>8, <1>9 DEF Reset

LEMMA RotateType ==
  ASSUME TypeOK, NEW r \in Requests, Rotate(r)
  PROVE  TypeOK'
<1>1. req[r] \in Request /\ user \in User /\ user.pending \in Secrets \cup {None}
  BY DEF TypeOK, User
<1>2. CASE Authenticate(r)
  BY <1>2, GoEffect DEF Authenticate, Places, TypeOK, history
<1>3. CASE RotateBegin(r)
  BY <1>3, GoEffect DEF RotateBegin, Places, TypeOK, history
<1>4. ASSUME NEW s \in Secrets, RotatePend(r, s)
      PROVE  TypeOK'
  <2>1. user' \in User
    BY <1>1, <1>4 DEF RotatePend, User
  <2>2. QED
    BY <1>4, <2>1, GoEffect DEF RotatePend, Places, TypeOK
<1>5. ASSUME NEW code \in Code, RotateConfirm(r, code)
      PROVE  TypeOK'
  <2>1. req' \in [Requests -> Request]
    BY <1>5, GoEffect DEF RotateConfirm, Places
  <2>2. proven' \subseteq Secrets
    BY <1>1, <1>5 DEF RotateConfirm, TypeOK
  <2>3. QED
    BY <1>5, <2>1, <2>2 DEF RotateConfirm, TypeOK
<1>6. CASE RotateDiscard(r)
  <2>1. user' \in User
    BY <1>1, <1>6 DEF RotateDiscard, User
  <2>2. QED
    BY <1>6, <2>1, GoEffect DEF RotateDiscard, Places, TypeOK, history
<1>7. CASE RotatePromote(r)
  <2>1. CASE user.pending # None
    <3>1. user' \in User
      BY <1>1, <1>7, <2>1 DEF RotatePromote, User
    <3>2. won' \subseteq Claim
      BY <1>1, <1>7, <2>1, WinType DEF RotatePromote
    <3>3. req' \in [Requests -> Request]
      BY <1>7, <2>1, HoldEffect DEF RotatePromote, Places
    <3>4. codes' \subseteq Requests
      BY <1>7, <2>1 DEF RotatePromote
    <3>5. QED
      BY <1>7, <3>1, <3>2, <3>3, <3>4 DEF RotatePromote, TypeOK
  <2>2. CASE user.pending = None
    BY <1>7, <2>2, GoEffect DEF RotatePromote, Places, TypeOK
  <2>3. QED
    BY <2>1, <2>2
<1>8. CASE RotateRevoke(r)
  BY <1>8, KeepEffect DEF RotateRevoke, Places, TypeOK, history
<1>9. CASE RotateIssue(r)
  BY <1>9, KeepEffect DEF RotateIssue, Places, TypeOK, history
<1>10. QED
  BY <1>2, <1>3, <1>4, <1>5, <1>6, <1>7, <1>8, <1>9 DEF Rotate

LEMMA InitType == Init => TypeOK
<1> SUFFICES ASSUME Init PROVE TypeOK
  OBVIOUS
<1>1. user \in User
  <2>1. ASSUME NEW owner \in BOOLEAN, NEW secret \in Secrets \cup {None}
        PROVE  [owner |-> owner, password |-> None, secret |-> secret,
                mfaEnabled |-> FALSE, pending |-> None, stale |-> FALSE,
                failed |-> 0, locked |-> FALSE] \in User
    BY DEF User
  <2>2. QED
    BY <2>1 DEF Init
<1>2. req \in [Requests -> Request]
  BY QuietType DEF Init, Places
<1>3. clock \in 0..MaxClock
  BY TimeAssumption DEF Init
<1>4. generated \subseteq Secrets
  BY DEF Init
<1>5. QED
  BY <1>1, <1>2, <1>3, <1>4 DEF Init, TypeOK

LEMMA NextType == TypeOK /\ [Next]_vars => TypeOK'
<1> SUFFICES ASSUME TypeOK, [Next]_vars PROVE TypeOK'
  OBVIOUS
<1>1. user \in User
  BY DEF TypeOK
<1>2. ASSUME NEW r \in Requests, Login(r) \/ Reset(r) \/ Rotate(r)
      PROVE  TypeOK'
  BY <1>2, LoginType, ResetType, RotateType
<1>3. ASSUME NEW r \in Requests, Break(r)
      PROVE  TypeOK'
  BY <1>3, GoEffect DEF Break, Places, TypeOK, history
<1>4. ASSUME NEW r \in Requests, EndSession(r) \/ ExpireLink(r)
      PROVE  TypeOK'
  BY <1>4 DEF EndSession, ExpireLink, TypeOK, history
<1>5. CASE ExpirePending
  <2>1. user' \in User
    BY <1>1, <1>5 DEF ExpirePending, User
  <2>2. QED
    BY <1>5, <2>1 DEF ExpirePending, TypeOK, history
<1>6. CASE ExpireLock
  <2>1. user' \in User
    BY <1>1, <1>6 DEF ExpireLock, User
  <2>2. QED
    BY <1>6, <2>1 DEF ExpireLock, TypeOK
<1>7. CASE Tick
  <2>1. clock' \in 0..MaxClock
    BY <1>7, TimeAssumption DEF Tick, TypeOK
  <2>2. QED
    BY <1>7, <2>1 DEF Tick, TypeOK, history
<1>8. CASE UNCHANGED vars
  BY <1>8 DEF vars, history, TypeOK
<1>9. QED
  BY <1>2, <1>3, <1>4, <1>5, <1>6, <1>7, <1>8 DEF Next

\* The rows, the progress of the requests and what they have won keep their
\* shape, whatever is interleaved.
THEOREM TypeCorrect == Spec => []TypeOK
<1>1. Init => TypeOK
  BY InitType
<1>2. TypeOK /\ [Next]_vars => TypeOK'
  BY NextType
<1>3. QED
  BY <1>1, <1>2, PTL DEF Spec

-----------------------------------------------------------------------------
(* What a step may do to one part of the state: the lemmas the invariants   *)
(* share.                                                                   *)

\* From here on a request has the authenticator changed ...
Changed == {"ending", "reissuing", "rotated", "done"}

\* ... and from here on its session may be live.
Answered == {"recording", "rotated", "done"}

\* A request that is over, that has changed the authenticator or that has been
\* answered remains so.
Stays(q) ==
  /\ req[q].at = "done" => req'[q].at = "done"
  /\ req[q].at \in Changed => req'[q].at \in Changed
  /\ req[q].at \in Answered => req'[q].at \in Answered

LEMMA LoginStays ==
  ASSUME TypeOK, NEW r \in Requests, Login(r), NEW q \in Requests
  PROVE  Stays(q)
<1> USE DEF Stays, Changed, Answered, At, Places
<1>1. CASE LoginWrong(r) \/ LoginPlain(r) \/ LoginFail(r)
  BY <1>1, GoEffect DEF LoginWrong, LoginPlain, LoginFail
<1>2. CASE LoginRecover(r)
  BY <1>2, GoEffect DEF LoginRecover
<1>3. CASE LoginConsume(r)
  BY <1>3, GoEffect, KeepEffect DEF LoginConsume
<1>4. CASE LoginActivate(r) \/ LoginIssue(r) \/ LoginRecord(r)
  BY <1>4, GoEffect DEF LoginActivate, LoginIssue, LoginRecord
<1>5. ASSUME NEW g \in Requests, LoginRecovery(r, g)
      PROVE  Stays(q)
  BY <1>5, RecoveryEffect DEF LoginRecovery
<1>6. ASSUME NEW code \in Code, LoginCode(r, code)
      PROVE  Stays(q)
  BY Zenon, <1>6, CodeEffect DEF LoginCode
<1>7. QED
  BY <1>1, <1>2, <1>3, <1>4, <1>5, <1>6 DEF Login

LEMMA ResetStays ==
  ASSUME TypeOK, NEW r \in Requests, Reset(r), NEW q \in Requests
  PROVE  Stays(q)
<1> USE DEF Stays, Changed, Answered, At, Places
<1>1. CASE ResetRequest(r) \/ ResetMark(r) \/ ResetInsert(r)
  BY <1>1, GoEffect DEF ResetRequest, ResetMark, ResetInsert
<1>2. ASSUME NEW l \in Requests, NEW code \in Code, ResetRead(r, l, code)
      PROVE  Stays(q)
  BY Zenon, <1>2, ReadEffect DEF ResetRead
<1>3. CASE ResetConsume(r)
  BY <1>3, GoEffect, KeepEffect DEF ResetConsume
<1>4. CASE ResetClaim(r)
  BY <1>4, GoEffect DEF ResetClaim
<1>5. CASE ResetApply(r)
  BY Zenon, <1>5, HoldEffect DEF ResetApply
<1>6. CASE ResetRevoke(r)
  BY <1>6, KeepEffect DEF ResetRevoke
<1>7. QED
  BY <1>1, <1>2, <1>3, <1>4, <1>5, <1>6 DEF Reset

LEMMA RotateStays ==
  ASSUME TypeOK, NEW r \in Requests, Rotate(r), NEW q \in Requests
  PROVE  Stays(q)
<1> USE DEF Stays, Changed, Answered, At, Places
<1>1. CASE Authenticate(r) \/ RotateBegin(r) \/ RotateDiscard(r)
  BY <1>1, GoEffect DEF Authenticate, RotateBegin, RotateDiscard
<1>2. ASSUME NEW s \in Secrets, RotatePend(r, s)
      PROVE  Stays(q)
  BY <1>2, GoEffect DEF RotatePend
<1>3. ASSUME NEW code \in Code, RotateConfirm(r, code)
      PROVE  Stays(q)
  BY <1>3, GoEffect DEF RotateConfirm
<1>4. CASE RotatePromote(r)
  BY Zenon, <1>4, GoEffect, HoldEffect DEF RotatePromote
<1>5. CASE RotateRevoke(r) \/ RotateIssue(r)
  BY <1>5, KeepEffect DEF RotateRevoke, RotateIssue
<1>6. QED
  BY <1>1, <1>2, <1>3, <1>4, <1>5 DEF Rotate

LEMMA NextStays ==
  ASSUME TypeOK, [Next]_vars, NEW q \in Requests
  PROVE  Stays(q)
<1>1. ASSUME NEW r \in Requests, Login(r) \/ Reset(r) \/ Rotate(r)
      PROVE  Stays(q)
  BY <1>1, LoginStays, ResetStays, RotateStays
<1>2. ASSUME NEW r \in Requests, Break(r)
      PROVE  Stays(q)
  BY <1>2, GoEffect DEF Break, Places, Stays, Changed, Answered
<1>3. CASE UNCHANGED req
  BY <1>3 DEF Stays
<1>4. QED
  BY <1>1, <1>2, <1>3
     DEF Next, EndSession, ExpireLink, ExpirePending, ExpireLock, Tick, vars

\* Nothing is won but by these steps.
Won(r, kind, of) == won' = won \cup {[kind |-> kind, of |-> of, by |-> r]}
CodeWon(r) == /\ LoginRecover(r) /\ req[r].link \in codes
              /\ codes' = codes \ {req[r].link} /\ Won(r, "code", req[r].link)
LinkWon(r) == /\ ResetClaim(r) /\ req[r].link \in links
              /\ links' = links \ {req[r].link} /\ Won(r, "link", req[r].link)
StepWon(r) == /\ At(r, "claiming") \/ At(r, "resetClaiming")
              /\ Consume(req[r].counter) /\ ~Taken(req[r].counter)
              /\ Won(r, "totp", req[r].counter) /\ clock' = clock
SecretWon(r) == /\ RotatePromote(r) /\ user.pending # None /\ user'.pending = None
                /\ Won(r, "rotation", user.pending)
Wins(r) == CodeWon(r) \/ LinkWon(r) \/ StepWon(r) \/ SecretWon(r)

LEMMA WonChange ==
  ASSUME TypeOK, [Next]_vars
  PROVE  won' = won \/ \E r \in Requests : Wins(r)
<1>1. ASSUME NEW r \in Requests, Login(r)
      PROVE  won' = won \/ Wins(r)
  <2>1. CASE LoginRecover(r)
    BY <2>1 DEF LoginRecover, Wins, CodeWon, Won, Win
  <2>2. CASE LoginConsume(r)
    BY <2>2 DEF LoginConsume, Wins, StepWon, Won, Win
  <2>3. CASE ~LoginRecover(r) /\ ~LoginConsume(r)
    BY Zenon, <1>1, <2>3 DEF Login, LoginWrong, LoginPlain, LoginRecovery, LoginCode,
                      LoginFail, LoginActivate, LoginIssue, LoginRecord, history
  <2>4. QED
    BY <2>1, <2>2, <2>3
<1>2. ASSUME NEW r \in Requests, Reset(r)
      PROVE  won' = won \/ Wins(r)
  <2>1. CASE ResetConsume(r)
    BY <2>1 DEF ResetConsume, Wins, StepWon, Won, Win
  <2>2. CASE ResetClaim(r)
    BY <2>2 DEF ResetClaim, Wins, LinkWon, Won, Win
  <2>3. CASE ~ResetConsume(r) /\ ~ResetClaim(r)
    BY Zenon, <1>2, <2>3 DEF Reset, ResetRequest, ResetMark, ResetInsert, ResetRead,
                      ResetApply, ResetRevoke, history
  <2>4. QED
    BY <2>1, <2>2, <2>3
<1>3. ASSUME NEW r \in Requests, Rotate(r)
      PROVE  won' = won \/ Wins(r)
  <2>1. CASE RotatePromote(r)
    <3>1. user \in User
      BY DEF TypeOK
    <3>2. user.pending # None => user'.pending = None
      BY <2>1, <3>1 DEF RotatePromote, User
    <3>3. QED
      BY <2>1, <3>2 DEF RotatePromote, Wins, SecretWon, Won, Win
  <2>2. CASE ~RotatePromote(r)
    BY Zenon, <1>3, <2>2 DEF Rotate, Authenticate, RotateBegin, RotatePend,
                      RotateConfirm, RotateDiscard, RotateRevoke, RotateIssue,
                      history
  <2>3. QED
    BY <2>1, <2>2
<1>4. QED
  BY <1>1, <1>2, <1>3 DEF Next, Break, EndSession, ExpireLink, ExpirePending,
                          ExpireLock, Tick, vars, history

\* A link appears by its own request only, and recovery codes by a new secret.
LEMMA LinksChange ==
  ASSUME [Next]_vars
  PROVE  links' \subseteq links \/ \E r \in Requests : ResetInsert(r)
<1>1. ASSUME NEW r \in Requests, Login(r)
      PROVE  links' = links
  BY Zenon, <1>1 DEF Login, LoginWrong, LoginPlain, LoginRecovery, LoginCode, LoginFail,
              LoginActivate, LoginIssue, LoginRecord, LoginRecover, LoginConsume
<1>2. ASSUME NEW r \in Requests, Reset(r)
      PROVE  links' \subseteq links \/ ResetInsert(r)
  BY Zenon, <1>2 DEF Reset, ResetRequest, ResetMark, ResetRead, ResetApply,
              ResetRevoke, ResetConsume, ResetClaim
<1>3. ASSUME NEW r \in Requests, Rotate(r)
      PROVE  links' = links
  BY Zenon, <1>3 DEF Rotate, Authenticate, RotateBegin, RotatePend, RotateConfirm,
              RotateDiscard, RotateRevoke, RotateIssue, RotatePromote
<1>4. QED
  BY <1>1, <1>2, <1>3 DEF Next, Break, EndSession, ExpireLink, ExpirePending,
                          ExpireLock, Tick, vars

LEMMA CodesChange ==
  ASSUME TypeOK, [Next]_vars
  PROVE  \/ codes' \subseteq codes
         \/ \E r \in Requests : SecretWon(r) /\ codes' = {r}
<1>1. ASSUME NEW r \in Requests, Login(r)
      PROVE  codes' \subseteq codes
  BY Zenon, <1>1 DEF Login, LoginWrong, LoginPlain, LoginRecovery, LoginCode, LoginFail,
              LoginActivate, LoginIssue, LoginRecord, LoginRecover, LoginConsume
<1>2. ASSUME NEW r \in Requests, Reset(r)
      PROVE  codes' = codes
  BY Zenon, <1>2 DEF Reset, ResetRequest, ResetMark, ResetRead, ResetApply,
              ResetRevoke, ResetConsume, ResetClaim, ResetInsert
<1>3. ASSUME NEW r \in Requests, Rotate(r)
      PROVE  codes' = codes \/ (SecretWon(r) /\ codes' = {r})
  <2>1. CASE RotatePromote(r)
    <3>1. user \in User
      BY DEF TypeOK
    <3>2. user.pending # None => user'.pending = None
      BY <2>1, <3>1 DEF RotatePromote, User
    <3>3. QED
      BY <2>1, <3>2 DEF RotatePromote, SecretWon, Won, Win
  <2>2. CASE ~RotatePromote(r)
    BY Zenon, <1>3, <2>2 DEF Rotate, Authenticate, RotateBegin, RotatePend,
                      RotateConfirm, RotateDiscard, RotateRevoke, RotateIssue
  <2>3. QED
    BY <2>1, <2>2
<1>4. QED
  BY <1>1, <1>2, <1>3 DEF Next, Break, EndSession, ExpireLink, ExpirePending,
                          ExpireLock, Tick, vars

\* The row of the user: who writes which column.
UserEffect ==
  /\ user'.owner = user.owner
  /\ \/ user'.password = user.password
     \/ \E r \in Requests : At(r, "applying") /\ user'.password = r
  /\ \/ user'.secret = user.secret /\ user'.mfaEnabled = user.mfaEnabled
     \/ \E r \in Requests : At(r, "activating") /\ user'.secret = req[r].secret
     \/ \E r \in Requests : /\ At(r, "promoting") /\ user.pending # None
                            /\ user'.secret = user.pending
  /\ \/ user'.pending = user.pending \/ user'.pending = None
     \/ \E r \in Requests : /\ At(r, "beginning") /\ user'.pending \in Secrets
                            /\ user'.pending \in generated' \ generated

LEMMA LoginUser ==
  ASSUME TypeOK, NEW r \in Requests, Login(r)
  PROVE  UserEffect
<1>1. user \in User
  BY DEF TypeOK
<1>2. CASE LoginFail(r)
  <2>1. /\ user'.owner = user.owner /\ user'.password = user.password
        /\ user'.secret = user.secret /\ user'.mfaEnabled = user.mfaEnabled
        /\ user'.pending = user.pending
    BY <1>1, <1>2 DEF LoginFail, User
  <2>2. QED
    BY <2>1 DEF UserEffect
<1>3. CASE LoginActivate(r)
  <2>1. /\ user'.owner = user.owner /\ user'.password = user.password
        /\ user'.secret = req[r].secret /\ user'.pending = user.pending
    BY <1>1, <1>3 DEF LoginActivate, User
  <2>2. At(r, "activating")
    BY <1>3 DEF LoginActivate
  <2>3. QED
    BY <2>1, <2>2 DEF UserEffect
<1>4. CASE LoginRecord(r)
  <2>1. /\ user'.owner = user.owner /\ user'.password = user.password
        /\ user'.secret = user.secret /\ user'.mfaEnabled = user.mfaEnabled
        /\ user'.pending = user.pending
    BY <1>1, <1>4 DEF LoginRecord, User
  <2>2. QED
    BY <2>1 DEF UserEffect
<1>5. CASE ~LoginFail(r) /\ ~LoginActivate(r) /\ ~LoginRecord(r)
  <2>1. user' = user
    BY Zenon, <1>5 DEF Login, LoginWrong, LoginPlain, LoginRecovery, LoginCode,
                LoginRecover, LoginConsume, LoginIssue
  <2>2. QED
    BY <2>1 DEF UserEffect
<1>6. QED
  BY <1>2, <1>3, <1>4, <1>5

LEMMA ResetUser ==
  ASSUME TypeOK, NEW r \in Requests, Reset(r)
  PROVE  UserEffect
<1>1. user \in User
  BY DEF TypeOK
<1>2. CASE ResetApply(r)
  <2>1. /\ user'.owner = user.owner /\ user'.password = r
        /\ user'.secret = user.secret /\ user'.mfaEnabled = user.mfaEnabled
        /\ user'.pending = user.pending
    BY <1>1, <1>2 DEF ResetApply, User
  <2>2. At(r, "applying")
    BY <1>2 DEF ResetApply
  <2>3. QED
    BY <2>1, <2>2 DEF UserEffect
<1>3. CASE ~ResetApply(r)
  <2>1. user' = user
    BY Zenon, <1>3 DEF Reset, ResetRequest, ResetMark, ResetInsert, ResetRead,
                ResetConsume, ResetClaim, ResetRevoke
  <2>2. QED
    BY <2>1 DEF UserEffect
<1>4. QED
  BY <1>2, <1>3

LEMMA RotateUser ==
  ASSUME TypeOK, NEW r \in Requests, Rotate(r)
  PROVE  UserEffect
<1>1. user \in User
  BY DEF TypeOK
<1>2. ASSUME NEW s \in Secrets, RotatePend(r, s)
      PROVE  UserEffect
  <2>1. /\ user'.owner = user.owner /\ user'.password = user.password
        /\ user'.secret = user.secret /\ user'.mfaEnabled = user.mfaEnabled
        /\ user'.pending = s
    BY <1>1, <1>2 DEF RotatePend, User
  <2>2. At(r, "beginning") /\ s \in generated' \ generated
    BY <1>2 DEF RotatePend
  <2>3. QED
    BY <2>1, <2>2 DEF UserEffect
<1>3. CASE RotateDiscard(r)
  <2>1. /\ user'.owner = user.owner /\ user'.password = user.password
        /\ user'.secret = user.secret /\ user'.mfaEnabled = user.mfaEnabled
        /\ user'.pending = None
    BY <1>1, <1>3 DEF RotateDiscard, User
  <2>2. QED
    BY <2>1 DEF UserEffect
<1>4. CASE RotatePromote(r) /\ user.pending # None
  <2>1. /\ user'.owner = user.owner /\ user'.password = user.password
        /\ user'.secret = user.pending /\ user'.pending = None
    BY <1>1, <1>4 DEF RotatePromote, User
  <2>2. At(r, "promoting")
    BY <1>4 DEF RotatePromote
  <2>3. QED
    BY <1>4, <2>1, <2>2 DEF UserEffect
<1>5. CASE UNCHANGED user
  BY <1>5 DEF UserEffect
<1>6. QED
  BY <1>2, <1>3, <1>4, <1>5 DEF Rotate, Authenticate, RotateBegin, RotateConfirm,
                                RotatePromote, RotateRevoke, RotateIssue

LEMMA NextUser ==
  ASSUME TypeOK, [Next]_vars
  PROVE  UserEffect
<1>1. user \in User
  BY DEF TypeOK
<1>2. CASE ExpirePending \/ ExpireLock
  <2>1. /\ user'.owner = user.owner /\ user'.password = user.password
        /\ user'.secret = user.secret /\ user'.mfaEnabled = user.mfaEnabled
        /\ user'.pending = user.pending
    BY <1>1, <1>2 DEF ExpirePending, ExpireLock, User
  <2>2. QED
    BY <2>1 DEF UserEffect
<1>3. CASE UNCHANGED user
  BY <1>3 DEF UserEffect
<1>4. QED
  BY <1>2, <1>3, LoginUser, ResetUser, RotateUser
     DEF Next, Break, EndSession, ExpireLink, Tick, vars

\* What was generated, and what a code was checked of, is not forgotten.
LEMMA NextGrows ==
  ASSUME [Next]_vars
  PROVE  generated \subseteq generated' /\ proven \subseteq proven'
<1> DEFINE Grows == generated \subseteq generated' /\ proven \subseteq proven'
<1>1. ASSUME NEW r \in Requests, Login(r)
      PROVE  Grows
  BY Zenon, <1>1 DEF Login, LoginWrong, LoginPlain, LoginRecovery, LoginCode, LoginFail,
              LoginActivate, LoginIssue, LoginRecord, LoginRecover, LoginConsume,
              history
<1>2. ASSUME NEW r \in Requests, Reset(r)
      PROVE  Grows
  BY Zenon, <1>2 DEF Reset, ResetRequest, ResetMark, ResetRead, ResetApply, ResetInsert,
              ResetRevoke, ResetConsume, ResetClaim, history
<1>3. ASSUME NEW r \in Requests, Rotate(r)
      PROVE  Grows
  BY Zenon, <1>3 DEF Rotate, Authenticate, RotateBegin, RotatePend, RotateConfirm,
              RotateDiscard, RotateRevoke, RotateIssue, RotatePromote, history
<1>4. QED
  BY <1>1, <1>2, <1>3 DEF Next, Break, EndSession, ExpireLink, ExpirePending,
                          ExpireLock, Tick, vars, history

-----------------------------------------------------------------------------
(* SingleUse, one kind of claim at a time: what is claimed may not be        *)
(* claimable again.                                                          *)

Of(kind) == {w \in won : w.kind = kind}
OneEach(kind) == \A a, b \in Of(kind) : a.of = b.of => a.by = b.by

LEMMA ClaimTypes ==
  ASSUME TypeOK, NEW w \in won
  PROVE  /\ w.kind \in {"totp", "link", "code", "rotation"}
         /\ w.by \in Requests
BY DEF TypeOK, Claim

\* One claim more, of something not claimed before, leaves one each.
LEMMA OneMore ==
  ASSUME NEW r, NEW kind, NEW of, Won(r, kind, of),
         NEW k, OneEach(k),
         kind = k => \A w \in Of(k) : w.of # of
  PROVE  /\ OneEach(k)'
         /\ \A w \in Of(k)' : w \in Of(k) \/ (kind = k /\ w.of = of /\ w.by = r)
BY DEF Won, Of, OneEach

\* A request that has inserted its link is over, and so is the request of any
\* link that was claimed; that link is not live.
LinkInv ==
  /\ OneEach("link")
  /\ \A l \in links : req[l].at = "done"
  /\ \A w \in Of("link") :
       w.of \in Requests /\ w.of \notin links /\ req[w.of].at = "done"

LEMMA LinkStep == TypeOK /\ LinkInv /\ [Next]_vars => LinkInv'
<1> SUFFICES ASSUME TypeOK, LinkInv, [Next]_vars PROVE LinkInv'
  OBVIOUS
<1>1. \A q \in Requests : req[q].at = "done" => req'[q].at = "done"
  BY NextStays DEF Stays
<1>2. links \subseteq Requests
  BY DEF TypeOK
<1>3. /\ \A l \in links' : l \in links \/ req[l].at # "done"
      /\ \A l \in links' : req'[l].at = "done"
  <2>1. CASE links' \subseteq links
    BY <1>1, <1>2, <2>1 DEF LinkInv
  <2>2. ASSUME NEW r \in Requests, ResetInsert(r)
        PROVE  <1>3!:
    BY <1>1, <1>2, <2>2, GoEffect DEF LinkInv, ResetInsert, At, Places
  <2>3. QED
    BY <2>1, <2>2, LinksChange
<1>4. CASE won' = won
  BY <1>1, <1>3, <1>4 DEF LinkInv, Of, OneEach
<1>5. ASSUME NEW r \in Requests, CodeWon(r) \/ StepWon(r) \/ SecretWon(r)
      PROVE  LinkInv'
  <2>1. OneEach("link")' /\ \A w \in Of("link")' : w \in Of("link")
    BY <1>5, OneMore DEF LinkInv, CodeWon, StepWon, SecretWon
  <2>2. QED
    BY <1>1, <1>3, <2>1 DEF LinkInv
<1>6. ASSUME NEW r \in Requests, LinkWon(r)
      PROVE  LinkInv'
  <2>1. req[r].link \in links /\ links' = links \ {req[r].link}
    BY <1>6 DEF LinkWon
  <2>2. /\ OneEach("link")'
        /\ \A w \in Of("link")' : w \in Of("link") \/ w.of = req[r].link
    BY <1>6, <2>1, OneMore DEF LinkInv, LinkWon
  <2>3. QED
    BY <1>1, <1>2, <1>3, <2>1, <2>2 DEF LinkInv
<1>7. QED
  BY <1>4, <1>5, <1>6, WonChange DEF Wins

\* Recovery codes come with a change of the authenticator and are gone with
\* their claim; the request of any of them has gone on.
CodeInv ==
  /\ OneEach("code")
  /\ \A g \in codes : req[g].at \in Changed
  /\ \A w \in Of("code") :
       w.of \in Requests /\ w.of \notin codes /\ req[w.of].at \in Changed

LEMMA CodeStep == TypeOK /\ CodeInv /\ [Next]_vars => CodeInv'
<1> SUFFICES ASSUME TypeOK, CodeInv, [Next]_vars PROVE CodeInv'
  OBVIOUS
<1>1. \A q \in Requests : req[q].at \in Changed => req'[q].at \in Changed
  BY NextStays DEF Stays
<1>2. codes \subseteq Requests
  BY DEF TypeOK
<1>3. /\ \A g \in codes' : g \in codes \/ req[g].at \notin Changed
      /\ \A g \in codes' : req'[g].at \in Changed
  <2>1. CASE codes' \subseteq codes
    BY <1>1, <1>2, <2>1 DEF CodeInv
  <2>2. ASSUME NEW r \in Requests, SecretWon(r), codes' = {r}
        PROVE  <1>3!:
    <3>1. req[r].at = "promoting" /\ req'[r].at = "ending"
      BY <2>2, HoldEffect DEF SecretWon, RotatePromote, At, Places
    <3>2. QED
      BY <2>2, <3>1 DEF Changed
  <2>3. QED
    BY <2>1, <2>2, CodesChange
<1>4. CASE won' = won
  BY <1>1, <1>3, <1>4 DEF CodeInv, Of, OneEach
<1>5. ASSUME NEW r \in Requests, LinkWon(r) \/ StepWon(r) \/ SecretWon(r)
      PROVE  CodeInv'
  <2>1. OneEach("code")' /\ \A w \in Of("code")' : w \in Of("code")
    BY <1>5, OneMore DEF CodeInv, LinkWon, StepWon, SecretWon
  <2>2. QED
    BY <1>1, <1>3, <2>1 DEF CodeInv
<1>6. ASSUME NEW r \in Requests, CodeWon(r)
      PROVE  CodeInv'
  <2>1. req[r].link \in codes /\ codes' = codes \ {req[r].link}
    BY <1>6 DEF CodeWon
  <2>2. /\ OneEach("code")'
        /\ \A w \in Of("code")' : w \in Of("code") \/ w.of = req[r].link
    BY <1>6, <2>1, OneMore DEF CodeInv, CodeWon
  <2>3. QED
    BY <1>1, <1>2, <1>3, <2>1, <2>2 DEF CodeInv
<1>7. QED
  BY <1>4, <1>5, <1>6, WonChange DEF Wins

\* A secret is generated once; one that was promoted is no longer pending.
SecretInv ==
  /\ OneEach("rotation")
  /\ user.pending # None => user.pending \in generated
  /\ \A w \in Of("rotation") : w.of \in generated /\ w.of # user.pending

LEMMA SecretStep == TypeOK /\ SecretInv /\ [Next]_vars => SecretInv'
<1> SUFFICES ASSUME TypeOK, SecretInv, [Next]_vars PROVE SecretInv'
  OBVIOUS
<1>1. generated \subseteq generated' /\ None \notin generated
  BY NextGrows, NoneAssumption DEF TypeOK
<1>2. \/ user'.pending \in {user.pending, None}
      \/ user'.pending \in generated' \ generated
  BY NextUser DEF UserEffect
<1>3. user'.pending # None => user'.pending \in generated'
  BY <1>1, <1>2 DEF SecretInv
<1>4. ASSUME OneEach("rotation")', \A w \in Of("rotation")' : w \in Of("rotation")
      PROVE  SecretInv'
  BY <1>1, <1>2, <1>3, <1>4 DEF SecretInv
<1>5. CASE won' = won
  BY <1>4, <1>5 DEF SecretInv, Of, OneEach
<1>6. ASSUME NEW r \in Requests, CodeWon(r) \/ StepWon(r) \/ LinkWon(r)
      PROVE  SecretInv'
  <2>1. OneEach("rotation")' /\ \A w \in Of("rotation")' : w \in Of("rotation")
    BY <1>6, OneMore DEF SecretInv, CodeWon, StepWon, LinkWon
  <2>2. QED
    BY <1>4, <2>1
<1>7. ASSUME NEW r \in Requests, SecretWon(r)
      PROVE  SecretInv'
  <2>1. user.pending # None /\ user'.pending = None
    BY <1>7 DEF SecretWon
  <2>2. /\ OneEach("rotation")'
        /\ \A w \in Of("rotation")' : w \in Of("rotation") \/ w.of = user.pending
    BY <1>7, OneMore DEF SecretInv, SecretWon
  <2>3. QED
    BY <1>1, <1>3, <2>1, <2>2 DEF SecretInv
<1>8. QED
  BY <1>5, <1>6, <1>7, WonChange DEF Wins

\* A request that is about to claim a step has checked it a moment ago.
Claims == {"claiming", "resetClaiming"}
Prompt(q) ==
  /\ req[q].since <= clock /\ clock <= req[q].since + MaxDelay
  /\ req[q].counter <= req[q].since + Window
  /\ req[q].since <= req[q].counter + Window

\* Nobody but LoginCode and ResetRead begins a claim.
Begins(q) ==
  /\ req'[q].since = clock
  /\ clock <= req'[q].counter + Window /\ req'[q].counter <= clock + Window
ClaimsMove(q) ==
  req'[q].at \in Claims => req'[q] = req[q] \/ (Begins(q) /\ clock' = clock)

LEMMA LoginClaims ==
  ASSUME TypeOK, NEW r \in Requests, Login(r), NEW q \in Requests
  PROVE  ClaimsMove(q)
<1> USE DEF ClaimsMove, Claims, Places
<1>1. CASE \/ LoginWrong(r) \/ LoginPlain(r) \/ LoginFail(r) \/ LoginRecover(r)
           \/ LoginActivate(r) \/ LoginIssue(r) \/ LoginRecord(r)
  BY <1>1, GoEffect DEF LoginWrong, LoginPlain, LoginFail, LoginRecover,
                        LoginActivate, LoginIssue, LoginRecord
<1>2. CASE LoginConsume(r)
  BY <1>2, GoEffect, KeepEffect DEF LoginConsume
<1>3. ASSUME NEW g \in Requests, LoginRecovery(r, g)
      PROVE  ClaimsMove(q)
  BY <1>3, RecoveryEffect
<1>4. ASSUME NEW code \in Code, LoginCode(r, code)
      PROVE  ClaimsMove(q)
  <2>1. clock' = clock
    BY <1>4 DEF LoginCode
  <2>2. CASE q = r
    <3>1. CASE req'[r].at = "failing"
      BY <2>2, <3>1
    <3>2. CASE req'[r].at = "claiming"
      BY <1>4, <2>1, <2>2, <3>2, CodeEffect DEF Begins, Verifies
    <3>3. QED
      BY <1>4, <3>1, <3>2, CodeEffect
  <2>3. CASE q # r
    BY <1>4, <2>3, CodeEffect
  <2>4. QED
    BY <2>2, <2>3
<1>5. QED
  BY <1>1, <1>2, <1>3, <1>4 DEF Login

LEMMA ResetClaims ==
  ASSUME TypeOK, NEW r \in Requests, Reset(r), NEW q \in Requests
  PROVE  ClaimsMove(q)
<1> USE DEF ClaimsMove, Claims, Places
<1>1. CASE \/ ResetRequest(r) \/ ResetMark(r) \/ ResetInsert(r) \/ ResetClaim(r)
  BY <1>1, GoEffect DEF ResetRequest, ResetMark, ResetInsert, ResetClaim
<1>2. CASE ResetConsume(r) \/ ResetRevoke(r)
  BY <1>2, GoEffect, KeepEffect DEF ResetConsume, ResetRevoke
<1>3. CASE ResetApply(r)
  BY Zenon, <1>3, HoldEffect DEF ResetApply
<1>4. ASSUME NEW l \in Requests, NEW code \in Code, ResetRead(r, l, code)
      PROVE  ClaimsMove(q)
  <2>1. clock' = clock
    BY <1>4 DEF ResetRead
  <2>2. CASE q = r
    <3>1. CASE req'[r].at = "linking"
      BY <2>2, <3>1
    <3>2. CASE req'[r].at = "resetClaiming"
      BY <1>4, <2>1, <2>2, <3>2, ReadEffect DEF Begins, Verifies
    <3>3. QED
      BY <1>4, <3>1, <3>2, ReadEffect
  <2>3. CASE q # r
    BY <1>4, <2>3, ReadEffect
  <2>4. QED
    BY <2>2, <2>3
<1>5. QED
  BY <1>1, <1>2, <1>3, <1>4 DEF Reset

LEMMA RotateClaims ==
  ASSUME TypeOK, NEW r \in Requests, Rotate(r), NEW q \in Requests
  PROVE  ClaimsMove(q)
<1> USE DEF ClaimsMove, Claims, Places
<1>1. CASE Authenticate(r) \/ RotateBegin(r) \/ RotateDiscard(r)
  BY <1>1, GoEffect DEF Authenticate, RotateBegin, RotateDiscard
<1>2. ASSUME NEW s \in Secrets, RotatePend(r, s)
      PROVE  ClaimsMove(q)
  BY <1>2, GoEffect DEF RotatePend
<1>3. ASSUME NEW code \in Code, RotateConfirm(r, code)
      PROVE  ClaimsMove(q)
  BY <1>3, GoEffect DEF RotateConfirm
<1>4. CASE RotatePromote(r)
  BY <1>4, GoEffect, HoldEffect DEF RotatePromote
<1>5. CASE RotateRevoke(r) \/ RotateIssue(r)
  BY <1>5, KeepEffect DEF RotateRevoke, RotateIssue
<1>6. QED
  BY <1>1, <1>2, <1>3, <1>4, <1>5 DEF Rotate

LEMMA NextClaims ==
  ASSUME TypeOK, [Next]_vars, NEW q \in Requests
  PROVE  ClaimsMove(q)
<1>1. ASSUME NEW r \in Requests, Break(r)
      PROVE  ClaimsMove(q)
  BY <1>1, GoEffect DEF Break, Places, Claims, ClaimsMove
<1>2. CASE UNCHANGED req
  BY <1>2 DEF ClaimsMove
<1>3. QED
  BY <1>1, <1>2, LoginClaims, ResetClaims, RotateClaims
     DEF Next, EndSession, ExpireLink, ExpirePending, ExpireLock, Tick, vars

\* totp_used changes by a claim, and the clock by its tick.
LEMMA UsedChange ==
  ASSUME [Next]_vars
  PROVE  \/ UNCHANGED <<used, clock>>
         \/ \E r \in Requests : /\ req[r].at \in Claims /\ clock' = clock
                                /\ Consume(req[r].counter)
         \/ Tick
<1>1. ASSUME NEW r \in Requests, Login(r)
      PROVE  \/ UNCHANGED <<used, clock>>
             \/ /\ req[r].at \in Claims /\ clock' = clock
                /\ Consume(req[r].counter)
  <2>1. CASE LoginConsume(r)
    BY <2>1 DEF LoginConsume, At, Claims
  <2>2. CASE ~LoginConsume(r)
    BY Zenon, <1>1, <2>2 DEF Login, LoginWrong, LoginPlain, LoginRecovery, LoginCode,
                  LoginFail, LoginActivate, LoginIssue, LoginRecord, LoginRecover
  <2>3. QED
    BY <2>1, <2>2
<1>2. ASSUME NEW r \in Requests, Reset(r)
      PROVE  \/ UNCHANGED <<used, clock>>
             \/ /\ req[r].at \in Claims /\ clock' = clock
                /\ Consume(req[r].counter)
  <2>1. CASE ResetConsume(r)
    BY <2>1 DEF ResetConsume, At, Claims
  <2>2. CASE ~ResetConsume(r)
    BY Zenon, <1>2, <2>2 DEF Reset, ResetRequest, ResetMark, ResetInsert, ResetRead,
                      ResetApply, ResetRevoke, ResetClaim
  <2>3. QED
    BY <2>1, <2>2
<1>3. ASSUME NEW r \in Requests, Rotate(r)
      PROVE  UNCHANGED <<used, clock>>
  BY Zenon, <1>3 DEF Rotate, Authenticate, RotateBegin, RotatePend, RotateConfirm,
              RotateDiscard, RotateRevoke, RotateIssue, RotatePromote
<1>4. QED
  BY <1>1, <1>2, <1>3 DEF Next, Break, EndSession, ExpireLink, ExpirePending,
                          ExpireLock, vars

\* A step that was claimed is remembered, or so old that no request that
\* checked a code in time can still ask for it.
StepInv ==
  /\ OneEach("totp")
  /\ \A q \in Requests : req[q].at \in Claims => Prompt(q)
  /\ \A u \in used : u.counter <= u.at + Window
  /\ \A w \in Of("totp") :
       w.of \in Nat /\ (Taken(w.of) \/ w.of + Window + MaxDelay < clock)

LEMMA Numbers ==
  ASSUME TypeOK
  PROVE  /\ clock \in Nat
         /\ \A q \in Requests : req[q].counter \in Nat /\ req[q].since \in Nat
         /\ \A u \in used : u.counter \in Nat /\ u.at \in Nat
BY TimeAssumption DEF TypeOK, Request, Steps

\* Claiming remembers the step, and forgets none that may still be asked for.
LEMMA ConsumeEffect ==
  ASSUME TypeOK, StepInv, NEW r \in Requests, req[r].at \in Claims,
         NEW c \in Nat, c = req[r].counter, Consume(c), clock' = clock
  PROVE  /\ \A u \in used' : u.counter <= u.at + Window
         /\ Taken(c)'
         /\ \A n \in Nat : Taken(n) => Taken(n)' \/ n + Window + MaxDelay < clock
<1> DEFINE row == [counter |-> c, at |-> clock]
<1>1. clock \in Nat /\ row.counter = c /\ row.at = clock
  BY Numbers
<1>2. c <= clock + Window /\ clock <= c + Window + MaxDelay
  BY <1>1, Numbers, TimeAssumption DEF StepInv, Prompt
<1>3. used' \subseteq used \cup {row}
  BY DEF Consume, Remembered
<1>4. \A u \in used' : u.counter <= u.at + Window
  BY <1>1, <1>2, <1>3 DEF StepInv
<1>5. \A u \in used : u.at + PruneAfter >= clock => u \in used'
  BY DEF Consume, Remembered
<1>6. ASSUME NEW n \in Nat, Taken(n)
      PROVE  Taken(n)' \/ n + Window + MaxDelay < clock
  <2>1. PICK u \in used : u.counter = n
    BY <1>6 DEF Taken
  <2>2. u.at \in Nat /\ n <= u.at + Window
    BY <2>1, Numbers DEF StepInv
  <2>3. CASE u.at + PruneAfter >= clock
    BY <1>5, <2>1, <2>3 DEF Taken
  <2>4. CASE ~(u.at + PruneAfter >= clock)
    BY <1>1, <2>2, <2>4, TimeAssumption
  <2>5. QED
    BY <2>3, <2>4
<1>7. Taken(c)'
  <2>1. CASE Taken(c)
    BY <1>1, <1>2, <1>6, <2>1, TimeAssumption
  <2>2. CASE ~Taken(c)
    <3>1. row \in used'
      <4>1. clock + PruneAfter >= clock
        BY <1>1, TimeAssumption
      <4>2. QED
        BY <1>1, <2>2, <4>1 DEF Consume, Remembered
    <3>2. QED
      BY <1>1, <3>1 DEF Taken
  <2>3. QED
    BY <2>1, <2>2
<1>8. QED
  BY <1>4, <1>6, <1>7

LEMMA StepStep == TypeOK /\ StepInv /\ [Next]_vars => StepInv'
<1> SUFFICES ASSUME TypeOK, StepInv, [Next]_vars PROVE StepInv'
  OBVIOUS
<1>1. clock \in Nat /\ clock' \in Nat /\ clock <= clock'
  <2>1. clock' = clock \/ clock' = clock + 1
    BY UsedChange DEF Tick
  <2>2. QED
    BY <2>1, Numbers
<1>2. ASSUME NEW q \in Requests, req'[q].at \in Claims
      PROVE  Prompt(q)'
  <2>1. CASE Begins(q) /\ clock' = clock
    BY <1>1, <2>1, TimeAssumption DEF Begins, Prompt
  <2>2. CASE req'[q] = req[q]
    <3>1. Prompt(q) /\ req[q].at \in Claims
      BY <1>2, <2>2 DEF StepInv
    <3>2. CASE clock' = clock
      BY <2>2, <3>1, <3>2 DEF Prompt
    <3>3. CASE Tick
      <4>1. clock' = clock + 1 /\ clock < req[q].since + MaxDelay
        BY <3>1, <3>3 DEF Tick, Claims
      <4>2. QED
        BY <2>2, <3>1, <4>1, Numbers, TimeAssumption DEF Prompt
    <3>4. QED
      BY <3>2, <3>3, UsedChange
  <2>3. QED
    BY <1>2, <2>1, <2>2, NextClaims DEF ClaimsMove
<1>3. /\ \A u \in used' : u.counter <= u.at + Window
      /\ \A n \in Nat : Taken(n) => Taken(n)' \/ n + Window + MaxDelay < clock'
  <2>1. CASE used' = used
    BY <2>1 DEF StepInv, Taken
  <2>2. CASE \E r \in Requests : /\ req[r].at \in Claims /\ clock' = clock
                                /\ Consume(req[r].counter)
    BY <2>2, Numbers, ConsumeEffect
  <2>3. QED
    BY <2>1, <2>2, UsedChange DEF Tick
<1>4. ASSUME NEW w \in Of("totp")
      PROVE  w.of \in Nat /\ (Taken(w.of)' \/ w.of + Window + MaxDelay < clock')
  <2>1. w.of \in Nat /\ (Taken(w.of) \/ w.of + Window + MaxDelay < clock)
    BY DEF StepInv
  <2>2. CASE Taken(w.of)
    BY <1>3, <2>1, <2>2
  <2>3. CASE w.of + Window + MaxDelay < clock
    BY <1>1, <2>1, <2>3, TimeAssumption
  <2>4. QED
    BY <2>1, <2>2, <2>3
<1>5. ASSUME OneEach("totp")', \A w \in Of("totp")' : w \in Of("totp")
      PROVE  StepInv'
  BY <1>2, <1>3, <1>4, <1>5 DEF StepInv, Taken
<1>6. CASE won' = won
  BY <1>5, <1>6 DEF StepInv, Of, OneEach
<1>7. ASSUME NEW r \in Requests, CodeWon(r) \/ LinkWon(r) \/ SecretWon(r)
      PROVE  StepInv'
  <2>1. OneEach("totp")' /\ \A w \in Of("totp")' : w \in Of("totp")
    BY <1>7, OneMore DEF StepInv, CodeWon, LinkWon, SecretWon
  <2>2. QED
    BY <1>5, <2>1
<1>8. ASSUME NEW r \in Requests, StepWon(r)
      PROVE  StepInv'
  <2>1. PICK c \in Nat : c = req[r].counter
    BY Numbers
  <2>2. /\ req[r].at \in Claims /\ ~Taken(c) /\ Consume(c)
        /\ Won(r, "totp", c) /\ clock' = clock
    BY <1>8, <2>1 DEF StepWon, At, Claims
  <2>3. \A w \in Of("totp") : w.of # c
    <3>1. SUFFICES ASSUME NEW w \in Of("totp"), w.of = c PROVE FALSE
      OBVIOUS
    <3>2. c + Window + MaxDelay < clock
      BY <2>2, <3>1 DEF StepInv
    <3>3. Prompt(r)
      BY <2>2 DEF StepInv
    <3>4. QED
      BY <2>1, <3>2, <3>3, Numbers, TimeAssumption DEF Prompt
  <2>4. Taken(c)'
    BY <2>1, <2>2, ConsumeEffect
  <2>5. /\ OneEach("totp")'
        /\ \A w \in Of("totp")' : w \in Of("totp") \/ w.of = c
    BY <2>2, <2>3, OneMore DEF StepInv
  <2>6. \A w \in Of("totp")' :
          w.of \in Nat /\ (Taken(w.of)' \/ w.of + Window + MaxDelay < clock')
    BY <1>4, <2>4, <2>5
  <2>7. QED
    BY <1>2, <1>3, <2>5, <2>6 DEF StepInv, Taken
<1>9. QED
  BY <1>6, <1>7, <1>8, WonChange DEF Wins

\* In every interleaving a time step, a reset link, a recovery code and a
\* pending secret are each used by one request at most, with every clock,
\* window and delay that TimeAssumption admits.
THEOREM UsedOnce == Spec => []SingleUse
<1> DEFINE IInv == TypeOK /\ LinkInv /\ CodeInv /\ SecretInv /\ StepInv
<1>1. Init => IInv
  <2> SUFFICES ASSUME Init PROVE IInv
    OBVIOUS
  <2>1. TypeOK
    BY InitType
  <2>2. \A r \in Requests : req[r].at = "idle"
    BY Zenon, QuietType DEF Init, Places
  <2>3. \A k : Of(k) = {} /\ OneEach(k)
    BY DEF Init, Of, OneEach
  <2>4. user.pending = None
    BY DEF Init
  <2>5. LinkInv /\ CodeInv
    BY <2>3 DEF Init, LinkInv, CodeInv
  <2>6. SecretInv
    BY <2>3, <2>4 DEF SecretInv
  <2>7. StepInv
    BY <2>2, <2>3 DEF Init, StepInv, Claims
  <2>8. QED
    BY <2>1, <2>5, <2>6, <2>7
<1>2. IInv /\ [Next]_vars => IInv'
  BY NextType, LinkStep, CodeStep, SecretStep, StepStep
<1>3. IInv => SingleUse
  <2> SUFFICES ASSUME IInv, NEW a \in won, NEW b \in won,
                      a.kind = b.kind, a.of = b.of
               PROVE  a.by = b.by
    BY DEF SingleUse
  <2>1. a.kind \in {"totp", "link", "code", "rotation"}
    BY ClaimTypes
  <2>2. OneEach("totp") /\ OneEach("link") /\ OneEach("code") /\ OneEach("rotation")
    BY DEF LinkInv, CodeInv, SecretInv, StepInv
  <2>3. QED
    BY <2>1, <2>2 DEF OneEach, Of
<1>4. QED
  BY <1>1, <1>2, <1>3, PTL DEF Spec

-----------------------------------------------------------------------------
(* SecondFactor *)

\* From here on a request acts on what it has established.
Beyond == {"activating", "issuing", "linking", "applying", "ending", "reissuing"}

VouchInv ==
  /\ SecondFactor
  /\ user.owner => \A r \in Requests : req[r].at \in Beyond => Vouched(r)

\* Nobody who is asked for the second factor gets there without it.
Earns(q) ==
  req'[q].at \in Beyond /\ req[q].at \notin Beyond => Vouched(q)' \/ ~user.owner

LEMMA WinVouches ==
  ASSUME NEW r, NEW kind \in {"totp", "code", "rotation"}, NEW of,
         Win(r, kind, of)
  PROVE  Vouched(r)'
<1> DEFINE w == [kind |-> kind, of |-> of, by |-> r]
<1>1. w \in won' /\ w.by = r /\ w.kind = kind
  BY DEF Win
<1> HIDE DEF w
<1>2. QED
  BY <1>1 DEF Vouched

LEMMA LoginEarns ==
  ASSUME TypeOK, NEW r \in Requests, Login(r), NEW q \in Requests
  PROVE  Earns(q)
<1> USE DEF Earns, Beyond, Places, At
<1>1. CASE LoginWrong(r) \/ LoginFail(r) \/ LoginRecord(r) \/ LoginIssue(r)
  BY <1>1, GoEffect DEF LoginWrong, LoginFail, LoginRecord, LoginIssue
<1>2. CASE LoginPlain(r)
  BY <1>2, GoEffect DEF LoginPlain, LoginNeedsCode
<1>3. CASE LoginActivate(r)
  BY <1>3, GoEffect DEF LoginActivate
<1>4. CASE LoginRecover(r)
  BY <1>4, GoEffect, WinVouches DEF LoginRecover
<1>5. CASE LoginConsume(r)
  BY <1>5, GoEffect, KeepEffect, WinVouches DEF LoginConsume
<1>6. ASSUME NEW g \in Requests, LoginRecovery(r, g)
      PROVE  Earns(q)
  BY <1>6, RecoveryEffect
<1>7. ASSUME NEW code \in Code, LoginCode(r, code)
      PROVE  Earns(q)
  BY <1>7, CodeEffect
<1>8. QED
  BY <1>1, <1>2, <1>3, <1>4, <1>5, <1>6, <1>7 DEF Login

LEMMA ResetEarns ==
  ASSUME TypeOK, NEW r \in Requests, Reset(r), NEW q \in Requests
  PROVE  Earns(q)
<1> USE DEF Earns, Beyond, Places, At
<1>1. CASE ResetRequest(r) \/ ResetMark(r) \/ ResetInsert(r) \/ ResetClaim(r)
  BY <1>1, GoEffect DEF ResetRequest, ResetMark, ResetInsert, ResetClaim
<1>2. ASSUME NEW l \in Requests, NEW code \in Code, ResetRead(r, l, code)
      PROVE  Earns(q)
  BY <1>2, ReadEffect DEF ResetNeedsCode
<1>3. CASE ResetConsume(r)
  BY <1>3, GoEffect, KeepEffect, WinVouches DEF ResetConsume
<1>4. CASE ResetApply(r)
  BY Zenon, <1>4, HoldEffect DEF ResetApply
<1>5. CASE ResetRevoke(r)
  BY <1>5, KeepEffect DEF ResetRevoke
<1>6. QED
  BY <1>1, <1>2, <1>3, <1>4, <1>5 DEF Reset

LEMMA RotateEarns ==
  ASSUME TypeOK, NEW r \in Requests, Rotate(r), NEW q \in Requests
  PROVE  Earns(q)
<1> USE DEF Earns, Beyond, Places, At
<1>1. CASE Authenticate(r) \/ RotateBegin(r) \/ RotateDiscard(r)
  BY <1>1, GoEffect DEF Authenticate, RotateBegin, RotateDiscard
<1>2. ASSUME NEW s \in Secrets, RotatePend(r, s)
      PROVE  Earns(q)
  BY <1>2, GoEffect DEF RotatePend
<1>3. ASSUME NEW code \in Code, RotateConfirm(r, code)
      PROVE  Earns(q)
  BY <1>3, GoEffect DEF RotateConfirm
<1>4. CASE RotatePromote(r)
  <2>1. CASE user.pending # None
    <3>1. Vouched(r)'
      BY <1>4, <2>1, WinVouches DEF RotatePromote
    <3>2. QED
      BY <1>4, <2>1, <3>1, HoldEffect DEF RotatePromote
  <2>2. CASE user.pending = None
    BY <1>4, <2>2, GoEffect DEF RotatePromote
  <2>3. QED
    BY <2>1, <2>2
<1>5. CASE RotateRevoke(r) \/ RotateIssue(r)
  BY <1>5, KeepEffect DEF RotateRevoke, RotateIssue
<1>6. QED
  BY <1>1, <1>2, <1>3, <1>4, <1>5 DEF Rotate

LEMMA NextEarns ==
  ASSUME TypeOK, [Next]_vars, NEW q \in Requests
  PROVE  Earns(q)
<1>1. ASSUME NEW r \in Requests, Break(r)
      PROVE  Earns(q)
  BY <1>1, GoEffect DEF Break, Places, Beyond, Earns
<1>2. CASE UNCHANGED req
  BY <1>2 DEF Earns
<1>3. QED
  BY <1>1, <1>2, LoginEarns, ResetEarns, RotateEarns
     DEF Next, EndSession, ExpireLink, ExpirePending, ExpireLock, Tick, vars

\* A session is issued by the last but one step of a sign-in or a rotation.
LEMMA LiveChange ==
  ASSUME TypeOK, [Next]_vars
  PROVE  \/ live' \subseteq live
         \/ \E r \in Requests : /\ live' = live \cup {r}
                                /\ req[r].at \in {"issuing", "reissuing"}
                                /\ req'[r].at \in Answered
<1>1. ASSUME NEW r \in Requests, LoginIssue(r) \/ RotateIssue(r)
      PROVE  /\ live' = live \cup {r} /\ req[r].at \in {"issuing", "reissuing"}
             /\ req'[r].at \in Answered
  BY <1>1, GoEffect, KeepEffect DEF LoginIssue, RotateIssue, At, Places, Answered
<1>2. ASSUME NEW r \in Requests, Login(r), ~LoginIssue(r)
      PROVE  live' = live
  BY Zenon, <1>2 DEF Login, LoginWrong, LoginPlain, LoginRecovery, LoginCode, LoginFail,
              LoginActivate, LoginRecord, LoginRecover, LoginConsume
<1>3. ASSUME NEW r \in Requests, Reset(r)
      PROVE  live' \subseteq live
  BY Zenon, <1>3 DEF Reset, ResetRequest, ResetMark, ResetRead, ResetApply, ResetInsert,
              ResetRevoke, ResetConsume, ResetClaim
<1>4. ASSUME NEW r \in Requests, Rotate(r), ~RotateIssue(r)
      PROVE  live' \subseteq live
  BY Zenon, <1>4 DEF Rotate, Authenticate, RotateBegin, RotatePend, RotateConfirm,
              RotateDiscard, RotateRevoke, RotatePromote
<1>5. CASE \E r \in Requests : Login(r) \/ Reset(r) \/ Rotate(r)
  BY <1>1, <1>2, <1>3, <1>4, <1>5
<1>6. CASE ~\E r \in Requests : Login(r) \/ Reset(r) \/ Rotate(r)
  BY <1>6 DEF Next, Break, EndSession, ExpireLink, ExpirePending, ExpireLock,
              Tick, vars
<1>7. QED
  BY <1>5, <1>6

LEMMA VouchStep == TypeOK /\ VouchInv /\ [Next]_vars => VouchInv'
<1> SUFFICES ASSUME TypeOK, VouchInv, [Next]_vars, user'.owner
             PROVE  /\ \A r \in live' \cup ({user'.password} \ {None}) : Vouched(r)'
                    /\ \A r \in Requests : req'[r].at \in Beyond => Vouched(r)'
  BY DEF VouchInv, SecondFactor
<1>1. user.owner
  BY NextUser DEF UserEffect
<1>2. \A r : Vouched(r) => Vouched(r)'
  <2>1. won \subseteq won'
    BY WonChange DEF Wins, CodeWon, LinkWon, StepWon, SecretWon, Won
  <2>2. QED
    BY <2>1 DEF Vouched
<1>3. \A r \in Requests : req[r].at \in Beyond => Vouched(r)'
  BY <1>1, <1>2 DEF VouchInv
<1>4. \A r \in Requests : req'[r].at \in Beyond => Vouched(r)'
  BY <1>1, <1>3, NextEarns DEF Earns
<1>5. \A r \in live' : Vouched(r)'
  <2>1. \A r \in live : Vouched(r)'
    BY <1>1, <1>2 DEF VouchInv, SecondFactor
  <2>2. QED
    BY <1>3, <2>1, LiveChange DEF Beyond
<1>6. ASSUME NEW p, p = user'.password, p # None
      PROVE  Vouched(p)'
  <2>1. CASE p = user.password
    BY <1>1, <1>2, <1>6, <2>1 DEF VouchInv, SecondFactor
  <2>2. ASSUME NEW r \in Requests, At(r, "applying"), p = r
        PROVE  Vouched(p)'
    BY <1>3, <2>2 DEF At, Beyond
  <2>3. QED
    BY <1>6, <2>1, <2>2, NextUser DEF UserEffect
<1>7. QED
  BY <1>4, <1>5, <1>6

\* No session of an owner is issued, and no reset changes the password of one,
\* unless the request has claimed a code, a recovery code or a new secret.
THEOREM OwnerVouched == Spec => []SecondFactor
<1>1. Init => TypeOK /\ VouchInv
  <2> SUFFICES ASSUME Init PROVE VouchInv
    BY InitType
  <2>1. \A r \in Requests : req[r].at = "idle"
    BY Zenon, QuietType DEF Init, Places
  <2>2. user.password = None /\ live = {}
    BY DEF Init
  <2>3. QED
    BY <2>1, <2>2 DEF VouchInv, SecondFactor, Beyond
<1>2. TypeOK /\ VouchInv /\ [Next]_vars => (TypeOK /\ VouchInv)'
  BY NextType, VouchStep
<1>3. VouchInv => SecondFactor
  BY DEF VouchInv
<1>4. QED
  BY <1>1, <1>2, <1>3, PTL DEF Spec

-----------------------------------------------------------------------------
(* RevokeReachesAll *)

\* Here a request has ended the sessions it held against the account.
Told == {"reset", "reissuing", "rotated"}

\* A session is known to the account, or was, only when it has been issued.
HeldInv ==
  /\ RevokeReachesAll
  /\ \A r \in Requests : \A q \in req[r].held \cup live : req[q].at \in Answered

HeldMove(q) ==
  /\ req'[q].held \subseteq req[q].held \cup live
  /\ req'[q].at \in Told =>
       live' = {} \/ (req[q].at \in Told /\ req'[q].held = req[q].held)

LEMMA LoginHeld ==
  ASSUME TypeOK, NEW r \in Requests, Login(r), NEW q \in Requests
  PROVE  HeldMove(q)
<1> USE DEF HeldMove, Told, Places, At
<1>1. CASE \/ LoginWrong(r) \/ LoginPlain(r) \/ LoginFail(r) \/ LoginRecover(r)
           \/ LoginActivate(r) \/ LoginIssue(r) \/ LoginRecord(r)
  BY <1>1, GoEffect DEF LoginWrong, LoginPlain, LoginFail, LoginRecover,
                        LoginActivate, LoginIssue, LoginRecord
<1>2. CASE LoginConsume(r)
  BY <1>2, GoEffect, KeepEffect DEF LoginConsume
<1>3. ASSUME NEW g \in Requests, LoginRecovery(r, g)
      PROVE  HeldMove(q)
  BY <1>3, RecoveryEffect
<1>4. ASSUME NEW code \in Code, LoginCode(r, code)
      PROVE  HeldMove(q)
  BY <1>4, CodeEffect
<1>5. QED
  BY <1>1, <1>2, <1>3, <1>4 DEF Login

LEMMA ResetHeld ==
  ASSUME TypeOK, NEW r \in Requests, Reset(r), NEW q \in Requests
  PROVE  HeldMove(q)
<1> USE DEF HeldMove, Told, Places, At
<1>1. CASE ResetRequest(r) \/ ResetMark(r) \/ ResetInsert(r) \/ ResetClaim(r)
  BY <1>1, GoEffect DEF ResetRequest, ResetMark, ResetInsert, ResetClaim
<1>2. ASSUME NEW l \in Requests, NEW code \in Code, ResetRead(r, l, code)
      PROVE  HeldMove(q)
  BY <1>2, ReadEffect
<1>3. CASE ResetConsume(r)
  BY <1>3, GoEffect, KeepEffect DEF ResetConsume
<1>4. CASE ResetApply(r)
  BY Zenon, <1>4, HoldEffect DEF ResetApply
<1>5. CASE ResetRevoke(r)
  BY <1>5, KeepEffect DEF ResetRevoke
<1>6. QED
  BY <1>1, <1>2, <1>3, <1>4, <1>5 DEF Reset

LEMMA RotateHeld ==
  ASSUME TypeOK, NEW r \in Requests, Rotate(r), NEW q \in Requests
  PROVE  HeldMove(q)
<1> USE DEF HeldMove, Told, Places, At
<1>1. CASE Authenticate(r) \/ RotateBegin(r) \/ RotateDiscard(r)
  BY <1>1, GoEffect DEF Authenticate, RotateBegin, RotateDiscard
<1>2. ASSUME NEW s \in Secrets, RotatePend(r, s)
      PROVE  HeldMove(q)
  BY <1>2, GoEffect DEF RotatePend
<1>3. ASSUME NEW code \in Code, RotateConfirm(r, code)
      PROVE  HeldMove(q)
  BY <1>3, GoEffect DEF RotateConfirm
<1>4. CASE RotatePromote(r)
  <2>1. CASE user.pending # None
    <3>1. req' = [req EXCEPT ![r].at = "ending", ![r].held = live]
      BY <1>4, <2>1 DEF RotatePromote
    <3>2. QED
      BY Zenon, <3>1, HoldEffect
  <2>2. CASE user.pending = None
    BY <1>4, <2>2, GoEffect DEF RotatePromote
  <2>3. QED
    BY <2>1, <2>2
<1>5. CASE RotateRevoke(r) \/ RotateIssue(r)
  BY <1>5, KeepEffect DEF RotateRevoke, RotateIssue
<1>6. QED
  BY <1>1, <1>2, <1>3, <1>4, <1>5 DEF Rotate

LEMMA NextHeld ==
  ASSUME TypeOK, [Next]_vars, NEW q \in Requests
  PROVE  HeldMove(q)
<1>1. ASSUME NEW r \in Requests, Break(r)
      PROVE  HeldMove(q)
  BY <1>1, GoEffect DEF Break, Places, Told, HeldMove
<1>2. CASE UNCHANGED req
  BY <1>2 DEF HeldMove
<1>3. QED
  BY <1>1, <1>2, LoginHeld, ResetHeld, RotateHeld
     DEF Next, EndSession, ExpireLink, ExpirePending, ExpireLock, Tick, vars

LEMMA HeldStep == TypeOK /\ HeldInv /\ [Next]_vars => HeldInv'
<1> SUFFICES ASSUME TypeOK, HeldInv, [Next]_vars PROVE HeldInv'
  OBVIOUS
<1>1. live \subseteq Requests /\ \A r \in Requests : req[r].held \subseteq Requests
  BY DEF TypeOK, Request
<1>2. \A q \in Requests : req[q].at \in Answered => req'[q].at \in Answered
  BY NextStays DEF Stays
<1>3. /\ \A q \in live' : q \in live \/ req[q].at \notin Answered
      /\ \A q \in live' : req'[q].at \in Answered
  BY <1>1, <1>2, LiveChange DEF HeldInv, Answered
<1>4. ASSUME NEW r \in Requests
      PROVE  /\ \A q \in req'[r].held \cup live' : req'[q].at \in Answered
             /\ req'[r].at \in Told => req'[r].held \cap live' = {}
  <2>1. /\ req'[r].held \subseteq req[r].held \cup live
        /\ req'[r].at \in Told =>
             live' = {} \/ (req[r].at \in Told /\ req'[r].held = req[r].held)
    BY NextHeld DEF HeldMove
  <2>2. \A q \in req'[r].held : req'[q].at \in Answered
    BY <1>1, <1>2, <2>1 DEF HeldInv
  <2>3. ASSUME req[r].at \in Told, req'[r].held = req[r].held
        PROVE  req'[r].held \cap live' = {}
    <3>1. req[r].held \cap live = {} /\ \A q \in req[r].held : req[q].at \in Answered
      BY <2>3 DEF HeldInv, RevokeReachesAll, Told
    <3>2. QED
      BY <1>3, <2>3, <3>1
  <2>4. QED
    BY <1>3, <2>1, <2>2, <2>3
<1>5. QED
  BY <1>4 DEF HeldInv, RevokeReachesAll, Told

\* However requests are interleaved and wherever they fail, a reset or a change
\* of the authenticator that answers has left no session that was live when it
\* changed the credentials.
THEOREM NoSessionSurvives == Spec => []RevokeReachesAll
<1>1. Init => TypeOK /\ HeldInv
  <2> SUFFICES ASSUME Init PROVE HeldInv
    BY InitType
  <2>1. \A r \in Requests : req[r].at = "idle" /\ req[r].held = {}
    BY Zenon, QuietType DEF Init, Places
  <2>2. live = {}
    BY DEF Init
  <2>3. QED
    BY <2>1, <2>2 DEF HeldInv, RevokeReachesAll
<1>2. TypeOK /\ HeldInv /\ [Next]_vars => (TypeOK /\ HeldInv)'
  BY NextType, HeldStep
<1>3. HeldInv => RevokeReachesAll
  BY DEF HeldInv
<1>4. QED
  BY <1>1, <1>2, <1>3, PTL DEF Spec

-----------------------------------------------------------------------------
(* StreakLocks *)

\* Who counts a failure locks in the same statement, and who lifts a lock
\* early forgets the count.
StreakEffect ==
  \/ /\ user'.failed = user.failed /\ user'.locked = user.locked
     /\ lapsed' = lapsed
  \/ user'.failed = 0
  \/ lapsed'
  \/ user'.failed >= MaxFailures => user'.locked

LEMMA NextStreak ==
  ASSUME TypeOK, [Next]_vars
  PROVE  StreakEffect
<1>1. user \in User /\ user.failed \in Nat
  BY DEF TypeOK, User
<1>2. ASSUME UNCHANGED user, lapsed' = lapsed
      PROVE  StreakEffect
  BY <1>2 DEF StreakEffect
<1>3. ASSUME NEW r \in Requests, Login(r)
      PROVE  StreakEffect
  <2>1. CASE LoginFail(r)
    <3>1. user'.failed = user.failed + 1
      BY <1>1, <2>1 DEF LoginFail, User
    <3>2. user'.locked = (user.locked \/ user.failed + 1 >= MaxFailures)
      BY <1>1, <2>1 DEF LoginFail, User
    <3>3. QED
      BY <3>1, <3>2 DEF StreakEffect
  <2>2. CASE LoginRecord(r)
    BY <1>1, <2>2 DEF LoginRecord, User, StreakEffect
  <2>3. CASE LoginActivate(r)
    BY <1>1, <2>3 DEF LoginActivate, User, StreakEffect, history
  <2>4. CASE ~LoginFail(r) /\ ~LoginRecord(r) /\ ~LoginActivate(r)
    BY Zenon, <1>2, <1>3, <2>4 DEF Login, LoginWrong, LoginPlain, LoginRecovery,
       LoginCode, LoginRecover, LoginConsume, LoginIssue, history
  <2>5. QED
    BY <2>1, <2>2, <2>3, <2>4
<1>4. ASSUME NEW r \in Requests, Reset(r)
      PROVE  StreakEffect
  <2>1. CASE ResetApply(r)
    BY <1>1, <2>1 DEF ResetApply, User, StreakEffect
  <2>2. CASE ~ResetApply(r)
    BY Zenon, <1>2, <1>4, <2>2 DEF Reset, ResetRequest, ResetMark, ResetInsert,
       ResetRead, ResetConsume, ResetClaim, ResetRevoke, history
  <2>3. QED
    BY <2>1, <2>2
<1>5. ASSUME NEW r \in Requests, Rotate(r)
      PROVE  StreakEffect
  <2>1. CASE UNCHANGED user
    BY Zenon, <1>2, <1>5, <2>1 DEF Rotate, Authenticate, RotateBegin, RotatePend,
       RotateConfirm, RotateDiscard, RotatePromote, RotateRevoke, RotateIssue,
       history
  <2>2. ASSUME NEW s \in Secrets, RotatePend(r, s)
        PROVE  StreakEffect
    BY <1>1, <2>2 DEF RotatePend, User, StreakEffect
  <2>3. CASE RotateDiscard(r)
    BY <1>1, <2>3 DEF RotateDiscard, User, StreakEffect, history
  <2>4. CASE RotatePromote(r) /\ user.pending # None
    BY <1>1, <2>4 DEF RotatePromote, User, StreakEffect
  <2>5. QED
    BY <1>5, <2>1, <2>2, <2>3, <2>4 DEF Rotate, Authenticate, RotateBegin,
       RotateConfirm, RotatePromote, RotateRevoke, RotateIssue
<1>6. CASE ExpirePending
  BY <1>1, <1>6 DEF ExpirePending, User, StreakEffect, history
<1>7. CASE ExpireLock
  BY <1>7 DEF ExpireLock, StreakEffect
<1>8. QED
  BY <1>2, <1>3, <1>4, <1>5, <1>6, <1>7
     DEF Next, Break, EndSession, ExpireLink, Tick, vars, history

\* A streak of failures that reaches the limit has locked the account, whatever
\* sign-ins and resets happen in between, unless the lock has run out.
THEOREM StreakIsLocked == Spec => []StreakLocks
<1>1. Init => TypeOK /\ StreakLocks
  <2> SUFFICES ASSUME Init PROVE StreakLocks
    BY InitType
  <2>1. user.failed = 0
    BY DEF Init
  <2>2. QED
    BY <2>1, TimeAssumption DEF StreakLocks
<1>2. TypeOK /\ StreakLocks /\ [Next]_vars => (TypeOK /\ StreakLocks)'
  <2> SUFFICES ASSUME TypeOK, StreakLocks, [Next]_vars PROVE StreakLocks'
    BY NextType
  <2>1. StreakEffect
    BY NextStreak
  <2>2. QED
    BY <2>1, TimeAssumption DEF StreakEffect, StreakLocks
<1>3. QED
  BY <1>1, <1>2, PTL DEF Spec

=============================================================================
