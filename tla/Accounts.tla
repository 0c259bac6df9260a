------------------------------ MODULE Accounts ------------------------------
(***************************************************************************)
(* One account: signing in, resetting the password and replacing the       *)
(* authenticator, by any number of requests at a time.                     *)
(*                                                                         *)
(* A request is handleLogin, handleResetRequest, handleResetConfirm or one *)
(* of the two /v1/account/mfa handlers.  Between two of its database calls *)
(* others run: an action is one statement, or one transaction where its    *)
(* first statement locks the row of the user.  A call that throws ends the *)
(* request where it is.                                                    *)
(*                                                                         *)
(* TOTP secrets are values that are equal or not; a TOTP code is the       *)
(* secret and the time step it was made from.  A link, a password that a   *)
(* reset chose and a set of recovery codes are named by the request they   *)
(* came with, a session by the request that was answered with it.  The     *)
(* clock counts TOTP time steps; the other time limits may pass at any     *)
(* moment.  A refusal that writes nothing is not a step.                   *)
(***************************************************************************)
EXTENDS Naturals

CONSTANTS
  Requests,
  Secrets,       \* TOTP secrets the generator can return
  None,          \* no secret, no link, the password of the registration
  MaxFailures,   \* failed sign-ins in a row that lock the account
  Window,        \* time steps a code is accepted before and after its own
  PruneAfter,    \* age, in steps, at which consume_totp forgets a step
  MaxDelay,      \* steps between checking a code and claiming its step: the
                 \* statement and checkout timeouts end a slower request
  MaxClock       \* bound on the clock

ASSUME NoneAssumption == None \notin Requests \cup Secrets
ASSUME TimeAssumption ==
  /\ MaxFailures \in Nat \ {0} /\ Window \in Nat /\ PruneAfter \in Nat
  /\ MaxDelay \in Nat /\ MaxClock \in Nat
  /\ PruneAfter >= 2 * Window + MaxDelay

VARIABLES
  user,       \* the row of users
  used,       \* rows of totp_used: a time step and when it was claimed
  codes,      \* unspent recovery codes, by the request that generated them
  links,      \* live rows of password_resets
  live,       \* sessions neither revoked nor expired
  clock,
  req,        \* the progress of each request
  generated,  \* secrets that were ever generated
  won,        \* every claim a request has won
  proven,     \* secrets of which a code was checked
  lapsed      \* the last lock ended by itself

history == <<generated, won, proven, lapsed>>
vars == <<user, used, codes, links, live, clock, req, history>>

Steps == 0..(MaxClock + Window)
User == [owner : BOOLEAN, password : Requests \cup {None},
         secret : Secrets \cup {None}, mfaEnabled : BOOLEAN,
         pending : Secrets \cup {None}, stale : BOOLEAN,
         failed : Nat, locked : BOOLEAN]
Request == [at : {"idle", "failing", "recovering", "claiming", "activating",
                  "issuing", "recording", "marking", "inserting",
                  "resetClaiming", "linking", "applying", "revoking", "reset",
                  "authenticated", "beginning", "discarding", "promoting", "ending",
                  "reissuing", "rotated", "done"},
            secret : Secrets \cup {None}, counter : Steps, since : 0..MaxClock,
            link : Requests \cup {None}, activates : BOOLEAN,
            held : SUBSET Requests]
Code == [secret : Secrets, counter : Steps]
Claim == [kind : {"totp", "link", "code", "rotation"},
          of : Steps \cup Requests \cup Secrets, by : Requests]

\* A request that has nothing to remember.
Quiet(place) == [at |-> place, secret |-> None, counter |-> 0, since |-> 0,
                 link |-> None, activates |-> FALSE, held |-> {}]

-----------------------------------------------------------------------------
(* What the handlers ask of the row they have read. *)

\* verifyTotpStep: the code of this secret at a step near the present one.
Verifies(secret, code) ==
  /\ code.secret = secret
  /\ clock <= code.counter + Window
  /\ code.counter <= clock + Window

\* Variant: only what is enabled is asked for.
EnabledFactorOnly == user.mfaEnabled

\* attemptLogin asks for a code; handleResetConfirm asks in one case more.
LoginNeedsCode == user.mfaEnabled \/ user.owner
ResetNeedsCode == user.secret # None \/ user.mfaEnabled \/ user.owner

At(r, place) == req[r].at = place
Go(r, place) == req' = [req EXCEPT ![r] = Quiet(place)]
KeepOn(r, place) == req' = [req EXCEPT ![r].at = place]
Win(r, kind, of) == won' = won \cup {[kind |-> kind, of |-> of, by |-> r]}

\* The statements that several handlers share.

\* consume_totp: claims the step unless it is taken, and forgets old ones.
Taken(counter) == \E u \in used : u.counter = counter
\* Variant: what the present step did not claim is forgotten.
KeepThisStep(us) == {u \in us : u.at = clock}

Remembered(us) == {u \in us : u.at + PruneAfter >= clock}
Consume(counter) ==
  used' = Remembered(IF Taken(counter) THEN used
                     ELSE used \cup {[counter |-> counter, at |-> clock]})

CreateSession(r) == live' = live \cup {r}
RevokeSessionsForUser == live' = {}

SetTotpSecret(secret, enabled) ==
  user' = [user EXCEPT !.secret = secret, !.mfaEnabled = enabled]

\* The secret in use is untouched.
SetPendingTotp(secret) == user' = [user EXCEPT !.pending = secret, !.stale = FALSE]
GetPendingTotp == {user.pending} \ {None}
DiscardPendingTotp == user' = [user EXCEPT !.pending = None, !.stale = FALSE]

\* It promotes the pending secret and clears it in one statement.
ActivatePendingTotp ==
  user' = [user EXCEPT !.secret = user.pending, !.mfaEnabled = TRUE,
                       !.pending = None, !.stale = FALSE]

\* The set as a whole, and one code of it: used_at IS NULL sits in the UPDATE.
ReplaceRecoveryCodes(r) == codes' = {r}
ClaimRecoveryCode(g) == g \in codes /\ codes' = codes \ {g}

\* Looking at a link does not spend it.
FindPasswordReset(l) == l \in links
ClaimPasswordReset(l) == l \in links /\ links' = links \ {l}
ApplyPasswordReset(password) ==
  user' = [user EXCEPT !.password = password, !.failed = 0, !.locked = FALSE]

-----------------------------------------------------------------------------
(* handleLogin: one statement reads the user, attemptLogin decides. *)

\* invalid_credentials, locked or not.
LoginWrong(r) ==
  /\ At(r, "idle")
  /\ Go(r, "failing")
  /\ UNCHANGED <<user, used, codes, links, live, clock, history>>

\* The right password and a recovery code.
LoginRecovery(r, g) ==
  /\ At(r, "idle") /\ ~user.locked
  /\ req' = [req EXCEPT ![r].at = "recovering", ![r].link = g]
  /\ UNCHANGED <<user, used, codes, links, live, clock, history>>

\* The right password and a TOTP code; a first sign-in enables the factor.
LoginCode(r, code) ==
  /\ At(r, "idle") /\ ~user.locked
  /\ LoginNeedsCode /\ user.secret # None
  /\ \/ /\ Verifies(user.secret, code)
        /\ req' = [req EXCEPT ![r].at = "claiming",
                              ![r].secret = user.secret,
                              ![r].counter = code.counter,
                              ![r].since = clock,
                              ![r].activates = ~user.mfaEnabled]
        /\ proven' = proven \cup {user.secret}
     \/ /\ ~Verifies(user.secret, code)
        /\ Go(r, "failing")
        /\ UNCHANGED proven
  /\ UNCHANGED <<user, used, codes, links, live, clock, generated, won, lapsed>>

\* The right password of an account without a second factor.
LoginPlain(r) ==
  /\ At(r, "idle") /\ ~user.locked /\ ~LoginNeedsCode
  /\ Go(r, "issuing")
  /\ UNCHANGED <<user, used, codes, links, live, clock, history>>

\* Variant: the lock comes one failure late.
FailPastLimit(r) ==
  /\ At(r, "failing")
  /\ Go(r, "done")
  /\ user' = [user EXCEPT !.failed = @ + 1,
                          !.locked = @ \/ user.failed + 1 > MaxFailures]
  /\ lapsed' = (lapsed /\ user.failed + 1 <= MaxFailures)
  /\ UNCHANGED <<used, codes, links, live, clock, generated, won, proven>>

\* record_login_attempt(false)
LoginFail(r) ==
  /\ At(r, "failing")
  /\ Go(r, "done")
  /\ user' = [user EXCEPT !.failed = @ + 1,
                          !.locked = @ \/ user.failed + 1 >= MaxFailures]
  /\ lapsed' = (lapsed /\ user.failed + 1 < MaxFailures)
  /\ UNCHANGED <<used, codes, links, live, clock, generated, won, proven>>

LoginRecover(r) ==
  /\ At(r, "recovering")
  /\ \/ /\ ClaimRecoveryCode(req[r].link)
        /\ Win(r, "code", req[r].link)
        /\ Go(r, "issuing")
     \/ /\ req[r].link \notin codes
        /\ Go(r, "failing")
        /\ UNCHANGED <<codes, won>>
  /\ UNCHANGED <<user, used, links, live, clock, generated, proven, lapsed>>

LoginConsume(r) ==
  /\ At(r, "claiming")
  /\ Consume(req[r].counter)
  /\ \/ /\ ~Taken(req[r].counter)
        /\ Win(r, "totp", req[r].counter)
        /\ KeepOn(r, IF req[r].activates THEN "activating" ELSE "issuing")
     \/ /\ Taken(req[r].counter)
        /\ Go(r, "failing")
        /\ UNCHANGED won
  /\ UNCHANGED <<user, codes, links, live, clock, generated, proven, lapsed>>

\* The secret that is written back is the one the candidate was read with.
LoginActivate(r) ==
  /\ At(r, "activating")
  /\ Go(r, "issuing")
  /\ SetTotpSecret(req[r].secret, TRUE)
  /\ UNCHANGED <<used, codes, links, live, clock, history>>

LoginIssue(r) ==
  /\ At(r, "issuing")
  /\ Go(r, "recording")
  /\ CreateSession(r)
  /\ UNCHANGED <<user, used, codes, links, clock, history>>

\* record_login_attempt(true)
LoginRecord(r) ==
  /\ At(r, "recording")
  /\ Go(r, "done")
  /\ user' = [user EXCEPT !.failed = 0, !.locked = FALSE]
  /\ UNCHANGED <<used, codes, links, live, clock, history>>

Login(r) ==
  \/ LoginWrong(r) \/ LoginPlain(r)
  \/ \E g \in Requests : LoginRecovery(r, g)
  \/ \E code \in Code : LoginCode(r, code)
  \/ LoginFail(r) \/ LoginRecover(r) \/ LoginConsume(r)
  \/ LoginActivate(r) \/ LoginIssue(r) \/ LoginRecord(r)

-----------------------------------------------------------------------------
(* handleResetRequest and handleResetConfirm *)

ResetRequest(r) ==
  /\ At(r, "idle")
  /\ Go(r, "marking")
  /\ UNCHANGED <<user, used, codes, links, live, clock, history>>

\* issue_password_reset: the UPDATE sees the committed links only ...
ResetMark(r) ==
  /\ At(r, "marking")
  /\ Go(r, "inserting")
  /\ links' = {}
  /\ UNCHANGED <<user, used, codes, live, clock, history>>

\* ... and the new one is committed after it.  The mail may still fail.
ResetInsert(r) ==
  /\ At(r, "inserting")
  /\ Go(r, "done")
  /\ links' = links \cup {r}
  /\ UNCHANGED <<user, used, codes, live, clock, history>>

\* find_password_reset and the second factor; every other outcome is a refusal.
ResetRead(r, l, code) ==
  /\ At(r, "idle")
  /\ FindPasswordReset(l)
  /\ \/ /\ ~ResetNeedsCode
        /\ req' = [req EXCEPT ![r].at = "linking", ![r].link = l]
        /\ UNCHANGED proven
     \/ /\ user.secret # None /\ Verifies(user.secret, code)
        /\ req' = [req EXCEPT ![r].at = "resetClaiming", ![r].link = l,
                              ![r].counter = code.counter,
                              ![r].since = clock]
        /\ proven' = proven \cup {user.secret}
  /\ UNCHANGED <<user, used, codes, links, live, clock, generated, won, lapsed>>

ResetConsume(r) ==
  /\ At(r, "resetClaiming")
  /\ Consume(req[r].counter)
  /\ \/ /\ ~Taken(req[r].counter)
        /\ Win(r, "totp", req[r].counter)
        /\ KeepOn(r, "linking")
     \/ /\ Taken(req[r].counter)
        /\ Go(r, "done")
        /\ UNCHANGED won
  /\ UNCHANGED <<user, codes, links, live, clock, generated, proven, lapsed>>

\* Variant: find_password_reset has found the link, and the claim trusts it.
ClaimUnchecked(r) ==
  /\ At(r, "linking")
  /\ links' = links \ {req[r].link}
  /\ Win(r, "link", req[r].link)
  /\ Go(r, "applying")
  /\ UNCHANGED <<user, used, codes, live, clock, generated, proven, lapsed>>

ResetClaim(r) ==
  /\ At(r, "linking")
  /\ \/ /\ ClaimPasswordReset(req[r].link)
        /\ Win(r, "link", req[r].link)
        /\ Go(r, "applying")
     \/ /\ req[r].link \notin links
        /\ Go(r, "done")
        /\ UNCHANGED <<links, won>>
  /\ UNCHANGED <<user, used, codes, live, clock, generated, proven, lapsed>>

\* Variant: the sessions are left to the caller, and the caller forgets them.
ApplyAndAnswer(r) ==
  /\ At(r, "applying")
  /\ user' = [user EXCEPT !.password = r, !.failed = 0, !.locked = FALSE]
  /\ req' = [req EXCEPT ![r].at = "reset", ![r].held = live]
  /\ UNCHANGED <<used, codes, links, live, clock, history>>

\* The new password lifts the lock too.
ResetApply(r) ==
  /\ At(r, "applying")
  /\ ApplyPasswordReset(r)
  /\ req' = [req EXCEPT ![r].at = "revoking", ![r].held = live]
  /\ UNCHANGED <<used, codes, links, live, clock, history>>

\* A statement of its own.
ResetRevoke(r) ==
  /\ At(r, "revoking")
  /\ KeepOn(r, "reset")
  /\ RevokeSessionsForUser
  /\ UNCHANGED <<user, used, codes, links, clock, history>>

Reset(r) ==
  \/ ResetRequest(r) \/ ResetMark(r) \/ ResetInsert(r)
  \/ \E l \in Requests, code \in Code : ResetRead(r, l, code)
  \/ ResetConsume(r) \/ ResetClaim(r) \/ ResetApply(r) \/ ResetRevoke(r)

-----------------------------------------------------------------------------
(* POST /v1/account/mfa/begin and /confirm *)

\* requirePerson
Authenticate(r) ==
  /\ At(r, "idle")
  /\ live # {}
  /\ Go(r, "authenticated")
  /\ UNCHANGED <<user, used, codes, links, live, clock, history>>

\* reauthenticate: the right password
RotateBegin(r) ==
  /\ At(r, "authenticated")
  /\ Go(r, "beginning")
  /\ UNCHANGED <<user, used, codes, links, live, clock, history>>

\* A fresh secret.
RotatePend(r, s) ==
  /\ At(r, "beginning")
  /\ s \notin generated
  /\ Go(r, "done")
  /\ SetPendingTotp(s)
  /\ generated' = generated \cup {s}
  /\ UNCHANGED <<used, codes, links, live, clock, won, proven, lapsed>>

\* The time limit and verifyTotp; a wrong code changes nothing.
RotateConfirm(r, code) ==
  /\ At(r, "authenticated")
  /\ GetPendingTotp # {}
  /\ \/ /\ user.stale
        /\ Go(r, "discarding")
        /\ UNCHANGED proven
     \/ /\ ~user.stale /\ Verifies(user.pending, code)
        /\ Go(r, "promoting")
        /\ proven' = proven \cup {user.pending}
  /\ UNCHANGED <<user, used, codes, links, live, clock, generated, won, lapsed>>

RotateDiscard(r) ==
  /\ At(r, "discarding")
  /\ Go(r, "done")
  /\ DiscardPendingTotp
  /\ UNCHANGED <<used, codes, links, live, clock, history>>

\* The row is locked from the first statement on.
RotatePromote(r) ==
  /\ At(r, "promoting")
  /\ \/ /\ user.pending # None
        /\ ActivatePendingTotp
        /\ ReplaceRecoveryCodes(r)
        /\ Win(r, "rotation", user.pending)
        /\ req' = [req EXCEPT ![r].at = "ending", ![r].held = live]
     \/ /\ user.pending = None
        /\ Go(r, "done")
        /\ UNCHANGED <<user, codes, won>>
  /\ UNCHANGED <<used, links, live, clock, generated, proven, lapsed>>

RotateRevoke(r) ==
  /\ At(r, "ending")
  /\ KeepOn(r, "reissuing")
  /\ RevokeSessionsForUser
  /\ UNCHANGED <<user, used, codes, links, clock, history>>

\* issueSession, for the device that asked
RotateIssue(r) ==
  /\ At(r, "reissuing")
  /\ KeepOn(r, "rotated")
  /\ CreateSession(r)
  /\ UNCHANGED <<user, used, codes, links, clock, history>>

Rotate(r) ==
  \/ Authenticate(r) \/ RotateBegin(r) \/ \E s \in Secrets : RotatePend(r, s)
  \/ \E code \in Code : RotateConfirm(r, code)
  \/ RotateDiscard(r) \/ RotatePromote(r) \/ RotateRevoke(r) \/ RotateIssue(r)

-----------------------------------------------------------------------------
(* Signing out, errors, and the passing of time *)

\* handleLogout, or the end of SESSION_TTL_MS
EndSession(q) ==
  /\ q \in live
  /\ live' = live \ {q}
  /\ UNCHANGED <<user, used, codes, links, clock, req, history>>

\* A statement throws, a timeout ends it, or the process does.
Break(r) ==
  /\ req[r].at \notin {"idle", "reset", "rotated", "done"}
  /\ Go(r, "done")
  /\ UNCHANGED <<user, used, codes, links, live, clock, history>>

\* RESET_TTL_MS
ExpireLink(l) ==
  /\ l \in links
  /\ links' = links \ {l}
  /\ UNCHANGED <<user, used, codes, live, clock, req, history>>

\* PENDING_TTL_MS
ExpirePending ==
  /\ user.pending # None /\ ~user.stale
  /\ user' = [user EXCEPT !.stale = TRUE]
  /\ UNCHANGED <<used, codes, links, live, clock, req, history>>

\* locked_until
ExpireLock ==
  /\ user.locked
  /\ user' = [user EXCEPT !.locked = FALSE]
  /\ lapsed' = TRUE
  /\ UNCHANGED <<used, codes, links, live, clock, req, generated, won, proven>>

Tick ==
  /\ clock < MaxClock
  /\ \A r \in Requests : req[r].at \in {"claiming", "resetClaiming"} =>
                           clock < req[r].since + MaxDelay
  /\ clock' = clock + 1
  /\ UNCHANGED <<user, used, codes, links, live, req, history>>

-----------------------------------------------------------------------------
\* createUser: an owner has a secret, and confirms it at the first sign-in.
Init ==
  /\ \E owner \in BOOLEAN, secret \in Secrets \cup {None} :
       /\ owner => secret # None
       /\ user = [owner |-> owner, password |-> None, secret |-> secret,
                  mfaEnabled |-> FALSE, pending |-> None, stale |-> FALSE,
                  failed |-> 0, locked |-> FALSE]
  /\ used = {} /\ codes = {} /\ links = {} /\ live = {} /\ clock = 0
  /\ req = [r \in Requests |-> Quiet("idle")]
  /\ won = {} /\ proven = {} /\ lapsed = FALSE
  /\ generated = {user.secret} \cap Secrets

Next ==
  \/ \E r \in Requests : Login(r) \/ Reset(r) \/ Rotate(r) \/ Break(r)
  \/ \E r \in Requests : EndSession(r) \/ ExpireLink(r)
  \/ ExpirePending \/ ExpireLock \/ Tick

Spec == Init /\ [][Next]_vars


-----------------------------------------------------------------------------
TypeOK ==
  /\ user \in User
  /\ used \subseteq [counter : Steps, at : 0..MaxClock]
  /\ codes \subseteq Requests /\ links \subseteq Requests
  /\ live \subseteq Requests /\ clock \in 0..MaxClock
  /\ req \in [Requests -> Request]
  /\ generated \subseteq Secrets
  /\ won \subseteq Claim /\ proven \subseteq Secrets /\ lapsed \in BOOLEAN

\* Whatever may be used once is used once: a TOTP step, by any handler and
\* however late; a reset link; a recovery code; a pending secret.
SingleUse ==
  \A a, b \in won : a.kind = b.kind /\ a.of = b.of => a.by = b.by

\* The authenticator, or something that stands for it, has vouched for r.
Vouched(r) ==
  \E w \in won : w.by = r /\ w.kind \in {"totp", "code", "rotation"}

\* An owner has no session and no new password that the password, or the
\* link, alone was enough for: in every interleaving, and before the first
\* sign-in has confirmed the second factor too.
SecondFactor ==
  user.owner => \A r \in live \cup ({user.password} \ {None}) : Vouched(r)

\* A reset, and a change of the authenticator, that has got as far as its
\* answer has left none of the sessions that were live when it changed the
\* password, or the secret.
RevokeReachesAll ==
  \A r \in Requests :
    req[r].at \in {"reset", "reissuing", "rotated"} => req[r].held \cap live = {}

\* A streak of failed sign-ins locks the account, until the time is over.
StreakLocks == user.failed >= MaxFailures => user.locked \/ lapsed

\* The secret of an enabled second factor is one a code was checked of: what
\* migrations/0010_mfa_recovery.sql:8-10 says of holding a new secret aside.
SecretInUseProven == user.mfaEnabled => user.secret \in proven

=============================================================================
