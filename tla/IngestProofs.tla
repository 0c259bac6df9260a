---------------------------- MODULE IngestProofs ----------------------------
(***************************************************************************)
(* What receiving keeps, proved for any messages, uploads, tenants and     *)
(* numbers of concurrent requests, however often they fail.                *)
(*                                                                         *)
(* A request decides statements before it commits, so the invariant says   *)
(* of each one what it still may rely on: which objects it has stored,     *)
(* which rows it has inserted or found, and that nobody else holds them.   *)
(***************************************************************************)
EXTENDS Ingest, TLAPS

\* Which steps belong to a message, and what an open transaction has.
StepKnows ==
  \A q \in Requests :
    /\ req[q].done <= Count(q)
    /\ req[q].at \in {"delivered", "unroutable", "claiming"} => IsMessage(q)
    /\ req[q].at # "inserting" => req[q].new = {}
    /\ req[q].noted = req[q].new

\* The bytes are stored before the transaction begins, and stay.
StoredFirst ==
  \A q \in Requests :
    /\ req[q].at = "storing" =>
         \A i \in 1..req[q].done : Attachments[Job[q]][i] \in objects
    /\ req[q].at \in {"claiming", "inserting"} =>
         \A i \in 1..Count(q) : Attachments[Job[q]][i] \in objects

\* An open transaction has inserted what it did not find.
InsertedSoFar ==
  \A q \in Requests : req[q].at = "inserting" =>
    /\ req[q].new \subseteq RowsOf(Job[q])
    /\ \A i \in 1..req[q].done :
         RowOf(Job[q], Attachments[Job[q]][i]) \in documents \cup req[q].new

\* What a 2xx rests on: the claim of a message, the rows of an upload.
Settled(j) ==
  /\ j \in Messages => Claimed(MessageId[j])
  /\ j \in Uploads => RowsOf(j) \subseteq documents

AnswersAreCommitted ==
  /\ \A q \in Requests : req[q].at = "answering" => Settled(Job[q])
  /\ \A j \in acked : Settled(j)

ClaimsAreRecorded ==
  \A c \in claims : \A t \in c.tenant : \E n \in Messages :
    MessageId[n] = c.id /\ Tenant[n] = t /\ RowsOf(n) \subseteq documents

UnarchivedCameByMail ==
  \A r \in documents \ archived :
    \E m \in Messages, c \in claims : c.id = MessageId[m] /\ r \in RowsOf(m)

IInv ==
  /\ TypeOK
  /\ StepKnows
  /\ LocksAreExclusive
  /\ StoredFirst
  /\ RecordedIsStored
  /\ InsertedSoFar
  /\ FindingsOnce
  /\ AnswersAreCommitted
  /\ ClaimsAreRecorded
  /\ UnarchivedCameByMail

-----------------------------------------------------------------------------
(* What a step can do. *)

\* The attachment a request deals with next is one of its job's rows.
LEMMA CurrentRow ==
  ASSUME TypeOK, NEW q \in Requests, Pending(q)
  PROVE  /\ req[q].done + 1 \in 1..Count(q)
         /\ Attachments[Job[q]][req[q].done + 1] \in Digests
         /\ Current(q) = RowOf(Job[q], Attachments[Job[q]][req[q].done + 1])
         /\ Current(q) \in RowsOf(Job[q])
         /\ Current(q) \in Rows
<1>1. Job[q] \in Jobs /\ Attachments[Job[q]] \in Seq(Digests) /\ Tenant[Job[q]] \in Tenants
  BY JobAssumption
<1>2. req[q].done \in Nat
  BY DEF TypeOK, Req
<1>3. req[q].done + 1 \in 1..Count(q)
  BY <1>1, <1>2 DEF Pending, Count
<1>4. Attachments[Job[q]][req[q].done + 1] \in Digests
  BY <1>1, <1>3 DEF Count
<1>5. QED
  BY <1>1, <1>3, <1>4 DEF Current, RowOf, RowsOf, Rows, Count

LEMMA IdleIsReq == Idle \in Req
BY DEF Idle, Req, Steps

\* One request moves; the others stay where they are.
LEMMA ReqStep ==
  ASSUME TypeOK, [Next]_vars, NEW q \in Requests
  PROVE  \/ req'[q] = req[q]
         \/ req'[q] = Idle
         \/ Deliver(q) \/ Upload(q) \/ Resolve(q) \/ ClaimUnroutable(q) \/ PutObject(q)
         \/ Stored(q) \/ Claim(q) \/ InsertDocument(q) \/ Commit(q)
<1>a. req \in [Requests -> Req]
  BY DEF TypeOK
<1>1. ASSUME NEW p \in Requests, NEW r, Move(p, r), p # q
      PROVE  req'[q] = req[q]
  BY <1>a, <1>1 DEF Move
<1>2. ASSUME NEW p \in Requests, Drop(p)
      PROVE  req'[q] = req[q] \/ req'[q] = Idle
  BY <1>a, <1>2 DEF Drop, Move
<1>3. ASSUME NEW p \in Requests, Deliver(p) \/ Upload(p), p # q
      PROVE  req'[q] = req[q]
  BY <1>1, <1>3 DEF Deliver, Upload
<1>4. ASSUME NEW p \in Requests, Handle(p), ~Answer(p), p # q
      PROVE  req'[q] = req[q]
  BY <1>1, <1>4 DEF Handle, Resolve, ClaimUnroutable, PutObject, Stored, Claim,
                    InsertDocument, Commit
<1>5. ASSUME NEW p \in Requests, Answer(p) \/ Fail(p) \/ DeadlockVictim(p)
      PROVE  req'[q] = req[q] \/ req'[q] = Idle
  BY <1>2, <1>5 DEF Answer, Fail, DeadlockVictim
<1>6. ASSUME NEW t \in Tenants, CreateInbox(t)
      PROVE  req'[q] = req[q]
  BY <1>6 DEF CreateInbox
<1>7. CASE UNCHANGED vars
  BY <1>7 DEF vars
<1>8. QED
  BY <1>3, <1>4, <1>5, <1>6, <1>7 DEF Next, Handle

\* The tables change at a COMMIT, and nowhere else.
LEMMA WriteStep ==
  ASSUME [Next]_vars
  PROVE  \/ UNCHANGED db
         \/ \E q \in Requests : ClaimUnroutable(q)
         \/ \E q \in Requests : Commit(q)
<1>1. ASSUME NEW q \in Requests, Deliver(q) \/ Upload(q) \/ Fail(q) \/ DeadlockVictim(q)
      PROVE  UNCHANGED db
  BY <1>1 DEF Deliver, Upload, Fail, DeadlockVictim
<1>2. ASSUME NEW q \in Requests, Handle(q), ~ClaimUnroutable(q), ~Commit(q)
      PROVE  UNCHANGED db
  BY <1>2 DEF Handle, Resolve, PutObject, Stored, Claim, InsertDocument, Answer
<1>3. ASSUME NEW t \in Tenants, CreateInbox(t)
      PROVE  UNCHANGED db
  BY <1>3 DEF CreateInbox
<1>4. CASE UNCHANGED vars
  BY <1>4 DEF vars, db
<1>5. QED
  BY <1>1, <1>2, <1>3, <1>4 DEF Next

\* Rows, claims and objects are never removed.
LEMMA TablesGrow ==
  ASSUME [Next]_vars
  PROVE  claims \subseteq claims' /\ documents \subseteq documents' /\ archived \subseteq archived'
<1>1. CASE UNCHANGED db
  BY <1>1 DEF db
<1>2. ASSUME NEW q \in Requests, ClaimUnroutable(q)
      PROVE  claims \subseteq claims' /\ UNCHANGED <<documents, archived>>
  BY <1>2 DEF ClaimUnroutable
<1>3. ASSUME NEW q \in Requests, Commit(q)
      PROVE  claims \subseteq claims' /\ documents \subseteq documents' /\ archived \subseteq archived'
  BY <1>3 DEF Commit
<1>4. QED
  BY <1>1, <1>2, <1>3, WriteStep

LEMMA ObjectsGrow ==
  ASSUME [Next]_vars
  PROVE  objects \subseteq objects'
<1>1. ASSUME NEW q \in Requests, Deliver(q) \/ Upload(q) \/ Fail(q) \/ DeadlockVictim(q)
      PROVE  UNCHANGED objects
  BY <1>1 DEF Deliver, Upload, Fail, DeadlockVictim
<1>2. ASSUME NEW q \in Requests, Handle(q)
      PROVE  objects \subseteq objects'
  BY <1>2 DEF Handle, Resolve, ClaimUnroutable, PutObject, Stored, Claim, InsertDocument,
              Commit, Answer
<1>3. ASSUME NEW t \in Tenants, CreateInbox(t)
      PROVE  UNCHANGED objects
  BY <1>3 DEF CreateInbox
<1>4. QED
  BY <1>1, <1>2, <1>3 DEF Next, vars

-----------------------------------------------------------------------------
(* Types. *)

LEMMA TypeStep ==
  ASSUME TypeOK, StepKnows, [Next]_vars
  PROVE  TypeOK'
<1>. USE DEF db
<1>a. \A p \in Requests : req[p] \in Req
  BY DEF TypeOK
<1>b. ASSUME NEW p \in Requests, NEW r \in Req, Move(p, r)
      PROVE  req' \in [Requests -> Req]
  BY <1>b DEF Move, TypeOK
<1>c. ASSUME NEW p \in Requests, NEW step \in Steps
      PROVE  [Idle EXCEPT !.at = step] \in Req
  BY DEF Idle, Req
<1>d. ASSUME NEW p \in Requests, IsMessage(p)
      PROVE  Id(p) \in Ids /\ Tenant[Job[p]] \in Tenants
  BY <1>d, JobAssumption DEF IsMessage, Id
<1>1. ASSUME NEW p \in Requests, Deliver(p) \/ Upload(p) \/ Resolve(p) \/ Stored(p) \/ Claim(p)
      PROVE  TypeOK'
  <2>1. req' \in [Requests -> Req]
    BY <1>1, <1>b, <1>c DEF Deliver, Upload, Resolve, Stored, Claim, Steps
  <2>2. QED
    BY <1>1, <2>1 DEF Deliver, Upload, Resolve, Stored, Claim, TypeOK
<1>2. ASSUME NEW p \in Requests, ClaimUnroutable(p)
      PROVE  TypeOK'
  <2>1. req' \in [Requests -> Req]
    BY <1>2, <1>b, <1>c DEF ClaimUnroutable, Steps
  <2>2. claims' \subseteq ClaimRow
    BY <1>2, <1>d DEF ClaimUnroutable, StepKnows, TypeOK, ClaimRow
  <2>3. QED
    BY <1>2, <2>1, <2>2 DEF ClaimUnroutable, TypeOK
<1>3. ASSUME NEW p \in Requests, PutObject(p)
      PROVE  TypeOK'
  <2>1. [req[p] EXCEPT !.done = @ + 1] \in Req
    BY <1>a DEF Req
  <2>2. Attachments[Job[p]][req[p].done + 1] \in Digests
    BY <1>3, CurrentRow DEF PutObject
  <2>3. req' \in [Requests -> Req]
    BY <1>3, <1>b, <2>1 DEF PutObject
  <2>4. QED
    BY <1>3, <2>2, <2>3 DEF PutObject, TypeOK
<1>4. ASSUME NEW p \in Requests, InsertDocument(p)
      PROVE  TypeOK'
  <2>1. Current(p) \in Rows
    BY <1>4, CurrentRow DEF InsertDocument
  <2>2. [req[p] EXCEPT !.done = @ + 1,
                       !.new = @ \cup ({Current(p)} \ documents),
                       !.noted = @ \cup ({Current(p)} \ documents)] \in Req
    <3>1. /\ req[p].done + 1 \in Nat
          /\ req[p].new \cup ({Current(p)} \ documents) \in SUBSET Rows
          /\ req[p].noted \cup ({Current(p)} \ documents) \in SUBSET Rows
      BY <1>a, <2>1 DEF Req
    <3>2. /\ \A r \in Req, n \in Nat : [r EXCEPT !.done = n] \in Req
          /\ \A r \in Req, s \in SUBSET Rows : [r EXCEPT !.new = s] \in Req
          /\ \A r \in Req, s \in SUBSET Rows : [r EXCEPT !.noted = s] \in Req
      BY DEF Req
    <3>3. QED
      BY <1>a, <3>1, <3>2
  <2>a. Move(p, [req[p] EXCEPT !.done = @ + 1,
                               !.new = @ \cup ({Current(p)} \ documents),
                               !.noted = @ \cup ({Current(p)} \ documents)])
    BY <1>4 DEF InsertDocument
  <2>3. req' \in [Requests -> Req]
    BY <1>b, <2>2, <2>a
  <2>4. QED
    BY <1>4, <2>3 DEF InsertDocument, TypeOK
<1>5. ASSUME NEW p \in Requests, Commit(p)
      PROVE  TypeOK'
  <2>1. req' \in [Requests -> Req]
    BY <1>5, <1>b, <1>c DEF Commit, Steps
  <2>2. claims' \subseteq ClaimRow
    BY <1>5, <1>d DEF Commit, TypeOK, ClaimRow
  <2>3. req[p].new \subseteq Rows
    BY <1>a DEF Req
  <2>4. findings' \in [Rows -> Nat]
    BY <1>5 DEF Commit, TypeOK
  <2>5. QED
    BY <1>5, <2>1, <2>2, <2>3, <2>4 DEF Commit, TypeOK
<1>6. ASSUME NEW p \in Requests, Answer(p) \/ Fail(p) \/ DeadlockVictim(p)
      PROVE  TypeOK'
  <2>1. req' \in [Requests -> Req]
    BY <1>6, <1>b, IdleIsReq DEF Answer, Fail, DeadlockVictim, Drop
  <2>2. Job[p] \in Jobs
    BY JobAssumption
  <2>3. failures' \in 0..MaxFailures
    BY <1>6, JobAssumption DEF Answer, Fail, DeadlockVictim, TypeOK
  <2>4. QED
    BY <1>6, <2>1, <2>2, <2>3 DEF Answer, Fail, DeadlockVictim, TypeOK
<1>7. ASSUME NEW t \in Tenants, CreateInbox(t)
      PROVE  TypeOK'
  BY <1>7 DEF CreateInbox, TypeOK
<1>8. CASE UNCHANGED vars
  BY <1>8 DEF vars, TypeOK
<1>9. QED
  BY <1>1, <1>2, <1>3, <1>4, <1>5, <1>6, <1>7, <1>8 DEF Next, Handle

LEMMA TypeInit == Init => TypeOK
BY IdleIsReq, JobAssumption DEF Init, TypeOK

\* A step that goes on to another statement starts with nothing done.
LEMMA FreshReq ==
  ASSUME TypeOK, NEW q \in Requests,
         \/ Deliver(q) \/ Upload(q) \/ Resolve(q) \/ ClaimUnroutable(q)
         \/ Stored(q) \/ Claim(q) \/ Commit(q)
  PROVE  /\ req'[q].done = 0 /\ req'[q].new = {} /\ req'[q].noted = {}
         /\ Deliver(q) => req'[q].at = "delivered"
         /\ Upload(q) => req'[q].at = "storing"
         /\ Resolve(q) => req'[q].at \in {"storing", "unroutable"}
         /\ ClaimUnroutable(q) \/ Commit(q) => req'[q].at = "answering"
         /\ Stored(q) => req'[q].at = IF IsMessage(q) THEN "claiming" ELSE "inserting"
         /\ Claim(q) => req'[q].at = IF Claimed(Id(q)) THEN "answering" ELSE "inserting"
<1>1. req \in [Requests -> Req] /\ req[q] \in Req
  BY DEF TypeOK
<1>. USE <1>1 DEF Move, Idle
<1>2. Deliver(q) => /\ req'[q].done = 0 /\ req'[q].new = {} /\ req'[q].noted = {}
                    /\ req'[q].at = "delivered"
  BY DEF Deliver
<1>3. Upload(q) => /\ req'[q].done = 0 /\ req'[q].new = {} /\ req'[q].noted = {}
                   /\ req'[q].at = "storing"
  BY DEF Upload
<1>4. Resolve(q) => /\ req'[q].done = 0 /\ req'[q].new = {} /\ req'[q].noted = {}
                    /\ req'[q].at \in {"storing", "unroutable"}
  BY DEF Resolve
<1>5. ClaimUnroutable(q) \/ Commit(q) =>
        /\ req'[q].done = 0 /\ req'[q].new = {} /\ req'[q].noted = {}
        /\ req'[q].at = "answering"
  BY DEF ClaimUnroutable, Commit
<1>6. Stored(q) => /\ req'[q].done = 0 /\ req'[q].new = {} /\ req'[q].noted = {}
                   /\ req'[q].at = IF IsMessage(q) THEN "claiming" ELSE "inserting"
  BY DEF Stored
<1>7. Claim(q) => /\ req'[q].done = 0 /\ req'[q].new = {} /\ req'[q].noted = {}
                  /\ req'[q].at = IF Claimed(Id(q)) THEN "answering" ELSE "inserting"
  BY DEF Claim
<1>8. QED
  BY <1>2, <1>3, <1>4, <1>5, <1>6, <1>7

\* A step that deals with one attachment stays at its statement.
LEMMA NextAttachment ==
  ASSUME TypeOK, NEW q \in Requests, PutObject(q) \/ InsertDocument(q)
  PROVE  /\ req'[q].at = req[q].at
         /\ req'[q].done = req[q].done + 1
         /\ PutObject(q) => req[q].at = "storing" /\ req'[q].new = req[q].new
                            /\ req'[q].noted = req[q].noted
         /\ InsertDocument(q) =>
              /\ req[q].at = "inserting"
              /\ req'[q].new = req[q].new \cup ({Current(q)} \ documents)
              /\ req'[q].noted = req[q].noted \cup ({Current(q)} \ documents)
<1>1. req \in [Requests -> Req] /\ req[q] \in Req
  BY DEF TypeOK
<1>. USE <1>1 DEF Move, Req
<1>2. PutObject(q) =>
        /\ req'[q].at = req[q].at /\ req'[q].done = req[q].done + 1
        /\ req[q].at = "storing" /\ req'[q].new = req[q].new /\ req'[q].noted = req[q].noted
  BY DEF PutObject
<1>3. InsertDocument(q) =>
        /\ req'[q].at = req[q].at /\ req'[q].done = req[q].done + 1
        /\ req[q].at = "inserting"
        /\ req'[q].new = req[q].new \cup ({Current(q)} \ documents)
        /\ req'[q].noted = req[q].noted \cup ({Current(q)} \ documents)
  BY DEF InsertDocument
<1>4. ~(PutObject(q) /\ InsertDocument(q))
  BY DEF PutObject, InsertDocument
<1>5. QED
  BY <1>2, <1>3, <1>4

LEMMA IdleIs == Idle.at = "idle" /\ Idle.done = 0 /\ Idle.new = {} /\ Idle.noted = {}
BY DEF Idle

LEMMA CountIsNat == \A q \in Requests : Count(q) \in Nat /\ 0 <= Count(q)
BY JobAssumption DEF Count

-----------------------------------------------------------------------------
(* The parts of the invariant, one by one. *)

LEMMA StepKnowsStep ==
  ASSUME TypeOK, StepKnows, [Next]_vars
  PROVE  StepKnows'
<1>. SUFFICES ASSUME NEW q \in Requests
              PROVE  /\ req'[q].done <= Count(q)
                     /\ req'[q].at \in {"delivered", "unroutable", "claiming"} => IsMessage(q)
                     /\ req'[q].at # "inserting" => req'[q].new = {}
                     /\ req'[q].noted = req'[q].new
  BY DEF StepKnows, Count, IsMessage
<1>a. 0 <= Count(q)
  BY CountIsNat
<1>b. /\ req[q].done <= Count(q)
      /\ req[q].at \in {"delivered", "unroutable", "claiming"} => IsMessage(q)
      /\ req[q].at # "inserting" => req[q].new = {}
      /\ req[q].noted = req[q].new
  BY DEF StepKnows
<1>1. CASE req'[q] = req[q]
  BY <1>1, <1>b
<1>2. CASE req'[q] = Idle
  BY <1>2, <1>a, IdleIs
<1>3. CASE \/ Deliver(q) \/ Upload(q) \/ Resolve(q) \/ ClaimUnroutable(q)
           \/ Stored(q) \/ Claim(q) \/ Commit(q)
  <2>1. req'[q].done = 0 /\ req'[q].new = {} /\ req'[q].noted = {}
    BY <1>3, FreshReq
  <2>2. CASE Deliver(q)
    BY <2>1, <2>2, <1>a DEF Deliver, IsMessage
  <2>3. CASE Resolve(q)
    BY <2>1, <2>3, <1>a, <1>b DEF Resolve
  <2>4. CASE Upload(q) \/ Stored(q) \/ Claim(q) \/ ClaimUnroutable(q) \/ Commit(q)
    <3>1. req'[q].at \in {"delivered", "unroutable", "claiming"} => IsMessage(q)
      BY <2>4, FreshReq
    <3>2. QED
      BY <2>1, <3>1, <1>a
  <2>5. QED
    BY <1>3, <2>2, <2>3, <2>4
<1>4. CASE PutObject(q) \/ InsertDocument(q)
  <2>1. req[q].done + 1 <= Count(q)
    <3>1. Pending(q)
      BY <1>4 DEF PutObject, InsertDocument
    <3>2. req[q].done + 1 \in 1..Count(q)
      BY <3>1, CurrentRow
    <3>3. QED
      BY <3>2
  <2>2. req'[q].done <= Count(q)
    BY <2>1, <1>4, NextAttachment
  <2>3. /\ req'[q].at = req[q].at
        /\ req'[q].at # "inserting" => req'[q].new = {}
        /\ req'[q].noted = req'[q].new
    BY <1>4, <1>b, NextAttachment
  <2>4. QED
    BY <1>b, <2>2, <2>3
<1>5. QED
  BY <1>1, <1>2, <1>3, <1>4, ReqStep

LEMMA StoredFirstStep ==
  ASSUME TypeOK, StoredFirst, [Next]_vars
  PROVE  StoredFirst'
<1>. SUFFICES ASSUME NEW q \in Requests
              PROVE  /\ req'[q].at = "storing" =>
                          \A i \in 1..req'[q].done : Attachments[Job[q]][i] \in objects'
                     /\ req'[q].at \in {"claiming", "inserting"} =>
                          \A i \in 1..Count(q) : Attachments[Job[q]][i] \in objects'
  BY DEF StoredFirst, Count
<1>a. Count(q) \in Nat /\ req[q].done \in Nat
  BY CountIsNat DEF TypeOK, Req
<1>b. objects \subseteq objects'
  BY ObjectsGrow
<1>c. /\ req[q].at = "storing" =>
           \A i \in 1..req[q].done : Attachments[Job[q]][i] \in objects
      /\ req[q].at \in {"claiming", "inserting"} =>
           \A i \in 1..Count(q) : Attachments[Job[q]][i] \in objects
  BY DEF StoredFirst
<1>1. CASE req'[q] = req[q]
  BY <1>1, <1>b, <1>c
<1>2. CASE req'[q] = Idle
  BY <1>2, IdleIs
<1>3. CASE Deliver(q) \/ Upload(q) \/ Resolve(q) \/ ClaimUnroutable(q) \/ Commit(q)
  <2>1. req'[q].done = 0 /\ req'[q].at \in {"delivered", "storing", "unroutable", "answering"}
    BY <1>3, FreshReq
  <2>2. QED
    BY <2>1
<1>4. CASE PutObject(q)
  <2>1. objects' = objects \cup {Attachments[Job[q]][req[q].done + 1]}
    BY <1>4 DEF PutObject
  <2>2. req[q].at = "storing" /\ req'[q].at = "storing" /\ req'[q].done = req[q].done + 1
    BY <1>4, NextAttachment
  <2>3. \A i \in 1..(req[q].done + 1) : i \in 1..req[q].done \/ i = req[q].done + 1
    BY <1>a
  <2>4. \A i \in 1..req'[q].done : Attachments[Job[q]][i] \in objects'
    BY <1>c, <2>1, <2>2, <2>3
  <2>5. QED
    BY <2>2, <2>4
<1>5. CASE Stored(q)
  <2>1. req[q].at = "storing" /\ ~(req[q].done < Count(q))
    BY <1>5 DEF Stored, Pending
  <2>2. \A i \in 1..Count(q) : i \in 1..req[q].done
    BY <1>a, <2>1
  <2>3. \A i \in 1..Count(q) : Attachments[Job[q]][i] \in objects'
    BY <1>b, <1>c, <2>1, <2>2
  <2>4. req'[q].at # "storing"
    BY <1>5, FreshReq
  <2>5. QED
    BY <2>3, <2>4
<1>6. CASE Claim(q)
  <2>1. req[q].at = "claiming" /\ req'[q].at # "storing"
    BY <1>6, FreshReq DEF Claim
  <2>2. QED
    BY <2>1, <1>b, <1>c
<1>7. CASE InsertDocument(q)
  <2>1. req[q].at = "inserting" /\ req'[q].at = "inserting"
    BY <1>7, NextAttachment
  <2>2. QED
    BY <2>1, <1>b, <1>c
<1>8. QED
  BY <1>1, <1>2, <1>3, <1>4, <1>5, <1>6, <1>7, ReqStep

LEMMA OthersStay ==
  ASSUME TypeOK, NEW p \in Requests, NEW q \in Requests, p # q,
         Deliver(p) \/ Upload(p) \/ Handle(p) \/ Fail(p) \/ DeadlockVictim(p)
  PROVE  req'[q] = req[q]
<1>1. req \in [Requests -> Req]
  BY DEF TypeOK
<1>2. \A r : Move(p, r) => req'[q] = req[q]
  BY <1>1 DEF Move
<1>3. QED
  BY <1>2 DEF Drop, Deliver, Upload, Handle, Resolve, ClaimUnroutable, PutObject, Stored,
              Claim, InsertDocument, Commit, Answer, Fail, DeadlockVictim

\* A step takes no lock unless it is Claim or InsertDocument.
LEMMA NoLockTaken ==
  ASSUME TypeOK, StepKnows, LocksAreExclusive, claims' = claims, documents' = documents,
         \A q \in Requests : /\ req'[q].new \subseteq req[q].new
                             /\ req'[q].at = "inserting" /\ IsMessage(q)
                                  => req[q].at = "inserting"
  PROVE  LocksAreExclusive'
BY DEF LocksAreExclusive, HoldsClaim, Claimed

LEMMA LocksStep ==
  ASSUME TypeOK, StepKnows, LocksAreExclusive, [Next]_vars
  PROVE  LocksAreExclusive'
<1>. USE DEF db
<1>1. ASSUME NEW p \in Requests,
             \/ Deliver(p) \/ Upload(p) \/ Resolve(p) \/ PutObject(p) \/ Stored(p)
             \/ Answer(p) \/ Fail(p) \/ DeadlockVictim(p)
      PROVE  LocksAreExclusive'
  <2>1. claims' = claims /\ documents' = documents
    BY <1>1 DEF Deliver, Upload, Resolve, PutObject, Stored, Answer, Fail, DeadlockVictim
  <2>2. ASSUME NEW q \in Requests, q # p
        PROVE  req'[q] = req[q]
    BY <1>1, <2>2, OthersStay DEF Handle
  <2>3. req'[p].new \subseteq req[p].new
    <3>1. CASE Deliver(p) \/ Upload(p) \/ Resolve(p) \/ Stored(p)
      BY <3>1, FreshReq
    <3>2. CASE PutObject(p)
      BY <3>2, NextAttachment
    <3>3. CASE Answer(p) \/ Fail(p) \/ DeadlockVictim(p)
      <4>1. req'[p] = Idle
        BY <3>3 DEF Answer, Fail, DeadlockVictim, Drop, Move, TypeOK
      <4>2. QED
        BY <4>1, IdleIs
    <3>4. QED
      BY <1>1, <3>1, <3>2, <3>3
  <2>4. req'[p].at = "inserting" /\ IsMessage(p) => req[p].at = "inserting"
    <3>1. CASE Deliver(p) \/ Upload(p) \/ Resolve(p) \/ Stored(p)
      BY <3>1, FreshReq
    <3>2. CASE PutObject(p)
      BY <3>2, NextAttachment
    <3>3. CASE Answer(p) \/ Fail(p) \/ DeadlockVictim(p)
      <4>1. req'[p] = Idle
        BY <3>3 DEF Answer, Fail, DeadlockVictim, Drop, Move, TypeOK
      <4>2. QED
        BY <4>1, IdleIs
    <3>4. QED
      BY <1>1, <3>1, <3>2, <3>3
  <2>5. QED
    BY <2>1, <2>2, <2>3, <2>4, NoLockTaken
<1>2. ASSUME NEW p \in Requests, ClaimUnroutable(p)
      PROVE  LocksAreExclusive'
  <2>1. ASSUME NEW q \in Requests
        PROVE  req'[q] = req[q] \/ (req'[q].new = {} /\ req'[q].at = "answering")
    BY <1>2, FreshReq, OthersStay DEF Handle
  <2>2. \A h \in Requests : ~HoldsClaim(h, Id(p))
    BY <1>2 DEF ClaimUnroutable, Waits, WaitsFor
  <2>3. \A id : Claimed(id)' => Claimed(id) \/ id = Id(p)
    BY <1>2 DEF ClaimUnroutable, Claimed
  <2>4. documents' = documents
    BY <1>2 DEF ClaimUnroutable
  <2>5. QED
    BY <2>1, <2>2, <2>3, <2>4 DEF LocksAreExclusive, HoldsClaim
<1>3. ASSUME NEW p \in Requests, Claim(p)
      PROVE  LocksAreExclusive'
  <2>1. claims' = claims /\ documents' = documents
    BY <1>3 DEF Claim
  <2>2. \A q \in Requests : q # p => req'[q] = req[q]
    BY <1>3, OthersStay DEF Handle
  <2>3. req'[p].new = {} /\ (req'[p].at = "inserting" => ~Claimed(Id(p)))
    BY <1>3, FreshReq
  <2>4. \A h \in Requests : ~HoldsClaim(h, Id(p))
    BY <1>3 DEF Claim, Waits, WaitsFor
  <2>5. QED
    BY <2>1, <2>2, <2>3, <2>4 DEF LocksAreExclusive, HoldsClaim, Claimed
<1>4. ASSUME NEW p \in Requests, InsertDocument(p)
      PROVE  LocksAreExclusive'
  <2>1. claims' = claims /\ documents' = documents
    BY <1>4 DEF InsertDocument
  <2>2. \A q \in Requests : q # p => req'[q] = req[q]
    BY <1>4, OthersStay DEF Handle
  <2>3. /\ req[p].at = "inserting" /\ req'[p].at = "inserting"
        /\ req'[p].new = req[p].new \cup ({Current(p)} \ documents)
    BY <1>4, NextAttachment
  <2>4. \A h \in Requests : h # p => Current(p) \notin req[h].new
    BY <1>4 DEF InsertDocument, Waits, WaitsFor
  <2>5. QED
    BY <2>1, <2>2, <2>3, <2>4 DEF LocksAreExclusive, HoldsClaim, Claimed
<1>5. ASSUME NEW p \in Requests, Commit(p)
      PROVE  LocksAreExclusive'
  <2>1. \A q \in Requests : q # p => req'[q] = req[q]
    BY <1>5, OthersStay DEF Handle
  <2>2. req'[p].new = {} /\ req'[p].at = "answering"
    BY <1>5, FreshReq
  <2>3. req[p].at = "inserting" /\ documents' = documents \cup req[p].new
    BY <1>5 DEF Commit
  <2>4. \A id : Claimed(id)' => Claimed(id) \/ (IsMessage(p) /\ id = Id(p))
    BY <1>5 DEF Commit, Claimed
  <2>5. QED
    BY <2>1, <2>2, <2>3, <2>4 DEF LocksAreExclusive, HoldsClaim
<1>6. CASE (\E t \in Tenants : CreateInbox(t)) \/ UNCHANGED vars
  BY <1>6, NoLockTaken DEF CreateInbox, vars
<1>7. QED
  BY <1>1, <1>2, <1>3, <1>4, <1>5, <1>6 DEF Next, Handle

\* What a commit finds: all rows of its job are there, or are its own.
LEMMA CommitHasRows ==
  ASSUME TypeOK, InsertedSoFar, NEW q \in Requests, Commit(q)
  PROVE  /\ req[q].new \subseteq RowsOf(Job[q])
         /\ RowsOf(Job[q]) \subseteq documents \cup req[q].new
         /\ documents' = documents \cup req[q].new
<1>1. req[q].at = "inserting" /\ ~(req[q].done < Count(q))
  BY DEF Commit, Pending
<1>2. Count(q) \in Nat /\ req[q].done \in Nat
  BY CountIsNat DEF TypeOK, Req
<1>3. \A i \in 1..Count(q) : i \in 1..req[q].done
  BY <1>1, <1>2
<1>4. QED
  BY <1>1, <1>3 DEF InsertedSoFar, RowsOf, Count, Commit

LEMMA RecordedStep ==
  ASSUME TypeOK, StoredFirst, InsertedSoFar, RecordedIsStored, [Next]_vars
  PROVE  RecordedIsStored'
<1>a. objects \subseteq objects'
  BY ObjectsGrow
<1>1. CASE documents' = documents
  BY <1>1, <1>a DEF RecordedIsStored
<1>2. ASSUME NEW q \in Requests, Commit(q)
      PROVE  RecordedIsStored'
  <2>1. \A i \in 1..Count(q) : Attachments[Job[q]][i] \in objects
    BY <1>2 DEF Commit, StoredFirst
  <2>2. \A r \in RowsOf(Job[q]) : r[2] \in objects
    BY <2>1 DEF RowsOf, RowOf, Count
  <2>3. documents' = documents \cup req[q].new /\ req[q].new \subseteq RowsOf(Job[q])
    BY <1>2, CommitHasRows
  <2>4. QED
    BY <1>a, <2>2, <2>3 DEF RecordedIsStored
<1>3. QED
  BY <1>1, <1>2, WriteStep DEF db, ClaimUnroutable

LEMMA InsertedStep ==
  ASSUME TypeOK, InsertedSoFar, [Next]_vars
  PROVE  InsertedSoFar'
<1>. SUFFICES ASSUME NEW q \in Requests, req'[q].at = "inserting"
              PROVE  /\ req'[q].new \subseteq RowsOf(Job[q])
                     /\ \A i \in 1..req'[q].done :
                          RowOf(Job[q], Attachments[Job[q]][i]) \in documents' \cup req'[q].new
  BY DEF InsertedSoFar, RowsOf, RowOf
<1>a. documents \subseteq documents'
  BY TablesGrow
<1>1. CASE req'[q] = req[q]
  BY <1>1, <1>a DEF InsertedSoFar
<1>2. CASE req'[q] = Idle
  BY <1>2, IdleIs
<1>3. CASE \/ Deliver(q) \/ Upload(q) \/ Resolve(q) \/ ClaimUnroutable(q)
           \/ Stored(q) \/ Claim(q) \/ Commit(q)
  <2>1. req'[q].new = {} /\ req'[q].done = 0
    BY <1>3, FreshReq
  <2>2. QED
    BY <2>1
<1>4. CASE PutObject(q)
  BY <1>4, NextAttachment
<1>5. CASE InsertDocument(q)
  <2>1. /\ req[q].at = "inserting" /\ req'[q].done = req[q].done + 1
        /\ req'[q].new = req[q].new \cup ({Current(q)} \ documents)
    BY <1>5, NextAttachment
  <2>2. /\ Current(q) = RowOf(Job[q], Attachments[Job[q]][req[q].done + 1])
        /\ Current(q) \in RowsOf(Job[q])
    BY <1>5, CurrentRow DEF InsertDocument
  <2>3. req[q].done \in Nat
    BY DEF TypeOK, Req
  <2>4. \A i \in 1..(req[q].done + 1) : i \in 1..req[q].done \/ i = req[q].done + 1
    BY <2>3
  <2>5. /\ req[q].new \subseteq RowsOf(Job[q])
        /\ \A i \in 1..req[q].done :
             RowOf(Job[q], Attachments[Job[q]][i]) \in documents \cup req[q].new
    BY <2>1 DEF InsertedSoFar
  <2>6. \A i \in 1..req'[q].done :
          RowOf(Job[q], Attachments[Job[q]][i]) \in documents' \cup req'[q].new
    BY <1>a, <2>1, <2>2, <2>4, <2>5
  <2>7. QED
    BY <2>1, <2>2, <2>5, <2>6
<1>6. QED
  BY <1>1, <1>2, <1>3, <1>4, <1>5, ReqStep

LEMMA FindingsStep ==
  ASSUME TypeOK, StepKnows, LocksAreExclusive, FindingsOnce, [Next]_vars
  PROVE  FindingsOnce'
<1>1. CASE UNCHANGED <<documents, findings>>
  BY <1>1 DEF FindingsOnce
<1>2. ASSUME NEW q \in Requests, Commit(q), NEW r \in Rows
      PROVE  findings'[r] = IF r \in documents' THEN 1 ELSE 0
  <2>1. documents' = documents \cup req[q].new
    BY <1>2 DEF Commit
  <2>2. findings'[r] = IF r \in req[q].new THEN findings[r] + 1 ELSE findings[r]
    BY <1>2 DEF Commit, StepKnows
  <2>3. req[q].new \cap documents = {}
    BY DEF LocksAreExclusive
  <2>4. QED
    BY <2>1, <2>2, <2>3 DEF FindingsOnce
<1>3. QED
  BY <1>1, <1>2, WriteStep DEF db, ClaimUnroutable, FindingsOnce, Rows

-----------------------------------------------------------------------------
(* What was answered. *)

LEMMA SettledStays ==
  ASSUME NEW j, Settled(j), [Next]_vars
  PROVE  Settled(j)'
BY TablesGrow DEF Settled, Claimed, RowsOf, RowOf

LEMMA AnswersStep ==
  ASSUME TypeOK, StepKnows, InsertedSoFar, AnswersAreCommitted, [Next]_vars
  PROVE  AnswersAreCommitted'
<1>1. ASSUME NEW q \in Requests, req'[q].at = "answering"
      PROVE  Settled(Job[q])'
  <2>1. CASE req'[q] = req[q]
    BY <1>1, <2>1, SettledStays DEF AnswersAreCommitted
  <2>2. CASE req'[q] = Idle
    BY <1>1, <2>2, IdleIs
  <2>3. CASE Deliver(q) \/ Upload(q) \/ Resolve(q) \/ Stored(q)
    BY <1>1, <2>3, FreshReq
  <2>4. CASE PutObject(q) \/ InsertDocument(q)
    BY <1>1, <2>4, NextAttachment
  <2>5. CASE ClaimUnroutable(q)
    <3>1. IsMessage(q)
      BY <2>5 DEF ClaimUnroutable, StepKnows
    <3>2. Claimed(Id(q))'
      <4>1. CASE Claimed(Id(q))
        BY <2>5, <4>1 DEF ClaimUnroutable, Claimed
      <4>2. CASE ~Claimed(Id(q))
        <5>1. [id |-> Id(q), tenant |-> {}] \in claims'
          BY <2>5, <4>2 DEF ClaimUnroutable
        <5>2. \E c \in claims' : c.id = Id(q)
          BY <5>1
        <5>3. QED
          BY <5>2 DEF Claimed, Id
      <4>3. QED
        BY <4>1, <4>2
    <3>3. QED
      BY <3>1, <3>2, JobAssumption DEF Settled, IsMessage, Id, Claimed
  <2>6. CASE Claim(q)
    <3>1. IsMessage(q)
      BY <2>6 DEF Claim, StepKnows
    <3>2. Claimed(Id(q))
      BY <1>1, <2>6, FreshReq
    <3>3. Settled(Job[q])
      BY <3>1, <3>2, JobAssumption DEF Settled, IsMessage, Id
    <3>4. QED
      BY <3>3, SettledStays
  <2>7. CASE Commit(q)
    <3>1. RowsOf(Job[q]) \subseteq documents'
      BY <2>7, CommitHasRows
    <3>2. ASSUME IsMessage(q)
          PROVE  Claimed(Id(q))'
      <4>1. [id |-> Id(q), tenant |-> {Tenant[Job[q]]}] \in claims'
        BY <2>7, <3>2 DEF Commit
      <4>2. \E c \in claims' : c.id = Id(q)
        BY <4>1
      <4>3. QED
        BY <4>2 DEF Claimed, Id
    <3>3. QED
      BY <3>1, <3>2 DEF Settled, IsMessage, Id, Claimed, RowsOf, RowOf
  <2>8. QED
    BY <2>1, <2>2, <2>3, <2>4, <2>5, <2>6, <2>7, ReqStep
<1>2. acked' = acked \/ \E q \in Requests : req[q].at = "answering" /\ acked' = acked \cup {Job[q]}
  BY DEF Next, Handle, Deliver, Upload, Resolve, ClaimUnroutable, PutObject, Stored, Claim,
         InsertDocument, Commit, Answer, Fail, DeadlockVictim, CreateInbox, vars
<1>3. ASSUME NEW j \in acked'
      PROVE  Settled(j)'
  <2>1. j \in acked \/ \E q \in Requests : req[q].at = "answering" /\ j = Job[q]
    BY <1>2, <1>3
  <2>2. Settled(j)
    BY <2>1 DEF AnswersAreCommitted
  <2>3. QED
    BY <2>2, SettledStays
<1>4. QED
  BY <1>1, <1>3 DEF AnswersAreCommitted

LEMMA ClaimsStep ==
  ASSUME TypeOK, InsertedSoFar, ClaimsAreRecorded, [Next]_vars
  PROVE  ClaimsAreRecorded'
<1>a. documents \subseteq documents'
  BY TablesGrow
<1>1. ASSUME NEW c \in claims', NEW t \in c.tenant
      PROVE  \E n \in Messages :
               MessageId[n] = c.id /\ Tenant[n] = t /\ RowsOf(n) \subseteq documents'
  <2>1. CASE c \in claims
    BY <1>1, <1>a, <2>1 DEF ClaimsAreRecorded
  <2>2. ASSUME NEW q \in Requests, ClaimUnroutable(q), c \notin claims
        PROVE  FALSE
    <3>1. c = [id |-> Id(q), tenant |-> {}]
      BY <1>1, <2>2 DEF ClaimUnroutable
    <3>2. QED
      BY <1>1, <3>1
  <2>3. ASSUME NEW q \in Requests, Commit(q), c \notin claims
        PROVE  \E n \in Messages :
                 MessageId[n] = c.id /\ Tenant[n] = t /\ RowsOf(n) \subseteq documents'
    <3>1. IsMessage(q) /\ c = [id |-> Id(q), tenant |-> {Tenant[Job[q]]}]
      BY <1>1, <2>3 DEF Commit
    <3>2. Job[q] \in Messages /\ MessageId[Job[q]] = c.id /\ Tenant[Job[q]] = t
      BY <1>1, <3>1 DEF IsMessage, Id
    <3>3. RowsOf(Job[q]) \subseteq documents'
      BY <2>3, CommitHasRows
    <3>4. QED
      BY <3>2, <3>3
  <2>4. QED
    BY <1>1, <2>1, <2>2, <2>3, WriteStep DEF db
<1>2. QED
  BY <1>1 DEF ClaimsAreRecorded, RowsOf, RowOf

LEMMA UnarchivedStep ==
  ASSUME TypeOK, InsertedSoFar, UnarchivedCameByMail, [Next]_vars
  PROVE  UnarchivedCameByMail'
<1>a. claims \subseteq claims' /\ archived \subseteq archived'
  BY TablesGrow
<1>1. ASSUME NEW r \in documents' \ archived'
      PROVE  \E m \in Messages, c \in claims' : c.id = MessageId[m] /\ r \in RowsOf(m)
  <2>1. CASE r \in documents
    BY <1>1, <1>a, <2>1 DEF UnarchivedCameByMail
  <2>2. ASSUME NEW q \in Requests, Commit(q), r \notin documents
        PROVE  \E m \in Messages, c \in claims' : c.id = MessageId[m] /\ r \in RowsOf(m)
    <3>1. r \in req[q].new /\ r \in RowsOf(Job[q])
      BY <1>1, <2>2, CommitHasRows
    <3>2. IsMessage(q)
      BY <1>1, <2>2, <3>1 DEF Commit
    <3>3. [id |-> Id(q), tenant |-> {Tenant[Job[q]]}] \in claims'
      BY <2>2, <3>2 DEF Commit
    <3>4. QED
      BY <3>1, <3>2, <3>3 DEF IsMessage, Id
  <2>3. QED
    BY <1>1, <2>1, <2>2, WriteStep DEF db, ClaimUnroutable
<1>2. QED
  BY <1>1 DEF UnarchivedCameByMail, RowsOf, RowOf

-----------------------------------------------------------------------------
(* The invariant, and what follows from it. *)

LEMMA InitInv == Init => IInv
<1>. SUFFICES ASSUME Init PROVE IInv
  OBVIOUS
<1>1. \A q \in Requests : req[q].at = "idle" /\ req[q].done = 0 /\ req[q].new = {} /\ req[q].noted = {}
  BY IdleIs DEF Init
<1>2. StepKnows
  BY <1>1, CountIsNat DEF StepKnows
<1>3. StoredFirst /\ InsertedSoFar
  BY <1>1 DEF StoredFirst, InsertedSoFar
<1>4. LocksAreExclusive
  BY <1>1 DEF LocksAreExclusive, HoldsClaim
<1>5. RecordedIsStored /\ FindingsOnce /\ ClaimsAreRecorded /\ UnarchivedCameByMail
  BY DEF Init, RecordedIsStored, FindingsOnce, ClaimsAreRecorded, UnarchivedCameByMail
<1>6. AnswersAreCommitted
  BY <1>1 DEF Init, AnswersAreCommitted
<1>7. QED
  BY <1>2, <1>3, <1>4, <1>5, <1>6, TypeInit DEF IInv

LEMMA StepInv == IInv /\ [Next]_vars => IInv'
BY TypeStep, StepKnowsStep, LocksStep, StoredFirstStep, RecordedStep, InsertedStep,
   FindingsStep, AnswersStep, ClaimsStep, UnarchivedStep DEF IInv

LEMMA Invariant == Spec => []IInv
BY InitInv, StepInv, PTL DEF Spec

\* Every reachable state is well typed, with any number of requests at a time.
THEOREM TypeCorrect == Spec => []TypeOK
<1>1. IInv => TypeOK
  BY DEF IInv
<1>2. QED
  BY <1>1, Invariant, PTL

\* Two open transactions never hold the same claim or row, and what an open
\* transaction holds is not in the tables: the unique indexes do for any
\* interleaving what the code relies on (postgres-store.ts, documents.ts).
THEOREM LocksExclude == Spec => []LocksAreExclusive
<1>1. IInv => LocksAreExclusive
  BY DEF IInv
<1>2. QED
  BY <1>1, Invariant, PTL

\* No row without its bytes, as objects are written before the transaction
\* begins and are never removed; and findings are written once for each
\* document, whoever brings it.
THEOREM RecordedOnceAndStored == Spec => []RecordedOnce
<1>1. IInv => RecordedOnce
  BY DEF IInv, RecordedOnce
<1>2. QED
  BY <1>1, Invariant, PTL

\* An answered message is claimed, and with a tenant's claim the documents of
\* a message of that id are recorded for that tenant.
THEOREM AckedRecorded == Spec => []AckedIsRecorded
<1>1. ASSUME IInv
      PROVE  AckedIsRecorded
  <2>1. ASSUME NEW m \in acked \cap Messages
        PROVE  \E c \in claims :
                 /\ c.id = MessageId[m]
                 /\ \A t \in c.tenant : \E n \in Messages :
                      MessageId[n] = c.id /\ Tenant[n] = t /\ RowsOf(n) \subseteq documents
    <3>1. PICK c \in claims : c.id = MessageId[m]
      BY <1>1, <2>1 DEF IInv, AnswersAreCommitted, Settled, Claimed
    <3>2. QED
      BY <1>1, <3>1 DEF IInv, ClaimsAreRecorded
  <2>2. QED
    BY <2>1 DEF AckedIsRecorded
<1>2. QED
  BY <1>1, Invariant, PTL

\* An answered upload is recorded, and each of its rows is archived unless a
\* claimed message carries the same file.
THEOREM UploadRecordedAndArchived == Spec => []UploadIsRecordedAndArchived
<1>1. ASSUME IInv
      PROVE  UploadIsRecordedAndArchived
  <2>1. ASSUME NEW u \in acked \cap Uploads
        PROVE  RowsOf(u) \subseteq documents
    BY <1>1, <2>1 DEF IInv, AnswersAreCommitted, Settled
  <2>2. QED
    BY <1>1, <2>1 DEF IInv, UnarchivedCameByMail, UploadIsRecordedAndArchived
<1>2. QED
  BY <1>1, Invariant, PTL

-----------------------------------------------------------------------------
(* The concurrent requests implement the atomic inbox. *)

LEMMA InitSimulates == Init => Promise!Init
BY DEF Init, Promise!Init, Rows

LEMMA CommitSimulates ==
  ASSUME IInv, NEW q \in Requests, Commit(q)
  PROVE  Promise!Next
<1>. DEFINE j == Job[q]
<1>a. TypeOK /\ StepKnows /\ InsertedSoFar /\ LocksAreExclusive
  BY DEF IInv
<1>b. j \in Messages \/ j \in Uploads
  BY JobAssumption DEF Jobs
<1>1. Promise!Received(j) = RowsOf(j)
  BY DEF Promise!Received, RowsOf, RowOf
<1>2. req[q].new \subseteq RowsOf(j) /\ RowsOf(j) \subseteq documents \cup req[q].new
  BY <1>a, CommitHasRows
<1>3. req[q].new = RowsOf(j) \ documents
  BY <1>a, <1>2 DEF LocksAreExclusive
<1>4. Promise!Write(RowsOf(j))
  <2>1. documents' = documents \cup RowsOf(j)
    BY <1>3 DEF Commit
  <2>2. findings' = [r \in Tenants \X Digests |->
                       IF r \in RowsOf(j) \ documents THEN findings[r] + 1 ELSE findings[r]]
    BY <1>a, <1>3 DEF Commit, StepKnows, Rows
  <2>3. QED
    BY <2>1, <2>2 DEF Promise!Write
<1>5. CASE j \in Messages
  <2>1. IsMessage(q) /\ HoldsClaim(q, Id(q))
    BY <1>5 DEF Commit, IsMessage, HoldsClaim
  <2>2. Promise!Unclaimed(j)
    BY <1>a, <2>1 DEF LocksAreExclusive, Claimed, Promise!Unclaimed, Id
  <2>3. claims' = claims \cup {[id |-> MessageId[j], tenant |-> {Tenant[j]}]} /\ archived' = archived
    BY <2>1 DEF Commit, Id
  <2>4. Promise!Receive(j)
    BY <1>1, <1>4, <2>2, <2>3 DEF Promise!Receive
  <2>5. QED
    BY <1>5, <2>4 DEF Promise!Next
<1>6. CASE j \in Uploads
  <2>1. ~IsMessage(q)
    BY <1>6, JobAssumption DEF IsMessage
  <2>2. claims' = claims /\ archived' = archived \cup req[q].new
    BY <2>1 DEF Commit
  <2>3. Promise!TakeUpload(j)
    BY <1>1, <1>3, <1>4, <2>2 DEF Promise!TakeUpload
  <2>4. QED
    BY <1>6, <2>3 DEF Promise!Next
<1>7. QED
  BY <1>b, <1>5, <1>6

LEMMA UnroutableSimulates ==
  ASSUME IInv, NEW q \in Requests, ClaimUnroutable(q)
  PROVE  [Promise!Next]_(Promise!vars)
<1>1. UNCHANGED <<documents, findings, archived>>
  BY DEF ClaimUnroutable
<1>2. Job[q] \in Messages
  BY DEF IInv, StepKnows, IsMessage, ClaimUnroutable
<1>3. CASE Claimed(Id(q))
  BY <1>1, <1>3 DEF ClaimUnroutable, Promise!vars
<1>4. CASE ~Claimed(Id(q))
  <2>1. Promise!Unclaimed(Job[q])
    BY <1>4 DEF Claimed, Promise!Unclaimed, Id
  <2>2. Promise!SetAside(Job[q])
    BY <1>1, <1>4, <2>1 DEF ClaimUnroutable, Promise!SetAside, Id
  <2>3. QED
    BY <1>2, <2>2 DEF Promise!Next
<1>5. QED
  BY <1>3, <1>4

\* Every commit is one step of the atomic inbox, and no other step shows: a
\* reader of the tables cannot tell concurrent, failing, repeated requests from
\* messages that are received one after another.
THEOREM InboxImplemented == Spec => ImplementsInbox
<1>1. IInv /\ [Next]_vars => [Promise!Next]_(Promise!vars)
  <2>. SUFFICES ASSUME IInv, [Next]_vars PROVE [Promise!Next]_(Promise!vars)
    OBVIOUS
  <2>1. CASE UNCHANGED db
    BY <2>1 DEF db, Promise!vars
  <2>2. QED
    BY <2>1, WriteStep, CommitSimulates, UnroutableSimulates
<1>2. QED
  BY <1>1, InitSimulates, Invariant, PTL DEF Spec, ImplementsInbox, Promise!Spec
=============================================================================
