------------------------------- MODULE Ingest -------------------------------
(***************************************************************************)
(* How documents get in: the worker's webhook, and the API's upload.       *)
(*                                                                         *)
(* A webhook request runs PostgresDocumentStore.ingest                     *)
(* (apps/worker/src/postgres-store.ts): it resolves the inbox, writes every *)
(* attachment to the object store, validates, and then in one READ         *)
(* COMMITTED transaction claims the message id, inserts the document rows  *)
(* with their findings and commits.  An upload (apps/api/src/upload.ts)    *)
(* does the same without an inbox and a claim, and archives what it        *)
(* inserted.  Each query and each object store call is an action.          *)
(*                                                                         *)
(* An INSERT ... ON CONFLICT DO NOTHING that meets an uncommitted row of   *)
(* another transaction waits until that transaction has ended: an action   *)
(* that has to wait is not enabled, and a cycle of waiting transactions is *)
(* broken by PostgreSQL, which aborts one of them.                         *)
(*                                                                         *)
(* The provider delivers a message again until it has an answer, and does  *)
(* not wait for the first delivery to end: several requests may work on    *)
(* one message.  ingestMessage is pure: what it finds in a message, in     *)
(* which order and without duplicates, is the constant Attachments.        *)
(***************************************************************************)
EXTENDS Integers, Sequences, FiniteSets

CONSTANTS
  Messages,     \* e-mails, one for each envelope recipient
  Uploads,      \* files handed to POST /v1/documents/upload
  Digests,      \* SHA-256 digests of attachments
  Tenants,
  Ids,          \* values of (provider, provider_message_id)
  Requests,     \* requests that can be in flight together
  Job,          \* the message or upload a request is about
  Attachments,  \* its recognised attachments, as digests
  Tenant,       \* the tenant of its inbox, or of its session
  MessageId,    \* the id a message is claimed under
  MaxFailures   \* bound on the requests that fail or crash

Jobs == Messages \cup Uploads

ASSUME JobAssumption ==
  /\ Job \in [Requests -> Jobs]
  /\ Attachments \in [Jobs -> Seq(Digests)]
  /\ Tenant \in [Jobs -> Tenants]
  /\ MessageId \in [Messages -> Ids]
  /\ MaxFailures \in Nat
  /\ Messages \cap Uploads = {}

VARIABLES
  inboxes,    \* tenants whose inbox exists and is active
  objects,    \* digests in the object store; their keys name no tenant
  claims,     \* rows of inbound_messages
  documents,  \* rows of documents: tenant and digest
  findings,   \* how often the findings of a document have been inserted
  archived,   \* rows with archived_at and archive_hash
  req,        \* the progress of each request
  acked,      \* jobs whose sender has received a 2xx answer
  failures    \* requests that failed so far, for the bound

db == <<claims, documents, findings, archived>>
vars == <<inboxes, objects, db, req, acked, failures>>

Rows == Tenants \X Digests

\* tenant is the resolved one; {} is NULL, an unroutable recipient.
ClaimRow == [id : Ids, tenant : {{}} \cup {{t} : t \in Tenants}]

Steps == {"idle", "delivered", "unroutable", "storing", "claiming",
          "inserting", "answering"}

\* `done` counts the attachments that the current step has dealt with; `new`
\* are the rows of the open transaction, `noted` those it wrote findings for.
Req == [at : Steps, done : Nat, new : SUBSET Rows, noted : SUBSET Rows]

Idle == [at |-> "idle", done |-> 0, new |-> {}, noted |-> {}]

TypeOK ==
  /\ inboxes \subseteq Tenants
  /\ objects \subseteq Digests
  /\ claims \subseteq ClaimRow
  /\ documents \subseteq Rows
  /\ findings \in [Rows -> Nat]
  /\ archived \subseteq Rows
  /\ req \in [Requests -> Req]
  /\ acked \subseteq Jobs
  /\ failures \in 0..MaxFailures

-----------------------------------------------------------------------------
IsMessage(q) == Job[q] \in Messages
Id(q) == MessageId[Job[q]]
Count(q) == Len(Attachments[Job[q]])
RowOf(j, d) == <<Tenant[j], d>>
RowsOf(j) == {RowOf(j, Attachments[j][i]) : i \in 1..Len(Attachments[j])}
Current(q) == RowOf(Job[q], Attachments[Job[q]][req[q].done + 1])

Pending(q) == req[q].done < Count(q)
Claimed(id) == \E c \in claims : c.id = id

\* The locks of open transactions: the claim, and the inserted rows.
HoldsClaim(q, id) == req[q].at = "inserting" /\ IsMessage(q) /\ Id(q) = id

WaitsFor(q, h) ==
  \/ req[q].at \in {"unroutable", "claiming"} /\ HoldsClaim(h, Id(q))
  \/ req[q].at = "inserting" /\ Pending(q) /\ h # q /\ Current(q) \in req[h].new

Waits(q) == \E h \in Requests : WaitsFor(q, h)

\* A request waits for at most one other, so a set of waiting requests that all
\* wait for a member, and are all waited for by one, is made of cycles.
InCycle(q) ==
  \E S \in SUBSET {h \in Requests : Waits(h)} :
    /\ q \in S
    /\ \A h \in S : (\E g \in S : WaitsFor(h, g)) /\ (\E g \in S : WaitsFor(g, h))

-----------------------------------------------------------------------------
Move(q, r) == req' = [req EXCEPT ![q] = r]
Drop(q) == Move(q, Idle)

\* The webhook is posted, or posted again: nothing stops a second delivery
\* while the first one is being handled.
Deliver(q) ==
  /\ req[q] = Idle
  /\ Job[q] \in Messages \ acked
  /\ Move(q, [Idle EXCEPT !.at = "delivered"])
  /\ UNCHANGED <<inboxes, objects, db, acked, failures>>

\* Putting the same bytes again is a duplicate, not an update: put answers
\* alreadyExisted.
Upload(q) ==
  /\ req[q] = Idle
  /\ Job[q] \in Uploads \ acked
  /\ Move(q, [Idle EXCEPT !.at = "storing"])
  /\ UNCHANGED <<inboxes, objects, db, acked, failures>>

Resolve(q) ==
  /\ req[q].at = "delivered"
  /\ Move(q, [Idle EXCEPT !.at = IF Tenant[Job[q]] \in inboxes THEN "storing"
                                                           ELSE "unroutable"])
  /\ UNCHANGED <<inboxes, objects, db, acked, failures>>

\* Variant: a recipient nobody knows is answered with an error.
RefuseUnroutable(q) ==
  /\ req[q].at = "unroutable"
  /\ ~Waits(q)
  /\ Drop(q)
  /\ UNCHANGED <<inboxes, objects, db, acked, failures>>

\* Claimed with no tenant, in a transaction of its own, and answered as a
\* duplicate.
ClaimUnroutable(q) ==
  /\ req[q].at = "unroutable"
  /\ ~Waits(q)
  /\ claims' = IF Claimed(Id(q)) THEN claims
                                 ELSE claims \cup {[id |-> Id(q), tenant |-> {}]}
  /\ Move(q, [Idle EXCEPT !.at = "answering"])
  /\ UNCHANGED <<inboxes, objects, documents, findings, archived, acked, failures>>

PutObject(q) ==
  /\ req[q].at = "storing"
  /\ Pending(q)
  /\ objects' = objects \cup {Attachments[Job[q]][req[q].done + 1]}
  /\ Move(q, [req[q] EXCEPT !.done = @ + 1])
  /\ UNCHANGED <<inboxes, db, acked, failures>>

\* All are stored; validation reads and writes nothing.  The transaction
\* begins: with the claim for a message, with the rows for an upload.
Stored(q) ==
  /\ req[q].at = "storing"
  /\ ~Pending(q)
  /\ Move(q, [Idle EXCEPT !.at = IF IsMessage(q) THEN "claiming" ELSE "inserting"])
  /\ UNCHANGED <<inboxes, objects, db, acked, failures>>

\* Variant: the claim is committed before the documents are written.
ClaimFirst(q) ==
  /\ req[q].at = "claiming"
  /\ ~Waits(q)
  /\ claims' = IF Claimed(Id(q)) THEN claims
                                 ELSE claims \cup {[id |-> Id(q), tenant |-> {Tenant[Job[q]]}]}
  /\ Move(q, [Idle EXCEPT !.at = IF Claimed(Id(q)) THEN "answering" ELSE "inserting"])
  /\ UNCHANGED <<inboxes, objects, documents, findings, archived, acked, failures>>

\* INSERT ... ON CONFLICT (provider, provider_message_id) DO NOTHING.  When
\* another delivery has the claim there is nothing to write.
Claim(q) ==
  /\ req[q].at = "claiming"
  /\ ~Waits(q)
  /\ Move(q, [Idle EXCEPT !.at = IF Claimed(Id(q)) THEN "answering" ELSE "inserting"])
  /\ UNCHANGED <<inboxes, objects, db, acked, failures>>

\* Variant: the row is looked up first, and inserted without a unique index.
InsertUnlocked(q) ==
  /\ req[q].at = "inserting"
  /\ Pending(q)
  /\ LET inserted == {Current(q)} \ documents
     IN  Move(q, [req[q] EXCEPT !.done = @ + 1,
                                !.new = @ \cup inserted,
                                !.noted = @ \cup inserted])
  /\ UNCHANGED <<inboxes, objects, db, acked, failures>>

\* Variant: a duplicate has its findings written again.
InsertNotingAlways(q) ==
  /\ req[q].at = "inserting"
  /\ Pending(q)
  /\ ~Waits(q)
  /\ Move(q, [req[q] EXCEPT !.done = @ + 1,
                            !.new = @ \cup ({Current(q)} \ documents),
                            !.noted = @ \cup {Current(q)}])
  /\ UNCHANGED <<inboxes, objects, db, acked, failures>>

\* INSERT ... ON CONFLICT (tenant_id, raw_sha256) DO NOTHING; a duplicate
\* already carries its findings.
InsertDocument(q) ==
  /\ req[q].at = "inserting"
  /\ Pending(q)
  /\ ~Waits(q)
  /\ LET inserted == {Current(q)} \ documents
     IN  Move(q, [req[q] EXCEPT !.done = @ + 1,
                                !.new = @ \cup inserted,
                                !.noted = @ \cup inserted])
  /\ UNCHANGED <<inboxes, objects, db, acked, failures>>

\* Variant: an upload is left to be archived later.
CommitUnarchived(q) ==
  /\ req[q].at = "inserting"
  /\ ~Pending(q)
  /\ claims' = claims \cup
       (IF IsMessage(q) THEN {[id |-> Id(q), tenant |-> {Tenant[Job[q]]}]} ELSE {})
  /\ documents' = documents \cup req[q].new
  /\ findings' = [r \in Rows |-> IF r \in req[q].noted THEN findings[r] + 1
                                                       ELSE findings[r]]
  /\ Move(q, [Idle EXCEPT !.at = "answering"])
  /\ UNCHANGED <<inboxes, objects, archived, acked, failures>>

\* COMMIT.  An upload has archived the rows it inserted, and only those.
Commit(q) ==
  /\ req[q].at = "inserting"
  /\ ~Pending(q)
  /\ claims' = claims \cup
       (IF IsMessage(q) THEN {[id |-> Id(q), tenant |-> {Tenant[Job[q]]}]} ELSE {})
  /\ documents' = documents \cup req[q].new
  /\ findings' = [r \in Rows |-> IF r \in req[q].noted THEN findings[r] + 1
                                                       ELSE findings[r]]
  /\ archived' = archived \cup (IF IsMessage(q) THEN {} ELSE req[q].new)
  /\ Move(q, [Idle EXCEPT !.at = "answering"])
  /\ UNCHANGED <<inboxes, objects, acked, failures>>

\* 202, 201, or 200 for a duplicate.
Answer(q) ==
  /\ req[q].at = "answering"
  /\ acked' = acked \cup {Job[q]}
  /\ Drop(q)
  /\ UNCHANGED <<inboxes, objects, db, failures>>

\* An error of the object store, the validator or the database, a crash, or
\* an answer that comes too late: the transaction is rolled back if it has
\* not committed, and the sender has no 2xx.
Fail(q) ==
  /\ req[q] # Idle
  /\ failures < MaxFailures
  /\ failures' = failures + 1
  /\ Drop(q)
  /\ UNCHANGED <<inboxes, objects, db, acked>>

\* PostgreSQL breaks a cycle of waiting transactions: 500.
DeadlockVictim(q) ==
  /\ InCycle(q)
  /\ Drop(q)
  /\ UNCHANGED <<inboxes, objects, db, acked, failures>>

\* A tenant signs up, and its inbox address exists from then on.
CreateInbox(t) ==
  /\ t \notin inboxes
  /\ inboxes' = inboxes \cup {t}
  /\ UNCHANGED <<objects, db, req, acked, failures>>

Init ==
  /\ inboxes \in SUBSET Tenants
  /\ objects = {}
  /\ claims = {}
  /\ documents = {}
  /\ findings = [r \in Rows |-> 0]
  /\ archived = {}
  /\ req = [q \in Requests |-> Idle]
  /\ acked = {}
  /\ failures = 0

\* What a request does once it has arrived, failing aside.
Handle(q) ==
  \/ Resolve(q) \/ ClaimUnroutable(q)
  \/ PutObject(q) \/ Stored(q) \/ Claim(q) \/ InsertDocument(q) \/ Commit(q)
  \/ Answer(q)

Next ==
  \/ \E q \in Requests : Deliver(q) \/ Upload(q) \/ Handle(q) \/ Fail(q)
                         \/ DeadlockVictim(q)
  \/ \E t \in Tenants : CreateInbox(t)

Spec == Init /\ [][Next]_vars

-----------------------------------------------------------------------------
(* Fairness: the event loop runs every request that can go on, PostgreSQL  *)
(* breaks every deadlock, and the provider posts a message it has no 2xx   *)
(* for again.  Nobody has to upload a file again, or to sign up.  Two      *)
(* messages that carry the same files in opposite order could deadlock for *)
(* ever: PostgreSQL wakes who waits for a row when its holder is aborted,  *)
(* and the insert goes on then, so it is not overtaken again and again by  *)
(* a delivery that has to come through the network first.                  *)

\* An insert behind the first of its message.
InsertFurther(m) ==
  \E q \in Requests : Job[q] = m /\ req[q].done > 0 /\ InsertDocument(q)

Fairness ==
  /\ \A q \in Requests : WF_vars(Deliver(q) \/ Handle(q) \/ DeadlockVictim(q))
  /\ \A m \in Messages : SF_vars(InsertFurther(m))

FairSpec == Spec /\ Fairness

-----------------------------------------------------------------------------
(* Properties. *)

\* A message the provider will not send again has been claimed, and if it was
\* routed, every one of its documents is recorded for the tenant that has the
\* claim: no interleaving of redeliveries, failures and rollbacks answers 2xx
\* for a message whose rows were rolled back (claim and rows in one
\* transaction, postgres-store.ts).
AckedIsRecorded ==
  \A m \in acked \cap Messages :
    \E c \in claims :
      /\ c.id = MessageId[m]
      /\ \A t \in c.tenant : \E n \in Messages :
           MessageId[n] = c.id /\ Tenant[n] = t /\ RowsOf(n) \subseteq documents

\* A row never points at bytes that were not stored, whichever request or
\* tenant stored them ("a lost invoice", postgres-store.ts and upload.ts).
RecordedIsStored == \A r \in documents : r[2] \in objects

\* Every document carries its findings once, however many messages and uploads
\* bring the same file, and a rolled back one leaves none behind.
FindingsOnce ==
  \A r \in Rows : findings[r] = IF r \in documents THEN 1 ELSE 0

\* A document is recorded once and with its bytes, however many messages,
\* uploads, retries and rollbacks bring it.
RecordedOnce == RecordedIsStored /\ FindingsOnce

\* Two open transactions never hold the same claim or the same row, and what
\* an open transaction has inserted is not in the tables yet: without this a
\* commit would write a row twice.
LocksAreExclusive ==
  \A q \in Requests :
    /\ HoldsClaim(q, Id(q)) => ~Claimed(Id(q))
    /\ req[q].new \cap documents = {}
    /\ \A h \in Requests \ {q} :
         /\ req[q].new \cap req[h].new = {}
         /\ IsMessage(q) /\ IsMessage(h) /\ Id(q) = Id(h)
              => ~(HoldsClaim(q, Id(q)) /\ HoldsClaim(h, Id(h)))

\* An upload that was answered is recorded, and archived unless a message had
\* brought the same file before: a rollback, or the other path taking the row
\* in between, never leaves an uploaded file outside the archive unnoticed.
UploadIsRecordedAndArchived ==
  \A u \in acked \cap Uploads :
    /\ RowsOf(u) \subseteq documents
    /\ \A r \in RowsOf(u) \ archived :
         \E m \in Messages, c \in claims : c.id = MessageId[m] /\ r \in RowsOf(m)

\* Every message is answered in the end, so that the provider stops, and by then
\* its documents are recorded, in spite of failures and crashes that stop after
\* a while, of redeliveries beside the first delivery and of deadlocks: a
\* rollback releases the claim.  A message that came before its inbox existed
\* is the exception: it is answered, and its claim has no tenant.
EveryDeliverySettles ==
  \A m \in Messages :
    <>(/\ m \in acked
       /\ \/ RowsOf(m) \subseteq documents
          \/ [id |-> MessageId[m], tenant |-> {}] \in claims)

\* The concurrent requests implement the atomic inbox: every commit is one
\* step of it, and no other step changes the tables.
Promise == INSTANCE Inbox WITH claims <- claims, documents <- documents,
                              findings <- findings, archived <- archived
ImplementsInbox == Promise!Spec

=============================================================================
