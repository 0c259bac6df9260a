------------------------------- MODULE Inbox --------------------------------
(***************************************************************************)
(* What receiving promises (packages/db/migrations/0004, postgres-store.ts):*)
(* a message id is claimed once, and with the claim all documents of the   *)
(* message appear at once, each with its findings, those that the tenant   *)
(* already has excepted.  An upload records its file in the same way and   *)
(* archives it if it is new.  Ingest implements this with concurrent       *)
(* requests that fail, wait and are delivered again.                       *)
(***************************************************************************)
EXTENDS Integers, Sequences

CONSTANTS Messages, Uploads, Digests, Tenants, Attachments, Tenant, MessageId

VARIABLES claims, documents, findings, archived

vars == <<claims, documents, findings, archived>>

Received(j) == {<<Tenant[j], Attachments[j][i]>> : i \in 1..Len(Attachments[j])}

Unclaimed(m) == \A c \in claims : c.id # MessageId[m]

Init ==
  /\ claims = {}
  /\ documents = {}
  /\ findings = [r \in Tenants \X Digests |-> 0]
  /\ archived = {}

Write(rows) ==
  /\ documents' = documents \cup rows
  /\ findings' = [r \in Tenants \X Digests |->
                    IF r \in rows \ documents THEN findings[r] + 1 ELSE findings[r]]

Receive(m) ==
  /\ Unclaimed(m)
  /\ claims' = claims \cup {[id |-> MessageId[m], tenant |-> {Tenant[m]}]}
  /\ Write(Received(m))
  /\ UNCHANGED archived

SetAside(m) ==
  /\ Unclaimed(m)
  /\ claims' = claims \cup {[id |-> MessageId[m], tenant |-> {}]}
  /\ UNCHANGED <<documents, findings, archived>>

TakeUpload(u) ==
  /\ Write(Received(u))
  /\ archived' = archived \cup (Received(u) \ documents)
  /\ UNCHANGED claims

Next ==
  \/ \E m \in Messages : Receive(m) \/ SetAside(m)
  \/ \E u \in Uploads : TakeUpload(u)

Spec == Init /\ [][Next]_vars
=============================================================================
