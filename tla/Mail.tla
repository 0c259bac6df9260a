--------------------------------- MODULE Mail ---------------------------------
(***************************************************************************)
(* The worker as it runs where there is no PostgreSQL: webhooks of one of  *)
(* two providers, records.jsonl, and one of the object stores.             *)
(*                                                                         *)
(* One process serves several requests.  A request runs to its next await  *)
(* in one step: a read or write of the records file, or a call of the      *)
(* object store.  The provider posts a message until it has a 2xx answer   *)
(* and may post it again before; the process may stop at any step, and     *)
(* what it kept in memory is gone then.                                    *)
(***************************************************************************)
EXTENDS Reading, FiniteSetsExt

CONSTANTS
    Messages, Requests,
    Digests,            \* of the attachments
    MaxNow,             \* bound: the last time, in units of five minutes
    MaxDeliveries,      \* bound: how often a webhook is posted
    MaxFailures         \* bound: steps that fail, and stops

VARIABLES
    mail,               \* what each message is
    backend,            \* the object store: "files", "s3" or "s3 plain"
    now,
    signed,             \* the signatures Mailgun made for each message
    proc,               \* the memory of the process
    req,                \* how far each request is
    objects,            \* digest -> the versions stored under it
    broken,             \* history: digests whose file somebody did not finish
    records,            \* records.jsonl, one entry for each append
    acked,              \* messages with a 2xx answer
    deliveries, failures

disk == <<objects, broken, records>>
world == <<mail, backend>>
vars == <<world, now, signed, proc, req, disk, acked, deliveries, failures>>

-----------------------------------------------------------------------------
(* Memory.                                                                 *)

\* `seen` says whose set of message ids the store holds on to: loadSeen makes
\* one for each call that finds none.
Started == [seen |-> None, sets |-> [q \in Requests |-> {}],
            tokens |-> {},
            accepted |-> [t \in Messages \X (1..MaxDeliveries) |-> 0],
            conditionalWrites |-> TRUE]

Idle == [at |-> "idle", message |-> None, token |-> 0, set |-> None,
         read |-> {}, outcome |-> None, done |-> 0]

TokenOf(q) == <<req[q].message, req[q].token>>
MailOf(q) == mail[req[q].message]

\* The id a message is recorded under.  Mailgun's is the Message-Id header,
\* or else the token, which is a new one with every signature.
ProviderMessageId(q) ==
    IF MailOf(q).id = None /\ MailOf(q).provider = "mailgun"
    THEN TokenOf(q) ELSE MailOf(q).id

Goes(q, at) == req' = [req EXCEPT ![q].at = at]
Answered(q) == req' = [req EXCEPT ![q] = Idle]

-----------------------------------------------------------------------------
(* A webhook comes in.                                                     *)

\* Mailgun signs with its own clock, which may be ahead of ours, and posts
\* with a new signature or with the one it has.
Deliver(q, m) ==
    /\ req[q] = Idle /\ m \notin acked
    /\ deliveries < MaxDeliveries /\ deliveries' = deliveries + 1
    /\ \/ /\ mail[m].provider = "mailgun"
          /\ \E ahead \in {0, 1} :
                 signed' = [signed EXCEPT ![m] = Append(@, now + ahead)]
       \/ UNCHANGED signed
    /\ req' = [req EXCEPT ![q] = [Idle EXCEPT !.at = "verify", !.message = m,
                                              !.token = Len(signed'[m])]]
    /\ mail[m].provider = "mailgun" => signed'[m] # <<>>
    /\ UNCHANGED <<world, now, proc, disk, acked, failures>>

Tolerance == 1
TokenLifetime == 3

Fresh(q) ==
    LET at == signed[req[q].message][req[q].token]
    IN  now <= at + Tolerance /\ at <= now + Tolerance

\* Variant: a token is forgotten as soon as a signature could be too old.
RememberedTooShort(tokens) == {t \in tokens : now - t.at <= Tolerance}

\* Tokens older than the lifetime are forgotten before one is looked up.
Remembered(tokens) == {t \in tokens : now - t.at <= TokenLifetime}

Consumed(q) == \E t \in Remembered(proc.tokens) : t.token = TokenOf(q)

\* The call is genuine: Postmark's password, or a fresh signature of Mailgun's
\* whose token has not been used.
Verified(q) ==
    /\ MailOf(q).genuine
    /\ MailOf(q).provider = "mailgun" => Fresh(q) /\ ~ Consumed(q)

Consume(q) ==
    IF MailOf(q).provider = "mailgun" /\ MailOf(q).genuine /\ Fresh(q)
    THEN [proc EXCEPT
             !.tokens = IF Consumed(q) THEN Remembered(@)
                        ELSE Remembered(@) \cup {[token |-> TokenOf(q), at |-> now]},
             !.accepted[TokenOf(q)] = IF Consumed(q) THEN @ ELSE @ + 1]
    ELSE proc

\* A body that cannot be read is refused before anything is verified: 400 or
\* 413.  A call that is not genuine: 401.
Verify(q) ==
    /\ req[q].at = "verify"
    /\ IF ~ MailOf(q).readable \/ ~ Verified(q)
       THEN /\ Answered(q)
            /\ proc' = IF MailOf(q).readable THEN Consume(q) ELSE proc
       ELSE /\ proc' = Consume(q)
            /\ req' = [req EXCEPT ![q] = [req[q] EXCEPT
                          !.at = IF proc.seen = None THEN "load" ELSE "check",
                          !.set = proc.seen, !.outcome = IngestMessage(MailOf(q))]]
    /\ UNCHANGED <<world, now, signed, disk, acked, deliveries, failures>>

-----------------------------------------------------------------------------
(* FilesystemDocumentStore.                                                *)

\* The first line of an entry runs on from one that has no line break.
RunsOn(i) == i > 1 /\ records[i - 1].cut \in {"within", "unended"}

\* The lines of an entry that can be parsed.
LegibleLines(i) ==
    {k \in 1..records[i].lines :
        /\ k = 1 => ~ RunsOn(i)
        /\ k = records[i].lines /\ records[i].cut = "unended" =>
               i = Len(records)}

\* Every line has the id of its message.
IdsOnRecord ==
    {records[i].id : i \in {j \in DOMAIN records : LegibleLines(j) # {}}} \ {None}

\* loadSeen reads the file, without the lines that cannot be parsed, ...
ReadRecords(q) ==
    /\ req[q].at = "load"
    /\ req' = [req EXCEPT ![q] = [req[q] EXCEPT !.at = "loaded", !.read = IdsOnRecord]]
    /\ UNCHANGED <<world, now, signed, proc, disk, acked, deliveries, failures>>

\* ... and makes its own set the store's.
LoadSeen(q) ==
    /\ req[q].at = "loaded"
    /\ proc' = [proc EXCEPT !.seen = q, !.sets[q] = req[q].read]
    /\ req' = [req EXCEPT ![q] = [req[q] EXCEPT !.at = "check", !.set = q, !.read = {}]]
    /\ UNCHANGED <<world, now, signed, disk, acked, deliveries, failures>>

Seen(q) == ProviderMessageId(q) # None
             /\ ProviderMessageId(q) \in proc.sets[req[q].set]

\* Variant: the id is remembered before anything is written.
CheckAndRemember(q) ==
    /\ req[q].at = "check"
    /\ IF Seen(q)
       THEN /\ acked' = acked \cup {req[q].message}
            /\ Answered(q) /\ UNCHANGED proc
       ELSE /\ Goes(q, "store") /\ UNCHANGED acked
            /\ proc' = [proc EXCEPT !.sets[req[q].set] = @ \cup {ProviderMessageId(q)}]
    /\ UNCHANGED <<world, now, signed, disk, deliveries, failures>>

\* A message that was handled is answered 200.
Check(q) ==
    /\ req[q].at = "check"
    /\ IF Seen(q)
       THEN acked' = acked \cup {req[q].message} /\ Answered(q)
       ELSE Goes(q, "store") /\ UNCHANGED acked
    /\ UNCHANGED <<world, now, signed, proc, disk, deliveries, failures>>

Documents(q) == req[q].outcome.documents
Digest(q) == Documents(q)[req[q].done + 1].sha256
Stored(q) == req[q].done = Len(Documents(q))

\* putObject, always with a retention.  The key is the digest, whoever the
\* document is for.
PutObject(q) ==
    /\ req[q].at = "store" /\ ~ Stored(q)
    /\ Goes(q, IF backend = "files" THEN "write"
               ELSE IF proc.conditionalWrites THEN "put if none" ELSE "head")
    /\ UNCHANGED <<world, now, signed, proc, disk, acked, deliveries, failures>>

\* One line for each document, or one that says that there was none.
NumberOfLines(q) == IF Documents(q) = <<>> THEN 1 ELSE Len(Documents(q))

\* The first so many lines, and where the text is cut: nowhere, between two of
\* its lines, within one, or where a line has not ended, before its break.
Entry(q, lines, cut) ==
    [id |-> ProviderMessageId(q), message |-> req[q].message,
     inboxSlug |-> req[q].outcome.inboxSlug, warnings |-> req[q].outcome.warnings,
     lines |-> lines, cut |-> cut,
     documents |-> [i \in (1..lines) \cap DOMAIN Documents(q) |->
         [sha256 |-> Documents(q)[i].sha256,
          detection |-> Documents(q)[i].detection,
          status |-> IF /\ Documents(q)[i].detection.error = None
                        /\ Documents(q)[i].detection.profile.legalClass = "einvoice"
                     THEN "pending" ELSE "not_einvoice"]]]

AppendRecords(q) ==
    /\ req[q].at = "store" /\ Stored(q)
    /\ records' = Append(records, Entry(q, NumberOfLines(q), "nowhere"))
    /\ Goes(q, "recorded")
    /\ UNCHANGED <<world, now, signed, proc, objects, broken, acked, deliveries, failures>>

\* seen.add on the set this call has, and 202.
Answer(q) ==
    /\ req[q].at = "recorded"
    /\ proc' = IF ProviderMessageId(q) = None THEN proc
               ELSE [proc EXCEPT !.sets[req[q].set] = @ \cup {ProviderMessageId(q)}]
    /\ acked' = acked \cup {req[q].message}
    /\ Answered(q)
    /\ UNCHANGED <<world, now, signed, disk, deliveries, failures>>

-----------------------------------------------------------------------------
(* The object stores.                                                      *)

Exists(q) == objects[Digest(q)] # <<>>

\* The object is there, now or since before: on to the next document.
NextDocument(q) ==
    req' = [req EXCEPT ![q] = [req[q] EXCEPT !.at = "store", !.done = req[q].done + 1]]

\* A version has all of its bytes or not yet, and is under retention or not.
NewVersion(q, done) ==
    objects' = [objects EXCEPT ![Digest(q)] = Append(@, [whole |-> done, retained |-> done])]

\* The flag "wx" lets one call make the file, which is empty then.  To every
\* other the object is there.
CreateFile(q) ==
    /\ req[q].at = "write"
    /\ IF Exists(q) THEN NextDocument(q) /\ UNCHANGED objects
       ELSE NewVersion(q, FALSE) /\ Goes(q, "writing")
    /\ UNCHANGED <<world, now, signed, proc, broken, records, acked, deliveries, failures>>

WriteBytes(q) ==
    /\ req[q].at = "writing"
    /\ objects' = [objects EXCEPT ![Digest(q)] =
                      [i \in DOMAIN @ |-> [whole |-> TRUE, retained |-> @[i].retained]]]
    /\ Goes(q, "sidecar")
    /\ UNCHANGED <<world, now, signed, proc, broken, records, acked, deliveries, failures>>

\* The retention is a second file.
WriteSidecar(q) ==
    /\ req[q].at = "sidecar"
    /\ objects' = [objects EXCEPT ![Digest(q)] =
                      [i \in DOMAIN @ |-> [whole |-> @[i].whole, retained |-> TRUE]]]
    /\ NextDocument(q)
    /\ UNCHANGED <<world, now, signed, proc, broken, records, acked, deliveries, failures>>

\* If-None-Match: written, or refused because it is there, or refused by a
\* store that knows no conditions, which is remembered.
PutIfNone(q) ==
    /\ req[q].at = "put if none"
    /\ IF backend = "s3 plain"
       THEN /\ proc' = [proc EXCEPT !.conditionalWrites = FALSE]
            /\ Goes(q, "head") /\ UNCHANGED objects
       ELSE /\ IF Exists(q) THEN UNCHANGED objects ELSE NewVersion(q, TRUE)
            /\ NextDocument(q) /\ UNCHANGED proc
    /\ UNCHANGED <<world, now, signed, broken, records, acked, deliveries, failures>>

HeadObject(q) ==
    /\ req[q].at = "head"
    /\ IF Exists(q) THEN NextDocument(q) ELSE Goes(q, "put")
    /\ UNCHANGED <<world, now, signed, proc, disk, acked, deliveries, failures>>

PutPlain(q) ==
    /\ req[q].at = "put"
    /\ NewVersion(q, TRUE)
    /\ NextDocument(q)
    /\ UNCHANGED <<world, now, signed, proc, broken, records, acked, deliveries, failures>>

-----------------------------------------------------------------------------
(* What goes wrong.                                                        *)

HalfWritten(q) == req[q].at \in {"writing", "sidecar"}

BreaksOff(requests) == broken' = broken \cup {Digest(q) : q \in {p \in requests : HalfWritten(p)}}

\* A write or a call of the object store fails: 500.  A file that was made is
\* left as it is.
Fails(q) ==
    /\ req[q].at \in {"load", "store", "write", "writing", "sidecar", "put if none",
                      "head", "put"}
    /\ failures < MaxFailures /\ failures' = failures + 1
    /\ Answered(q) /\ BreaksOff({q})
    /\ UNCHANGED <<world, now, signed, proc, objects, records, acked, deliveries>>

Stops ==
    /\ proc' = Started
    /\ req' = [q \in Requests |-> Idle] /\ BreaksOff(Requests)

Restart ==
    /\ failures < MaxFailures /\ failures' = failures + 1
    /\ Stops
    /\ UNCHANGED <<world, now, signed, objects, records, acked, deliveries>>

\* An append is cut off: the disk is full, or the process stops.  What was
\* written stays in the file.
AppendIsCut(q) ==
    /\ req[q].at = "store" /\ Stored(q)
    /\ failures < MaxFailures /\ failures' = failures + 1
    /\ \E lines \in 0..NumberOfLines(q), cut \in {"between", "within", "unended"} :
           /\ cut # "within" => lines > 0
           /\ cut # "unended" => lines < NumberOfLines(q)
           /\ records' = Append(records, Entry(q, lines, cut))
    /\ \/ Answered(q) /\ UNCHANGED <<proc, broken>>
       \/ Stops
    /\ UNCHANGED <<world, now, signed, objects, acked, deliveries>>

Tick ==
    /\ now < MaxNow /\ now' = now + 1
    /\ UNCHANGED <<world, signed, proc, req, disk, acked, deliveries, failures>>

-----------------------------------------------------------------------------

IsList(s) == s \in Seq(ToSet(s))

IsXml(x) == /\ x = [markup |-> x.markup, root |-> x.root,
                    namespace |-> x.namespace, urn |-> x.urn]
            /\ x.markup \in {"whole", "open", "broken"}
            /\ x.namespace \in {"absent", "ubl", "cii", "zugferd_v1", "other"}

IsFile(b) == /\ b = [whole |-> TRUE, xml |-> b.xml] /\ b # None
             /\ b.xml # None => IsXml(b.xml)

IsStream(s) ==
    /\ s.dict \in {"EmbeddedFile", "text/xml", "font"}
    /\ s.length \in {"direct", "reference", "wrong", "absent"}
    /\ s.filter \in {"absent", "zlib", "deflate", "lzw"}
    /\ s.keyword \in {"absent", "markup", "before", "behind"}
    /\ IsFile(s.holds)

IsAttachment(a) ==
    /\ a.sha256 \in Digests
    /\ a.kind = "pdf" => /\ IsList(a.pdf.streams)
                         /\ \A s \in ToSet(a.pdf.streams) : IsStream(s)
    /\ a.kind = "xml" => IsFile(a.bytes)

\* What a message can be.  Files of one digest are one file, and nobody takes
\* one of Mailgun's tokens, which are secret until they are used, for the
\* Message-Id of another message.
IsMessage(m) ==
    /\ m.id \notin Messages \X Nat
    /\ IsList(m.header) /\ IsList(m.mailboxHash) /\ IsList(m.to.parts)
    /\ IsList(m.attachments)
    /\ \A a, b \in ToSet(m.attachments) :
           IsAttachment(a) /\ (a.sha256 = b.sha256 => a = b)

Init ==
    /\ \A m \in Messages : IsMessage(mail[m])
    /\ now \in Nat /\ deliveries \in Nat /\ failures \in Nat
    /\ backend \in {"files", "s3", "s3 plain"}
    /\ proc = Started
    /\ req = [q \in Requests |-> Idle]
    /\ signed = [m \in Messages |-> <<>>]
    /\ objects = [d \in Digests |-> <<>>] /\ broken = {} /\ records = <<>>
    /\ acked = {}

Next ==
    \/ \E q \in Requests :
        \/ \E m \in Messages : Deliver(q, m)
        \/ Verify(q)        \/ ReadRecords(q)  \/ LoadSeen(q)    \/ Check(q)
        \/ PutObject(q)     \/ AppendRecords(q) \/ Answer(q)
        \/ CreateFile(q)    \/ WriteBytes(q)   \/ WriteSidecar(q)
        \/ PutIfNone(q)     \/ HeadObject(q)   \/ PutPlain(q)
        \/ Fails(q)         \/ AppendIsCut(q)
    \/ Restart \/ Tick

Spec == Init /\ [][Next]_vars

-----------------------------------------------------------------------------
(* Properties. *)

Attachment(m, digest) ==
    CHOOSE a \in ToSet(mail[m].attachments) : a.sha256 = digest

\* The documents of an entry that can be read in it.
DocumentsOnRecord(i) ==
    {records[i].documents[k] : k \in LegibleLines(i) \cap DOMAIN records[i].documents}

KeptOf(m) == {a.sha256 : a \in {b \in ToSet(mail[m].attachments) : Kept(b)}}

\* Nothing that a provider will not send again is missing but what a cut of
\* the file took with it: a message that was answered 2xx has an entry with a
\* line in it, itself or under the id it shares with one that has; an entry
\* has all files of its message that could be an invoice or its paper copy,
\* unless its append was cut or ran on from one that was; and an object was
\* stored for each.  So it is for every order of redeliveries, failures and
\* restarts, though the set that recognises redeliveries may not be the one
\* another request fills.
AckedIsOnRecord ==
    /\ \A m \in acked : \E i \in DOMAIN records :
           /\ records[i].lines > 0
           /\ \/ records[i].message = m
              \/ records[i].id # None /\ records[i].id = mail[m].id
    /\ \A i \in DOMAIN records :
           LET listed == {d.sha256 : d \in DocumentsOnRecord(i)}
           IN  /\ listed \subseteq KeptOf(records[i].message)
               /\ records[i].cut = "nowhere" /\ ~ RunsOn(i) =>
                      listed = KeptOf(records[i].message)
               /\ \A d \in listed : objects[d] # <<>>

\* The invoices a PDF carries in a way that can be read at all: not
\* encrypted, not cut off, in an encoding the code knows.
Legible(pdf) ==
    IF pdf.encrypted THEN {}
    ELSE {s \in ToSet(pdf.streams) :
             /\ s.dict # "font" /\ s.ended /\ s.filter # "lzw"
             /\ s.keyword # "absent" => s.length \in {"direct", "reference"}}

\* Those that are cut behind their URN and read for all that: nothing is
\* compressed, the length is not to be believed, and `endstream` is in a text.
CutBehindUrn(pdf) ==
    IF pdf.encrypted THEN {}
    ELSE {s \in ToSet(pdf.streams) :
             /\ s.dict # "font" /\ s.filter = "absent" /\ s.keyword = "behind"
             /\ s.ended => s.length \notin {"direct", "reference"}}

\* It begins as an EN 16931 invoice with its lines does, and the parser takes
\* it; CII goes by its root alone.
FullHeader(x) ==
    /\ x.markup # "broken" /\ x.urn # None
    /\ <<x.root, x.namespace>> \in
           ({"Invoice", "CreditNote"} \X {"ubl", "absent"})
             \cup ({"CrossIndustryInvoice"} \X {"ubl", "cii", "absent", "other"})
    /\ x.urn.marks \cap {"zugferd", "cius", "peppol", "en16931"} # {}
    /\ "zugferd" \in x.urn.marks => x.urn.level \in FullLevels

FullInvoice(x) == x.markup = "whole" /\ FullHeader(x)

Carried(a) == IF a.kind = "pdf" THEN {s.holds.xml : s \in Legible(a.pdf)} \ {None}
              ELSE {a.bytes.xml} \ {None}

Begun(a) == Carried(a) \cup IF a.kind = "pdf"
                            THEN {s.holds.xml : s \in CutBehindUrn(a.pdf)} \ {None}
                            ELSE {}

\* Nothing else in the file could be taken for the invoice.
Alone(a) ==
    a.kind = "pdf" =>
        Cardinality({s \in ToSet(a.pdf.streams) :
            /\ s.dict # "font"
            /\ s.holds.xml # None \/ IsKnownInvoiceName(s.filename)}) = 1

\* A URN of one family: no vendor's marker beside another's, and XRechnung
\* under an authority that has issued it.
OneFamily(urn) ==
    /\ Cardinality(urn.marks \cap {"zugferd", "kosit", "peppol"}) <= 1
    /\ "kosit" \in urn.marks <=> "cius" \in urn.marks

FamilyOf(format) ==
    CASE format = <<"zugferd">>      -> {"zugferd", "en16931"}
      [] format[1] = "xrechnung"     -> {"cius"}
      [] format = <<"peppol_bis">>   -> {"peppol"}
      [] format[1] = "en16931"       -> {"en16931"}
      [] OTHER                       -> {None}

\* A document is recorded as what it is.  It waits for validation if it is, or
\* carries in one file and nothing else, a whole EN 16931 invoice with its
\* lines, however a PDF spells lengths, filters and names; and it waits only
\* if something in it begins as such an invoice does, so a preview never
\* does.  (A text that ends too early is not told from a whole one: in the
\* text of an element, or cut out of a PDF at the word `endstream`, it waits
\* as well, and validation has to find out.)  What its format says and what
\* its profile says is one answer, found in two orders from the URN of one
\* family.  A message without a warning about its sender has a result that
\* speaks for it, and no message goes to an inbox its address does not name.
ReadAsWhatItIs ==
    \A i \in DOMAIN records :
        LET l == records[i]
            m == mail[l.message]
        IN  /\ \A d \in ToSet(l.documents) :
                   LET a == Attachment(l.message, d.sha256)
                   IN  /\ d.status = "pending" => \E x \in Begun(a) : FullHeader(x)
                       /\ (\E x \in Carried(a) : FullInvoice(x)) /\ Alone(a) =>
                              d.status = "pending"
                       /\ d.detection.error = None
                            /\ OneFamily(d.detection.profile.urn) =>
                              d.detection.profile.family
                                  \in FamilyOf(d.detection.format)
            /\ l.warnings \cap {"sender_auth_failed", "sender_auth_missing"} = {} =>
                   \E r \in ToSet(m.header) : r.result = "pass"
            /\ l.inboxSlug # None =>
                   \E part \in ToSet(m.to.parts) \cup ToSet(m.mailboxHash) :
                       part.slug = l.inboxSlug /\ part.suffix = "hex"

Recorded(d) ==
    \E i \in DOMAIN records : \E e \in DocumentsOnRecord(i) : e.sha256 = d

\* What is on record is stored once and kept: one version, where the store can
\* promise it, which has all of its bytes and is under retention.  Only a file
\* is not written in one step: one without its bytes or its retention is being
\* written, or somebody did not finish it, and no later call does.
ObjectsAreKept ==
    \A d \in Digests :
        /\ backend # "s3 plain" => Len(objects[d]) <= 1
        /\ Recorded(d) =>
               \/ \E v \in ToSet(objects[d]) : v.whole /\ v.retained
               \/ /\ backend = "files"
                  /\ \/ d \in broken
                     \/ \E q \in Requests : HalfWritten(q) /\ Digest(q) = d

\* What was answered 2xx is on record, and what is on record is kept, but for
\* what a write that was cut off left behind.
AckedIsKept == AckedIsOnRecord /\ ObjectsAreKept

\* A process accepts a signature of Mailgun's once, however the clocks differ
\* and however late a call comes: tokens are remembered longer than they
\* could be fresh.
TokensAreUsedOnce ==
    \A t \in DOMAIN proc.accepted : proc.accepted[t] <= 1

=============================================================================
