-------------------------------- MODULE Doku --------------------------------
(***************************************************************************)
(* The Verfahrensdokumentation of one tenant (packages/verfahrensdoku,     *)
(* packages/db/src/verfahrensdoku-store.ts, apps/api/src/verfahrensdoku.ts *)
(* and doku-facts.ts, migration 0008): requests that each generate the     *)
(* next fassung from what they read of a system that goes on running, and  *)
(* the chain of fassungen that GoBD Rz. 154 asks for.                      *)
(*                                                                         *)
(* The transaction is READ COMMITTED: each statement of the gathering sees *)
(* the database of its own moment.  The statements whose tables nothing    *)
(* changes at run time (tenants, inboxes, rulesets, schema_migrations) are *)
(* constants, and so are the accounts.  A text is the set of the words in  *)
(* it that something tells apart: those the lint refuses and those that    *)
(* are markup.  A hash is the canonical form it is taken over; a value     *)
(* that may be missing is a set.                                           *)
(***************************************************************************)
EXTENDS Integers, Sequences, FiniteSets

CONSTANTS
  Requests,      \* POST /v1/verfahrensdokumentation
  Unlucky,       \* the requests whose connection may be lost
  Tenant,        \* the row of `tenants`
  Inbox,         \* the row of `inboxes`, or {}
  Ruleset,       \* the row of `rulesets` that is active, or {}
  Storage,       \* ApiOptions.storage
  Migrations,    \* the names in schema_migrations, in order
  Users,         \* the rows of `users`, with their roles
  Configs,       \* configurations of the validator, numbers: later is higher
  MaxDocuments,  \* bound: documents that come
  MaxDays        \* bound: days that are sealed

CERTIFIES == "certifies"       MARKUP == "markup"       ESCAPED == "escaped"
Words == {CERTIFIES, MARKUP}
Unavailable == 0               \* the configuration of a verdict without validator
Unreachable == 0               \* nicht erreichbar

ASSUME ConfigAssumption == Configs \subseteq Nat \ {0} /\ Unlucky \subseteq Requests
ASSUME DokuBoundAssumption == MaxDocuments \in Nat /\ MaxDays \in Nat

VARIABLES
  documents,     \* how many documents there are
  checked,       \* how many of them have a result of their sender's check
  judged,        \* the configurations named by the findings
  sealed,        \* the days of archive_chain: 1..sealed, the root of a day is its number
  sidecar,       \* the configuration the validator runs, or Unreachable
  fassungen,     \* the rows of verfahrensdokumentationen, in the order of their commit
  req            \* the requests

world == <<documents, checked, judged, sealed, sidecar>>
vars == <<documents, checked, judged, sealed, sidecar, fassungen, req>>

---------------------------------------------------------------------------
(* The parts of a document *)

\* sections.ts, prose: what is spliced in is no word of the author's.
Prose(data) == [text |-> data, authored |-> {}]
Plain == [text |-> {}, authored |-> {}]

\* types.ts, Fact: a value, the words of it that a reader could have chosen,
\* and where it was read.
TextFact(key, words, source) == [key |-> key, value |-> words, words |-> words, source |-> source]
Fact(key, value, source) == [key |-> key, value |-> value, words |-> {}, source |-> source]

Ask(section, ids) == [i \in 1..Len(ids) |-> [id |-> ids[i], sectionId |-> section]]

Section(id, coverage, body, facts, open) ==
  [id |-> id, coverage |-> coverage, body |-> body, facts |-> facts, openItems |-> Ask(id, open)]

AllgemeineBeschreibung(input) ==
  Section(1, "shared", <<Prose(Tenant.name), Plain, Plain>>,
    << TextFact("tenant_name", Tenant.name, "tenants.name"),
       TextFact("tenant_vat", Tenant.vatId, "tenants.vat_id"),
       TextFact("tenant_tax", Tenant.taxNumber, "tenants.tax_number"),
       TextFact("tenant_country", Tenant.country, "tenants.country"),
       TextFact("tenant_industry", Tenant.industry, "tenants.industry"),
       Fact("tenant_since", Tenant.createdAt, "tenants.created_at") >>,
    <<"andere-eingangskanaele", "kasse", "weiterverarbeitung">>)

\* doku-facts.ts, gatherInbox: an inbox that does not exist is stated as such,
\* and its sender is not checked.
SenderAuthChecked(input) == Inbox # {} /\ input.checked > 0
Address == UNION {i.address : i \in Inbox}

InboxFacts(input) ==
  << TextFact("inbox_address", Address, "inboxes.address"),
     Fact("inbox_active", \E i \in Inbox : i.active, "inboxes.active"),
     Fact("inbox_auth", SenderAuthChecked(input), "@belegbox/ingest"),
     Fact("doc_identity", "SHA-256", "@belegbox/ingest"),
     Fact("doc_count", input.documents, "documents") >>

Belegeingang(input) ==
  Section(2, "belegbox", <<Prose(Address), Plain, Plain, Plain>>,
    InboxFacts(input),
    <<"adresse-bekanntgabe">>)

PruefungDesBelegs(input) ==
  Section(3, "belegbox", <<Plain, Plain, Plain, Plain, Plain>>,
    << Fact("validator_config", input.health, "versions.properties"),
       Fact("validator_sha", input.health, "versions.properties"),
       Fact("kosit_version", input.health, "versions.properties"),
       Fact("engine_version", 1, "@belegbox/validation"),
       Fact("ruleset", Ruleset, "rulesets"),
       Fact("rule_selection", "BT-2", "@belegbox/rules-engine"),
       Fact("versions_in_archive", input.versionsInArchive, "findings") >>,
    <<"umgang-mit-befunden", "freigabe">>)

\* sections.ts, summariseRoles: how many accounts have each role.
SummariseRoles == [r \in {Users[u].role : u \in DOMAIN Users} |->
                     Cardinality({u \in DOMAIN Users : Users[u].role = r})]
UserFacts(input) ==
  << Fact("user_count", Cardinality(DOMAIN Users), "users"),
     Fact("user_roles", SummariseRoles, "users"),
     Fact("user_mfa", <<Cardinality({u \in DOMAIN Users : Users[u].mfa}),
                        Cardinality(DOMAIN Users)>>, "users"),
     Fact("rls", "Row Level Security", "@belegbox/db"),
     Fact("audit", "audit_log", "@belegbox/db") >>

Zugriffsrechte(input) ==
  Section(4, "shared", <<Plain, Plain, Plain>>,
    UserFacts(input),
    <<"rollenzuordnung", "austritt", "einweisung">>)

Aufbewahrung(input) ==
  Section(5, "belegbox", <<Plain, Prose(Storage.objectLockMode), Plain, Plain>>,
    << Fact("storage_backend", Storage.backend, "@belegbox/storage"),
       TextFact("storage_bucket", Storage.bucket, "@belegbox/storage"),
       TextFact("object_lock", Storage.objectLockMode, "@belegbox/storage"),
       Fact("retention_invoices", Tenant.retentionPolicy[1], "tenants.retention_policy"),
       Fact("retention_vouchers", Tenant.retentionPolicy[2], "tenants.retention_policy"),
       Fact("sealed_days", input.sealedDays, "archive_chain"),
       Fact("chain_span", IF input.sealedDays = 0 THEN <<>> ELSE <<1, input.sealedDays>>,
            "archive_chain"),
       Fact("latest_root", input.latestRoot, "archive_chain") >>,
    <<"auslagerung", "beendigung">>)

Systemdokumentation(input) ==
  Section(6, "belegbox", <<Plain, Plain>>,
    << Fact("migration_count", Len(Migrations), "schema_migrations"),
       Fact("migration_latest", IF Migrations = <<>> THEN "keine" ELSE Migrations[Len(Migrations)],
            "schema_migrations"),
       Fact("config_digest", input.health, "versions.properties") >>,
    <<"notfall">>)

\* generate.ts, historySection: the fassung itself, and the one it follows.
HistorySection(input) ==
  Section(7, "belegbox", <<Plain, Plain, Prose({})>>,
    << Fact("doc_version", input.version, "verfahrensdokumentationen"),
       Fact("doc_previous", input.previousHash, "verfahrensdokumentationen") >>,
    <<"fassung-freigabe">>)

Sections(input) ==
  << AllgemeineBeschreibung(input), Belegeingang(input), PruefungDesBelegs(input),
     Zugriffsrechte(input), Aufbewahrung(input), Systemdokumentation(input),
     HistorySection(input) >>

NoInput ==
  [version |-> 0, previousHash |-> {}, health |-> Unreachable, documents |-> 0,
   versionsInArchive |-> {}, checked |-> 0, sealedDays |-> 0, latestRoot |-> {}]

---------------------------------------------------------------------------
(* Generating: a pure function of the input *)

\* Variant: everything a reader sees is linted, what was spliced in included.
LintText(sections) ==
  {s \in 1..Len(sections) :
     \E i \in 1..Len(sections[s].body) : CERTIFIES \in sections[s].body[i].text}

\* generate.ts, lintDocument over lint.ts' rules: the authored words only.
LintDocument(sections) ==
  {s \in 1..Len(sections) :
     \E i \in 1..Len(sections[s].body) : CERTIFIES \in sections[s].body[i].authored}

OpenItems(sections) ==
  UNION {{sections[s].openItems[i] : i \in 1..Len(sections[s].openItems)} : s \in 1..Len(sections)}

\* What the lint finds: which words a paragraph has does not depend on what was
\* gathered.
Findings == LintDocument(Sections(NoInput))

\* generate.ts: refuses a hole in the chain, and any certifying sentence.
Refuses(input) ==
  \/ input.version < 1
  \/ input.version > 1 /\ input.previousHash = {}
  \/ Findings # {}

\* generate.ts, canonicalise: the content in document order, not the HTML.
\* Left out is what is the same in all fassungen of one tenant.
Canonicalise(input) ==
  <<input.version, input.previousHash, SenderAuthChecked(input), input.documents, input.health,
    input.versionsInArchive, input.sealedDays, input.latestRoot>>

\* generate.ts
Generate(input) ==
  LET sections == Sections(input) IN
  [version |-> input.version, sections |-> sections, openItems |-> OpenItems(sections),
   complete |-> OpenItems(sections) = {},
   previousHash |-> input.previousHash, contentHash |-> Canonicalise(input)]

EscapeHtml(words) == IF MARKUP \in words THEN (words \ {MARKUP}) \cup {ESCAPED} ELSE words

\* Variant: what the table of facts shows was read from the system, and is
\* written as it is.
FactAsRead(fact) == fact.words

\* render.ts, factValue
FactValue(fact) == EscapeHtml(fact.words)

\* render.ts, renderSection: the words of a section that come from the tenant.
RenderSection(section) ==
  UNION ({EscapeHtml(section.body[i].text) : i \in 1..Len(section.body)}
         \cup {FactValue(section.facts[i]) : i \in 1..Len(section.facts)})

\* render.ts: the status is on the first page.
RenderHtml(doc) ==
  [fassung |-> doc.version, hash |-> doc.contentHash, previous |-> doc.previousHash,
   status |-> IF doc.complete THEN "done" ELSE "draft", open |-> Cardinality(doc.openItems),
   words |-> EscapeHtml(Tenant.name)
             \cup UNION {RenderSection(doc.sections[s]) : s \in 1..Len(doc.sections)}]

\* verfahrensdoku.ts: the row that insertDoku writes.  Its html, open_items and
\* complete are those of the document of its facts.
RowOf(input) ==
  [version |-> input.version, contentHash |-> Canonicalise(input),
   prevHash |-> input.previousHash, facts |-> input]

---------------------------------------------------------------------------
(* The requests *)

\* doku-facts.ts: all gatherers start at once on one connection, which runs
\* their statements in the order they are submitted: the first of each, then
\* the rest.
Statements == <<"documents", "versions", "auth", "days", "root">>

Started == [at |-> "started", next |-> 1, input |-> NoInput, reply |-> 0]

FirstInput == [NoInput EXCEPT !.version = 1]

\* A request of an earlier day may have made the first fassung.
Init ==
  /\ documents = 0 /\ checked = 0 /\ judged = {} /\ sealed = 0
  /\ sidecar \in Configs \cup {Unreachable}
  /\ fassungen \in {<<>>, <<RowOf(FirstInput)>>}
  /\ req = [q \in Requests |-> Started]

\* The sidecar is asked before the transaction opens.
ProbeValidator(q) ==
  /\ req[q].at = "started"
  /\ req' = [req EXCEPT ![q].at = "probed",
                        ![q].input = [@ EXCEPT !.health = sidecar]]
  /\ UNCHANGED <<world, fassungen>>

\* The greatest version, as latestDoku finds it.
Latest ==
  fassungen[CHOOSE i \in 1..Len(fassungen) :
              \A j \in 1..Len(fassungen) : fassungen[j].version <= fassungen[i].version]

NextVersion == IF fassungen = <<>> THEN 1 ELSE Latest.version + 1
PreviousHash == IF fassungen = <<>> THEN {} ELSE {Latest.contentHash}

LatestDoku(q) ==
  /\ req[q].at = "probed"
  /\ req' = [req EXCEPT ![q].at = "gathering",
                        ![q].input = [@ EXCEPT !.version = NextVersion, !.previousHash = PreviousHash]]
  /\ UNCHANGED <<world, fassungen>>

\* What one statement of the gathering adds to the input.
Gathered(input, statement) ==
  CASE statement = "documents" -> [input EXCEPT !.documents = documents]
    [] statement = "versions" -> [input EXCEPT !.versionsInArchive = judged]
    [] statement = "auth" -> [input EXCEPT !.checked = checked]
    [] statement = "days" -> [input EXCEPT !.sealedDays = sealed]
    [] statement = "root" -> [input EXCEPT !.latestRoot = IF sealed = 0 THEN {} ELSE {sealed}]

GatherFacts(q) ==
  /\ req[q].at = "gathering"
  /\ req[q].next <= Len(Statements)
  /\ req' = [req EXCEPT ![q].input = Gathered(req[q].input, Statements[req[q].next]),
                        ![q].next = @ + 1]
  /\ UNCHANGED <<world, fassungen>>

Fail(q) == req' = [req EXCEPT ![q].at = "over", ![q].reply = 500]

\* All statements of the gathering have answered.
GatheredAll(q) == req[q].at = "gathering" /\ req[q].next > Len(Statements)

Taken(version) == \E i \in 1..Len(fassungen) : fassungen[i].version = version
Holds(q, version) == req[q].at \in {"inserted", "answered"} /\ req[q].input.version = version

\* Variant: the number and the predecessor are looked up at the insert.
InsertNumberedLate(q) ==
  /\ GatheredAll(q)
  /\ \A p \in Requests \ {q} : req[p].at \notin {"inserted", "answered"}
  /\ req' = [req EXCEPT ![q].at = "inserted",
                        ![q].input = [@ EXCEPT !.version = NextVersion, !.previousHash = PreviousHash]]
  /\ UNCHANGED <<world, fassungen>>

\* Variant: the table is locked from the first read on.
InsertWaitsForAll(q) ==
  /\ GatheredAll(q)
  /\ \A p \in Requests \ {q} : req[p].at \notin {"gathering", "inserted", "answered"}
  /\ req' = [req EXCEPT ![q].at = "inserted"]
  /\ UNCHANGED <<world, fassungen>>

\* generate, then insertDoku.  When generate throws, or the version has been
\* committed by another, the transaction is rolled back and the answer is 500;
\* UNIQUE (tenant_id, version) waits for one that has it uncommitted.
InsertDoku(q) ==
  /\ GatheredAll(q)
  /\ ~Refuses(req[q].input) => \A p \in Requests \ {q} : ~Holds(p, req[q].input.version)
  /\ IF Refuses(req[q].input) \/ Taken(req[q].input.version) THEN Fail(q)
     ELSE req' = [req EXCEPT ![q].at = "inserted"]
  /\ UNCHANGED <<world, fassungen>>

\* reply.send is called inside the transaction: 201 leaves before COMMIT.
Answer(q) ==
  /\ req[q].at = "inserted"
  /\ req' = [req EXCEPT ![q].at = "answered", ![q].reply = 201]
  /\ UNCHANGED <<world, fassungen>>

\* withTenant's COMMIT.
Commit(q) ==
  /\ req[q].at = "answered"
  /\ fassungen' = Append(fassungen, RowOf(req[q].input))
  /\ req' = [req EXCEPT ![q].at = "over"]
  /\ UNCHANGED world

\* The connection is lost: the transaction is gone, and so is what it inserted;
\* an answer that was sent stays sent.
LoseConnection(q) ==
  /\ q \in Unlucky
  /\ req[q].at \in {"gathering", "inserted", "answered"}
  /\ req' = [req EXCEPT ![q].at = "lost", ![q].reply = IF req[q].reply = 0 THEN 500 ELSE req[q].reply]
  /\ UNCHANGED <<world, fassungen>>

---------------------------------------------------------------------------
(* The system that goes on running *)

\* The worker inserts a document that came by mail, what its headers say of the
\* sender, and its findings in one transaction.
Receive ==
  /\ documents < MaxDocuments /\ checked < MaxDocuments
  /\ documents' = documents + 1
  /\ checked' = checked + 1
  /\ judged' = judged \cup {IF sidecar = Unreachable THEN Unavailable ELSE sidecar}
  /\ UNCHANGED <<sealed, sidecar, fassungen, req>>

SealDay ==
  /\ sealed < MaxDays /\ sealed < documents
  /\ sealed' = sealed + 1
  /\ UNCHANGED <<documents, checked, judged, sidecar, fassungen, req>>

\* The sidecar goes away, comes back, or is deployed anew.
SidecarChanges ==
  /\ sidecar' \in (Configs \cup {Unreachable}) \ {sidecar}
  /\ UNCHANGED <<documents, checked, judged, sealed, fassungen, req>>

Step(q) ==
  \/ ProbeValidator(q) \/ LatestDoku(q) \/ GatherFacts(q)
  \/ InsertDoku(q) \/ Answer(q) \/ Commit(q)

Next ==
  \/ \E q \in Requests : Step(q) \/ LoseConnection(q)
  \/ Receive \/ SealDay \/ SidecarChanges

\* Every request runs to its end; documents, sealing and the sidecar owe nothing.
Fairness == \A q \in Requests : WF_vars(Step(q))
Spec == Init /\ [][Next]_vars /\ Fairness

---------------------------------------------------------------------------
(* Properties *)

\* The tables and the requests have the shape the code gives them; a request
\* never states more than the system has come to.
TypeOK ==
  /\ documents \in 0..MaxDocuments /\ checked \in 0..MaxDocuments
  /\ judged \subseteq Configs \cup {Unavailable}
  /\ sealed \in 0..MaxDays
  /\ sidecar \in Configs \cup {Unreachable}
  /\ \A q \in Requests :
       /\ req[q].at \in {"started", "probed", "gathering", "inserted", "answered", "over", "lost"}
       /\ req[q].next \in 1..Len(Statements) + 1
       /\ req[q].reply \in {0, 201, 500}
       /\ req[q].input.documents <= documents
       /\ req[q].input.versionsInArchive \subseteq judged
       /\ req[q].input.version \in 0..Len(fassungen) + 1

\* Variant: only the newest link is compared.
VerifyNewest(rows) ==
  Len(rows) > 1 => rows[Len(rows)].prevHash = {rows[Len(rows) - 1].contentHash}

\* verfahrensdoku-store.ts, verifyDokuChain: listDoku's rows by version, each
\* naming the content hash of the one before it.
VerifyDokuChain(rows) ==
  \A i \in 1..Len(rows) : rows[i].prevHash = IF i = 1 THEN {} ELSE {rows[i - 1].contentHash}

\* What whoever owns the table can make of row i with the trigger switched off;
\* the constraint chain_start stays.  `facts` stands for the page as well.
Hashes == {<<>>} \cup {fassungen[j].contentHash : j \in 1..Len(fassungen)}
Alterations(i) ==
  [version : {fassungen[i].version}, contentHash : Hashes,
   prevHash : IF fassungen[i].version = 1 THEN {{}} ELSE {{h} : h \in Hashes},
   facts : {fassungen[i].facts, NoInput}]

\* And the rows that are left when it is deleted.
RowsWithout(i) ==
  [j \in 1..Len(fassungen) - 1 |-> fassungen[IF j < i THEN j ELSE j + 1]]

\* verfahrensdoku.ts:97: two concurrent generations cannot both claim the same
\* number, and the chain does not fork: the fassungen on record are 1, 2, ...,
\* and every one names its predecessor.
FassungenAreOneChain ==
  /\ \A i \in 1..Len(fassungen) : fassungen[i].version = i
  /\ VerifyDokuChain(fassungen)

\* verifyDokuChain is all that is ever compared (verfahrensdoku.ts:40).  Of what
\* the owner of the table changes past the trigger it shows a content hash that
\* a later fassung follows, a link, and a fassung missing in the middle.  It
\* does not show facts or a page that were changed beside their content hash,
\* nor the newest fassung changed or gone: store.ts:104 and types.ts:193 mean it
\* to show that a stored fassung was altered.
ChangedHashesShow ==
  \A i \in 1..Len(fassungen) :
    /\ \A row \in Alterations(i) :
         VerifyDokuChain([fassungen EXCEPT ![i] = row]) <=>
           /\ row.prevHash = fassungen[i].prevHash
           /\ i < Len(fassungen) => row.contentHash = fassungen[i].contentHash
    /\ VerifyDokuChain(RowsWithout(i)) <=> i = Len(fassungen)

\* GoBD Rz. 154, generate.ts: a later fassung describes the system no earlier
\* than the one it follows: it counts no fewer documents or sealed days, and
\* names every configuration the earlier one named.
LaterFassungKnowsMore ==
  \A i, j \in 1..Len(fassungen) :
    i < j => LET before == fassungen[i].facts  after == fassungen[j].facts IN
      /\ before.documents <= after.documents
      /\ before.sealedDays <= after.sealedDays
      /\ before.versionsInArchive \subseteq after.versionsInArchive
      /\ before.checked <= after.checked

\* gatherArchive reads the span of the chain and its root in two statements: a
\* day sealed in between makes the root the younger one, never the older one.
RootIsOfTheSpanOrLater ==
  \A i \in 1..Len(fassungen) :
    LET stated == fassungen[i].facts IN
    /\ stated.sealedDays > 0 => stated.latestRoot # {}
    /\ \A root \in stated.latestRoot : root >= stated.sealedDays

\* The fassungen on record are one history of a system that only grows: a chain
\* without a fork, in which none goes behind the one before it, and no root
\* behind its span.
FassungenAreOneHistory ==
  FassungenAreOneChain /\ LaterFassungKnowsMore /\ RootIsOfTheSpanOrLater

\* sections.ts: a tenant's own name is data, and data cannot be an authoring
\* mistake: a request is refused only for a fassung that another one made first.
OnlyLosersAreRefused ==
  \A q \in Requests :
    req[q].at = "over" /\ req[q].reply = 500 => Taken(req[q].input.version)

\* verfahrensdoku.ts answers 201 inside the transaction: what was answered is
\* on record, or its COMMIT is still to come, or its connection was lost.
AnsweredIsOnRecord ==
  \A q \in Requests :
    req[q].reply = 201 => \/ req[q].at \in {"answered", "lost"}
                          \/ \E i \in 1..Len(fassungen) : fassungen[i].facts = req[q].input

\* Neither answer deceives: a refusal is for a request that another was ahead
\* of, a 201 for a fassung that is, or was about to be, on record.
AnswersAreTrue == OnlyLosersAreRefused /\ AnsweredIsOnRecord

\* types.ts: a half-finished documentation presented as finished is the failure
\* the page prevents: what is handed over says that it is a draft, bears the
\* hash of its own content, and shows the tenant's texts as text.
HandedOverAsWhatItIs ==
  \A i \in 1..Len(fassungen) :
    LET doc == Generate(fassungen[i].facts)
        html == RenderHtml(doc)
    IN /\ doc.openItems # {} => ~doc.complete /\ html.status = "draft"
       /\ html.open = Cardinality(doc.openItems)
       /\ html.hash = fassungen[i].contentHash
       /\ MARKUP \notin html.words

\* Every request is answered in the end, the one that waits for another's
\* insert included.
EveryRequestIsAnswered == \A q \in Requests : <>(req[q].at \in {"over", "lost"})
=============================================================================
