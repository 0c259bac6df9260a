# BelegBox in TLA+

BelegBox receives e-invoices by e-mail and by upload, validates them (XRechnung, ZUGFeRD,
Factur-X, German rules D-001 to D-009), records them per tenant in PostgreSQL, keeps their
bytes in a write-once object store, and seals each day's documents under a Merkle root that
names the previous day's. At the end of a month the tenant takes out bookings, originals and
payment data, and generates the Verfahrensdokumentation that the law asks for. This directory
holds TLA+ models of these parts, TLC instances of them, and proofs that TLAPS checks. Every
definition is translated from the code; `PROJECT.json` (`map`) names the lines each of them
stands for.

## Inventory

| Part | State it keeps | Operations | What makes it hard | What makes it correct |
|---|---|---|---|---|
| Archive (`packages/archive`, `packages/db/src/archive-store.ts`) | `archive_chain`, `documents.archived_at`, `archive_hash` | `archiveDocument`, `sealArchiveDay`, `proofForDocument`, `verifyChain` | several READ COMMITTED statements per operation, no lock between them, the clock; unbalanced trees | roots cover what was archived, the chain verifies and only grows, proofs stay true and convince of nothing else |
| Receiving (`apps/worker`, `packages/ingest`, `apps/api/src/upload.ts`) | `inbound_messages`, `documents`, `findings`, objects; without PostgreSQL `records.jsonl`; Mailgun's used tokens | webhook, upload | redelivery while the first delivery runs, rollbacks, lost answers, deadlocks, two paths to the same row | nothing that was answered is lost, nothing is recorded twice, no row without bytes |
| Reading of mail and invoices (`packages/ingest`, `packages/core-invoice`) | none | `ingestMessage`, `detect` | PDF containers of all sorts, overlapping profile names | a whole invoice is taken for what it is, and what does not begin as one for nothing |
| Object store (`packages/storage`) | objects under their digest, retention | `put`, `get`, `head` | conditional writes, a fallback without them, two writes for one object | written once, and kept |
| Validation (`packages/validation`, `services/mustang-svc`) | none; sidecar configured or not, reachable or not | `validateDocument` | partial failure of the validator and the lookups | a verdict is never guessed, silence is not a pass |
| Explanations (`packages/explain`, the document's page) | none; the templates of a release | `loadTemplateDir`, `renderBoth` | findings outlive the release that found them | what is found is explained, and in no unreviewed words |
| Rules engine (`packages/rules-engine`) | loaded rule sets | `loadRuleSet`, `evaluateRuleSet`, `dryRun` | missing fields, division by zero, mistakes the loader does not see | a rule fires exactly on its condition, a document's report is its own |
| Accounts (`apps/api/src/auth.ts`, `account.ts`, `password-reset.ts`, `packages/auth`, `packages/db/src/auth.ts`) | users, sessions, reset tokens, recovery codes, login attempts | login, second factor, reset, sign-out everywhere | stale reads before a password hash is verified, one-time claims, statements that commit one by one | a one-time value is used once, a completed reset leaves no old session |
| Signup, tenants, API keys (`apps/api/src/routes.ts`, `packages/db/src/tenants.ts`) | tenants, inboxes, users, keys | signup, views, language, keys | two transactions per sign-up, answers before the COMMIT | an account is whole, and its rows reach nobody else |
| Database client (`packages/db/src/client.ts`) | pool of connections, the tenant each carries | `withTenant`, `withAdmin` | nested checkout at the pool's limit, lost connections | no connection is leaked, no tenant context survives |
| Provisioning (`packages/db/src/provision.ts`, `migrate.ts`) | role, schema, `schema_migrations` | `provision` | several deployers, interruptions, a release that serves meanwhile | whoever says "ready" is right |
| Verfahrensdokumentation (`packages/verfahrensdoku`, `verfahrensdoku-store.ts`) | versions chained by hash | generate, list, verify | two generations at a time, facts gathered statement by statement | one history of versions |
| Month-end (`packages/datev`, `packages/beleg-export`, `packages/payments` and their routes) | none | export, bundle, GiroCode, SEPA batch | two listings of one period, suppliers' texts in formats of lines and separators, name collisions, objects that fail | nothing of a period goes missing unnamed, what is written is read as meant |
| Search, mail sending, web front end, CLI | none | query, send, render | | |

The worker and the API are Node processes: requests interleave at every `await`, and several
processes may run. They share nothing but PostgreSQL and the object store. Webhook and upload
call detection, parsing and validation (which calls the sidecar over HTTP), then the object
store, then the database; the upload also archives. The month-end exports and the
Verfahrensdokumentation read what the others have written, while they go on writing.

## Modules

| Module | Models | Status |
|---|---|---|
| `ArchiveChain` | the archive: one action per SQL statement of its operations, several connections, midnight | checked, proved |
| `Ledger` | what the archive promises: archiving and sealing as atomic steps, in the order of days | implemented by `ArchiveChain` with one sealer (checked, proved) |
| `Merkle` | the tree under a day, the proof of one document and its verification | checked, proved |
| `Ingest` | the webhook and the upload: one action per query or object write, with failures, redelivery and deadlocks | checked, proved |
| `Inbox` | what receiving promises: a message is claimed and recorded at once, once | implemented by `Ingest` (checked, proved) |
| `Reading` | what one e-mail holds: addresses, sender's authentication, attachments, PDF containers, profiles | checked, proved (in `Mail`) |
| `Mail` | the worker without PostgreSQL: signatures and tokens, `records.jsonl`, the three object stores; uses `Reading` | checked, proved |
| `Validation` | the verdict on one document, with the sidecar beside it | checked, proved |
| `Domain`, `Explain` | the domain rules; the templates of the explanations | checked, proved (in `Detail`) |
| `Detail` | `Validation` with `Domain` as its third layer, and the page of the document, which uses `Explain` | checked, proved |
| `Rules`, `RuleEngine` | the language of tenant rules; evaluation and the dry run over several documents | checked, proved |
| `Accounts` | one account: sign-in, password reset and change of the authenticator, one action per statement, any number of requests | checked, proved |
| `Tenancy` | the API on its pool: sign-up, views, language and keys, and the tenant a connection carries | checked, proved (in `Service`) |
| `Releases`, `Installation` | what is deployed; the provisioning of a database by several deployers | checked, proved (in `Service`) |
| `Service` | `Tenancy` on a database that `Installation` provisions | checked, proved |
| `Doku` | generations of the Verfahrensdokumentation beside a system that goes on running | checked, proved |
| `Books` | the month-end hand-over: bookings, originals, payment data | checked, proved |
| `*Proofs` | theorems about the module they are named for; `ArchiveChainProofs` is also about `Merkle`, `TenancyProofs` about `Service`, `ValidationProofs` about `Validation`, `Detail` and `RuleEngine` | proved |
| `MC*` | instances for TLC; `MCArchiveAudit` has `MCArchiveChain` and `Merkle` | |

A definition whose comment begins with "Variant:" is a plausible defect, written before the
definition it would replace. No specification uses it; put in the place of that definition it
breaks the property that `PROJECT.json` (`mutants`) pairs it with.

An optional column or variable holds a set throughout: `{}` is NULL or `undefined`, `{v}` is
the value. SHA-256 is taken to be injective.

### ArchiveChain

| Model | Code |
|---|---|
| `archivedOn` | `documents.archived_at` as a UTC day, 0 for NULL; `archive_hash` is written with it |
| `chain` | rows of `archive_chain`; a root is the set of the entries under it |
| `tx` | the open `Db.withTenant` transaction of each connection and what it has read |
| `today` | the clock, by days |
| `served`, `overlapped` | history: proofs that were returned; documents whose archiving was open together with the sealing of their day |
| `ArchiveCheck`, `ArchiveCommit` | `archiveDocument`: the look at the chain, and the `UPDATE ... WHERE archived_at IS NULL` with the COMMIT |
| `SealBegin`, `SealReadPrevious`, `SealReadEntries`, `SealCommit` | `sealArchiveDay`: existing link, latest link, entries, `INSERT` with the COMMIT |
| `ProofReadLink`, `ProofReadEntries`, `ProofServe` | `proofForDocument` |
| `Abort`, `Midnight` | any error or crash before the COMMIT; the next UTC day |

The transactions are READ COMMITTED: each statement sees what was committed before it, and
none of these locks anything the next one depends on. The write of a transaction is its last
statement and shows at the COMMIT, so the two are one step. Days of a document may lie before
`today`: an upload archives at the time its request arrived, which validation may carry past
midnight, and the seed archives past mail.

### Merkle

`MerkleRoot`, `InclusionPath`, `Climb` and `VerifyInclusion` are the functions of
`packages/archive/src/merkle.ts`, and `ProveInclusion` and `VerifyEntryProof` those of
`chain.ts`. `audit` is what an auditor is shown and what the verification says of it; `Claims`
are the honest proofs of every tree, and every entry, path, place and size one can put together
from that tree, also cut short, lengthened and with halves of inner nodes passed off as entries.

### Ingest

| Model | Code |
|---|---|
| `claims` | `inbound_messages`, unique on (provider, provider_message_id) |
| `documents`, `findings`, `archived` | `documents`, unique on (tenant_id, raw_sha256), and what belongs to its rows |
| `objects` | the object store; a key is the digest alone |
| `req` | where each request is in `PostgresDocumentStore.ingest` or in the upload handler, and what its open transaction has inserted |
| `acked` | jobs whose sender has a 2xx |
| `Resolve`, `ClaimUnroutable`, `PutObject`, `Stored`, `Claim`, `InsertDocument`, `Commit`, `Answer` | the statements and calls of the handlers, in their order |
| `WaitsFor`, `InCycle`, `DeadlockVictim` | an `INSERT ... ON CONFLICT DO NOTHING` waits for the transaction that holds the row; PostgreSQL aborts one transaction of a cycle |
| `Deliver`, `Upload`, `CreateInbox` | the provider, a user, and a sign-up |
| `Fail` | any error or crash at any step; a lost answer is one after the COMMIT |

`ingestMessage` is a pure function of the message; what it finds is the constant `Attachments`.

### Reading and Mail

`Reading` has no state. `IngestMessage` is `ingestMessage`; it calls `Route`
(`parseInboxAddress`), `ParseAuthenticationResults`, `PayloadFromPdf` and `Detect` as the code
does. A text is what the code looks for in it: an address is the parts of its local part, a
guideline URN its markers and its last segment, a PDF its streams with their declared lengths
and filters, and where the word `endstream` stands in what they hold. Of XML the model keeps how
its markup ends: "whole", "open" (cut in a text or between two elements, which a parser that does
not validate takes for a document) or "broken" (cut where it throws: in a tag, a comment or an
invoice line). `Part` is a file cut at such a place.

| Model | Code |
|---|---|
| `proc` | the memory of the process: `seen` of the development store, the token memory of the Mailgun source |
| `records` | `records.jsonl`, one entry for each append: the lines that reached the file, and where it was cut |
| `objects`, `broken` | the versions stored under each digest, with or without all of their bytes and their retention; history: digests whose file somebody left unfinished |
| `backend` | `FilesystemObjectStore`, `S3ObjectStore`, or the latter on a server without conditional writes |
| `Deliver`, `Verify`, `Consume` | the provider; `verify` of the source, and its token memory |
| `ReadRecords`, `LoadSeen`, `Check` | `seen` of the store: read, kept, asked, to the next `await` each |
| `CreateFile`, `WriteBytes`, `WriteSidecar`; `PutIfNone`; `HeadObject`, `PutPlain` | `put` of each object store, one action per write or call; `writeFile` with `wx` makes the file and fills it later, and meanwhile another `put` meets `EEXIST` |
| `AppendRecords`, `Answer` | the lines in `records.jsonl`, and the 2xx |
| `AppendIsCut` | the append ends between two lines, within one or before the last line break, with an error or with the process |
| `Fails`, `Restart`, `Tick` | an error at any step, which leaves a file as it is; the process stops and its memory is gone; time, in units of the signature's tolerance |

### Validation

`sidecar`, `doc` and `client` are the world: whether the sidecar runs and has its
configuration, what each validator would say of the document if asked, and whether the caller
has a sidecar at all. `l1` to `l4`, `form` and `row` are the `LayerResult`s, `formVerdict` and
the recorded verdicts. One action stands for each stage of `validateDocument` with one outcome:
`NotAnEInvoice`, `Detect`, `DetectThrows`; `SkipForm`, `FormDoesNotApply`, `ValidatorUnavailable`,
`ValidatorUnconfigured`, `ValidatorAnswers`; `ParseInvoice`, `RunDomainRules`,
`RunTenantRules`, `TenantRulesThrow`, `Judge`; `Record` and `Redeliver` are the caller and the
sender. `ValidatorUnavailable` is possible in every state of the sidecar: a request may take
longer than 20 seconds. The sidecar changes between any two steps.

### Domain, Explain and Detail

`Validation` leaves open what a domain rule says; `Detail` does not. `ctx` is what a document
says and what the lookups answer (`DomainContext`), `D001` to `D009` are the rules of those
names, and `DomainFindings` is `runDomainRules`. `ReadDetail` is GET `/v1/documents/:id`, at any
time after the document was recorded and by any release that starts (`LoadTemplateDir`):
`Explanation` is `renderBoth` under the route's `catch`. Of a template's two texts the model
keeps which parameters they use, whether they cite, advise, or bring a disclaimer.

### Rules and RuleEngine

`LoadRuleSet`, `EvaluateNode`, `ApplyOperator`, `ResolveField`, `RuleApplies`, `IterationScope`,
`EvaluateExpression` and `RunActions` are the functions of `packages/rules-engine` of the same
names. A draft is a ruleset as somebody wrote it, with the kind (`typeof`) of each value; a run
begins with one that loads. `place`, `produced`, `hits`, `counts` and `errors` are the loops and the
report of `dryRun`; a step is one entry of the innermost loop. Numbers are integers in
hundredths, so the cent tolerance of a comparison is equality. Lexicons and regular expressions
are equality of text, and an expression has one operator. `Nodes` are the conditions the drafts are
made of and `Height` says how deep each is; what a tree of conditions says is a recursive function
of its nodes, as the tree of hashes in `Merkle` is one of its slices, so that both can be proved
about. The specification is `EngineSpec`.

### Accounts

| Model | Code |
|---|---|
| `user` | the row of `users`; `stale` is a pending secret past PENDING_TTL_MS, `locked` a `locked_until` in the future |
| `used`, `codes`, `links`, `live` | `totp_used`; unspent `recovery_codes`; live `password_resets`; sessions neither revoked nor expired |
| `clock` | TOTP time steps of 30 seconds; every other time limit may pass at any moment (`ExpireLink`, `ExpirePending`, `ExpireLock`, `EndSession`) |
| `req` | where each request is in its handler, and what it has read and still uses |
| `generated`, `won`, `proven`, `lapsed` | history: secrets from the generator; who claimed what; secrets of which a code was checked; the last lock ran out |
| `LoginWrong`, `LoginRecovery`, `LoginCode`, `LoginPlain` | `attemptLogin` on the row `handleLogin` has read, by outcome |
| `LoginConsume`, `LoginRecover`, `LoginFail`, `LoginActivate`, `LoginIssue`, `LoginRecord` | the statements after it: `consume_totp`, `claim_recovery_code`, `record_login_attempt(false)`, `setTotpSecret`, `createSession`, `record_login_attempt(true)` |
| `ResetRequest`, `ResetMark`, `ResetInsert` | `handleResetRequest`; `issue_password_reset` looks before it writes |
| `ResetRead`, `ResetConsume`, `ResetClaim`, `ResetApply`, `ResetRevoke` | `handleResetConfirm` |
| `Authenticate`, `RotateBegin`, `RotatePend` | POST `/v1/account/mfa/begin` |
| `RotateConfirm`, `RotateDiscard`, `RotatePromote`, `RotateRevoke`, `RotateIssue` | POST `/v1/account/mfa/confirm`; `activatePendingTotp` locks the row of the user, so its transaction is one step |
| `Break` | an error, a statement timeout or a crash at any step |

`handleLogin` reads the user before it hashes the password, and every decision of the request
rests on that reading; the model keeps what is carried over in `req`. Passwords and codes are
right or wrong, chosen by the environment. A refusal that writes nothing leaves the request
where it was, and is not a step.

### Tenancy, Installation and Service

| Model | Code |
|---|---|
| `pool` | `pg.Pool`: each connection's holder, open transaction and `app.tenant_id`, and the queue |
| `req`, `op` | how far each request is, with what it has staged in its open transaction; what it asks |
| `Arrive`, `Provision`, `InsertOwner` | POST `/v1/tenants`: validation, `provision_tenant` in a transaction of its own, the owner in a second one |
| `Begin`, `ReadSubject`, `ResolveLanguage`, `AnswerView` | GET `/v1/tenant` and `/v1/documents/:id`, which authenticate on a second connection while they hold the first |
| `SetLanguage`, `ListKeys`, `Reauthenticate`, `CreateKey`, `RevokeKey` | the language and the API keys |
| `Touch` | the update of a session's last use, which nobody awaits |
| `Commit`, `Rollback`, `CheckoutTimesOut`, `ConnectionLost` | `withTenant` and `withAdmin`, the pool's timer, a connection that breaks at any moment |
| `role`, `applied`, `recorded`, `dep` | the application role, the statements in force, `schema_migrations`, and where each deployer is |
| `LookForRole` to `Verify`, `Interrupted` | `provision.ts` and `migrate.ts`, one action per statement or file; a deployer may stop at each and be started again |

`Service` composes the two with `INSTANCE Installation WITH`: the files in force (`schema`) are
what the statements of `Tenancy` meet, and the rows `Tenancy` has committed or is writing are what
the constraint of a migration meets and waits for. The API serves once `assertRlsEnforced` has
passed, which may be before the files are complete.

### Doku

| Model | Code |
|---|---|
| `documents`, `checked`, `judged`, `sealed`, `sidecar` | what the facts are gathered from, and what goes on changing (`Receive`, `SealDay`, `SidecarChanges`) |
| `fassungen` | the rows of `verfahrensdokumentationen`, which a trigger keeps from being changed |
| `Alterations`, `RowsWithout` | what whoever owns the table could put in the place of a row past the trigger: any hashes, also one without its facts; and the rows that are left without one |
| `ProbeValidator`, `LatestDoku`, `GatherFacts`, `InsertDoku`, `Answer`, `Commit` | the handler: the probe, the latest fassung, the facts one statement at a time, the insert, the 201, the COMMIT |
| `LoseConnection` | the connection or the process ends, before or after the answer |
| `Generate`, `Sections`, `LintDocument`, `RenderHtml`, `Canonicalise` | `packages/verfahrensdoku`; a text is the set of the words in it that the lint or the page tells apart |

An insert whose version an open transaction holds waits for it, and fails if it commits
(`UNIQUE (tenant_id, version)`).

### Books

`DatevExport`, `BundleList`, `BundleRead`, `BundlePack`, `SepaStart`, `SepaTake`, `SepaBuild` and
`GiroCodeExport` are the routes, one action per query or object read, beside `Insert` (the
worker), `ObjectFails` and `ObjectReturns`. A text is a sequence of tokens: letters and the
characters that a format gives a meaning. Conversions do what they do: `Quoted`, `Field`, `Slug`,
`EncodeCp1252` (which folds U+037E to a semicolon), `RoundCents`, `IbanChecksum` (modulo 97),
`EntryName`. A SEPA batch has a debtor without account, with a wrong one or a right one;
`Collation` is where an invoice number stands in the listing's ORDER BY. `ChooseAccounts` and
`Postable` are the tables and the conditions of the Buchungsstapel.

## Runs

| Run | Bounds | What it asks and shows |
|---|---|---|
| `archive_concurrent` | 2 documents, 2 days, 2 archivers, 2 sealers, 1 reader; trees of up to 7 documents | whatever runs beside the archive: a root covers only what was archived on its day and misses only what overlapped its sealing (`RootsHoldTheirDay`); a day has one link, and a previous root is an earlier one (`LinksAreOrdered`); served proofs stay true; a proof convinces an auditor only of what is in the tree, and every document has one (`ProofsConvince`) |
| `archive_one_sealer` | 2 documents, 3 days, 2 archivers, 1 sealer | with one sealer the chain always verifies, and the transactions implement `Ledger` |
| `archive_midnight` (violated) | 1 document, 2 days, 1 archiver, 1 sealer | "a document cannot be archived into a day that already has a chain link": the check and the write are separate statements, and a seal fits between them |
| `ingest_crossed` | 2 messages with the same 2 files in opposite order, one of them delivered twice at a time, an upload of one of the files, 1 failure, an inbox that is there or comes late | a 2xx means recorded, in every interleaving; rows have bytes and findings exist once (`RecordedOnce`), uploads are archived, the requests implement `Inbox`, and every message is answered and every routed one recorded in the end (`EveryDeliverySettles`); deadlocks happen here |
| `mail_deliveries` | some four thousand messages, one of every sort, once; 2 plain ones by 2 requests at a time, up to 3 deliveries, 1 failure, cut append or restart, 3 ages of a signature, 3 object stores (1.3 million states) | what was answered has a line on record, an append that was not cut lists every file, and what is on record is stored whole and kept, but for files somebody is writing or did not finish (`AckedIsKept`); a whole invoice waits for validation, and nothing waits that does not begin as one (`ReadAsWhatItIs`); a token lets one delivery in |
| `validation_verdicts` | every document record, every sidecar state, with and without client; about 400 contexts that differ from a plain invoice in one of five groups of fields; 10 sets of templates | passes are earned; content errors are shown unless a form layer found one too or the sidecar has no configuration (`ContentErrorIsShown`); the sidecar does not stop receiving; a missing field or lookup adds no finding but two warnings, and D-002's where an exemption leaves its reason out (`AbstainsRatherThanGuesses`); findings are explained as soon as they may be, and never before |
| `rules_dry_run` | rulesets in the manner of `rulesets/gastro-de.yaml`, 17 drafts with one mistake each, up to 2 documents out of 72 | the report is what each document alone gives, replaced rules leave no gap, only an answer flags |
| `accounts_requests` | 4 requests of any kind, 2 secrets, 2 failures lock, 3 time steps, no tolerance of codes, one step from check to claim, a step forgotten after one | what may be used once is used once, an owner always needs the second factor, no session survives a change of the credentials, a streak of failures locks |
| `accounts_two_rotations` (violated) | the same | "the new secret is held aside until a code proves it works": a second `begin` between the check of a code and the promotion puts a secret into use of which no code was checked |
| `service_tenants` | 3 requests, 2 connections of which 1 may break, 2 deployers of 2 releases with 2 tries each | "ready" is true, an account is whole, rows and answers stay with their tenant (`TenantsStayApart`), every request is answered, also when everyone waits for a second connection |
| `doku_fassungen` | 2 generations, 1 document, 1 sealed day, a validator with 1 configuration or out of reach, after no or one earlier fassung | the fassungen are one history (`FassungenAreOneHistory`), a refusal and a 201 are true (`AnswersAreTrue`), a draft says so and no text of a tenant becomes markup (`HandedOverAsWhatItIs`), what `verifyDokuChain` shows of an altered table and what not (`ChangedHashesShow`), every request is answered |
| `books_exports` | 5 documents, 10 pairs of export requests, years of 10 days, texts of 4 tokens, archives of 4 entries, 40 tokens for a GiroCode | nothing of a period goes missing unnamed, entries of a bundle have names of their own, lines, scans and payments are read as written, but for manifest lines with a U+037E (`ReadAsWritten`), only the archived bytes are handed over |

Why these bounds are enough to be worth something. Two connections per role give every pairwise
overlap, the third day gives a link with a link before and behind it, two documents let one be
under a root and the other not. Trees of seven have every shape in which a last node rises
alone, once or twice in a row. A cycle of waiting transactions needs two requests with two rows
each. A message is read by a function, so one delivery of each sort is enough; what goes wrong
between deliveries needs two of them and one failure. A cut is at every kind of place: before and
behind the URN, in the markup and between two elements of a file; between, within and at the end of
the lines of an append. Rules look at few fields each: the
contexts vary together those that one rule, or two that share a field, look at. Two invoices are
enough for one to disturb the other, two lines for one to throw after the other has flagged. An
account needs one request to ask for a link or to sign in, one to use it, and two that overlap
with it; the second secret is the one that replaces the first; two more time steps let a claimed
step be forgotten while its code is on its way, and the smallest `PruneAfter` that
`TimeAssumption` allows is the hardest. Views exhaust a pool of two when two of them hold a
connection each, and the third request is the one that has to get through. Two generations
compete for one version; a third would only lose to the winner, and the theorems have any
number. The five documents of the export share a name, have the name the counter would give, and
lie at both ends of a period; account numbers are right, mistyped and swapped. The limits of a
text, an archive and a GiroCode are small so that documents exceed them.

Bounds in guards: `MaxDay`, `MaxFailures`, `MaxClock`, `MaxNow`, `MaxDeliveries`, `MaxTries`,
`MaxLosses`, `MaxDocuments`, `MaxDays`, `MaxLeaves`.

`CHECK_DEADLOCK FALSE` is set where the bounded world ends: the days have passed, the messages
are answered, the document is recorded, the dry run is over, the requests have been answered.

Fairness. `Ingest`: the event loop runs every request that can go on (`WF Handle`), PostgreSQL
breaks deadlocks (`WF DeadlockVictim`), the provider posts a message again while it has no 2xx
(`WF Deliver`). Two messages that carry the same files in opposite order could still deadlock for
ever; PostgreSQL wakes who waits for a row when its holder is aborted, so the insert goes on
before a redelivery has come through the network (`SF InsertFurther`). Failures are bounded by
`MaxFailures`, so the property holds once failures stop. Nobody has to upload again or to sign up.
`Validation`: a request that has arrived runs on (`WF Pipeline`), and the sender delivers again
(`WF Redeliver`); nothing makes the sidecar come back, and no property relies on it. `Doku`: a
request runs on (`WF Step`), and PostgreSQL ends the wait for an insert when the transaction
before it ends. `Service`: a request with a connection runs on (`WF Step`), and the pool's timer
fires (`CheckoutTimesOut`, the 10 seconds of `connectionTimeoutMillis`): without it, views that
wait for one another wait for ever, which the mutant `NeverTimesOut` shows. No deployer is obliged
to finish. The other modules assume nothing and have safety properties only.

## Findings

`archive_midnight` and `accounts_two_rotations`; `PROJECT.json` (`findings`) quotes the sentences
that they refute.

## Observations without a run

What the models, and reading the code for them, brought up besides; none of it is a property that
a run checks.

Archive
- Sealing leaves gaps: `sealArchiveDay` does not look at the days before its own, and the only
  caller seals days that have documents (`apps/api/src/seed.ts:218`), while
  `packages/db/README.md:69` says that an empty day still seals. A skipped day can never be
  sealed afterwards.
- "The chain only moves forward" (`archive-store.ts:155`) compares with the latest committed
  link; two sealers of different days that overlap may commit the later day first. Today there
  is one sealer. `LinksAreOrdered` is what holds with any number of them, `ChainVerifies` and
  `ImplementsLedger` need one.
- The worker records documents and never archives them (`postgres-store.ts:148`);
  `archiveDocument` is called by the upload and the seed. `seed.ts:206` says that in production
  every document is archived.
- The day column is read as a local midnight by the driver (`archive-store.ts:105`): the code
  wants a process that runs in UTC.
- The size in a proof is not authenticated: a proof with another place and size can verify, and
  `verifyEntryProof` (`chain.ts:159`) uses the root that the proof brings, which nobody compares
  with the link. It says that the document is in the tree, not at which place.

Receiving
- One e-mail to two inboxes: `types.ts:30` calls `providerMessageId` "The provider's own id", and
  `mailgun.ts:93` takes the Message-Id header, which is the same in every delivery of the e-mail,
  whatever the tenant. The claim is unique on (provider, provider_message_id), so the second
  inbox's delivery is answered as a duplicate and recorded for nobody. The run of `Ingest` gives
  every message an id of its own.
- A delivery that is repeated with the same signature is answered 401 (`mailgun.ts:78`), against
  `server.ts:117-118`: the token is consumed before the message is processed.
- The development store's `seen` sets: two first requests load one each, and the second delivery of
  a message may be recorded again (`store.ts:224-248`).
- The file store makes a file before it writes it (`filesystem.ts:35`, flag `wx`). When the write
  fails or the process stops there, the file stays empty or short, and its retention is never
  written. The redelivery meets `EEXIST`, which counts as "already existed" (`filesystem.ts:52-53`),
  records the document and is answered 2xx; so is a second message that comes while the first
  still writes. No later call repairs it. `AckedIsKept` names these files and shows that there are
  no others.
- `records.jsonl` is appended in one write of several lines (`store.ts:171-185`). One that is cut
  keeps its first lines, `loadSeen` (`store.ts:228-242`) takes any of them for the whole message, and
  the redelivery after a restart is answered as a duplicate: the other documents of the message are
  stored and not listed. A line without its break runs on into the next entry, and neither can be
  parsed then.
- The detector does not ask whether XML is well-formed (`detect.ts:25`, `:193`), and `pdf.ts:282-285`
  says that "nothing downstream can tell a short invoice from a truncated one". A stream whose
  length is wrong and that holds the word `endstream` in a text behind its guideline URN is cut there,
  recognised and recorded as waiting for validation. `ReadAsWhatItIs` says what waits: whatever
  begins as an invoice.
- `s3.ts` does not recognise the 409 that concurrent conditional writes may get; the retention of
  an object is not extended when a later year's delivery brings the same bytes (`s3.ts:155`,
  `store.ts:204`, against `s3.ts:62`).
- `parseInboxAddress` accepts plus-addressing and the development store ignores the suffix of an
  address, but `resolve_inbox` matches exactly. A plus tag behind the local part makes an address
  unroutable. A multipart message over the limit gets a 400 and is never recorded.
- A guideline URN with the markers of two families gets a format and a profile that disagree
  (`detect.ts:84`, `profiles.ts:80`); `CrossIndustryInvoice` is accepted in any namespace; of a PDF
  that was updated incrementally the superseded file is still extracted, and comes first
  (`pdf.ts:83-118`).

Validation and rules
- Without its configuration the sidecar answers 200 with `ran: false, valid: false`
  (`Validators.java:90-93`), which `pipeline.ts:135` reads as a failed form check without a
  finding, while `README.md:27` says the verdict reads `unknown`. A content error of the same
  document is then recorded as `form_error`, against `pipeline.ts:241-245` ("Content is judged before an unrun form
  check, so the status reports the strongest thing actually known"). `ContentErrorIsShown` excepts this case.
- A tenant rule that throws (`line.net * 0.12` of `rulesets/gastro-de.yaml:46-48` on a line
  without a net amount, `expr.ts:112`) ends every delivery of the document with a 500, and it is never
  recorded, while `README.md:580` says that nothing inbound is discarded. `RecordedWithoutSidecar` is
  about the other documents.
- A condition that abstains makes a surrounding `none` true (`evaluate.ts:78`), so that an outage of
  VIES yields a finding, against `README.md:597-600`. `OnlyAnswersFlag` excepts conditions under `none`.
- Above the 12 MB ceiling of the deep parse the pipeline stands down, and both callers then parse
  the same bytes for the row (`postgres-store.ts:232`, `upload.ts:221`). The content verdict of a
  document whose content rules did not run is clean (`pipeline.ts:248`).
- `rules.ts:15-16` says that a check that cannot reach an answer produces a warning; without the
  VIES and history ports D-004, D-007 and D-009 are silent (`rules.ts:174`), and no caller passes
  them. A country that is not named counts as Germany (D-005). D-008 compares "EL" of a Greek VAT
  identifier with "GR" of the account, and D-004 never looks a Greek identifier up. "Z" wants an
  exemption reason that EN 16931 forbids, and "O" does not want the one it requires.
- The templates of the tenant rules want parameters that no rule supplies (`evaluate.ts`,
  `runActions`), so their explanations are always withheld by the API and
  `belegbox validate --ruleset ... --explain` throws (`apps/cli/src/format.ts:100`). One template
  that does not load keeps the API from starting (`apps/api/src/index.ts:23`).
- `load.ts` promises rules that "cannot fail for structural reasons"; an expression is only
  tokenised when it loads, and a computation over a line in a rule about the document throws on
  every document it matches. A group with two of `all`, `any` and `none` keeps the first.

Accounts and tenants
- The first sign-in of an owner writes back the secret it has read (`apps/api/src/auth.ts:194`).
  If the authenticator was replaced meanwhile, the old secret returns and the new recovery codes
  remain. It takes two first sign-ins and a rotation within the time of one request.
- Two reset requests at a time leave two live links: neither UPDATE of `issue_password_reset`
  sees the row of the other (`0007_password_reset.sql:42`). Each is still used at most once.
- A reset that fails between `apply_password_reset` and `revoke_sessions_for_user` has changed the
  password and left the sessions; its user is told that it failed. `RevokeReachesAll` is about
  requests that go as far as their answer.
- `tenants.slug` is unique (`0001:7`) and the sign-up passes the bare slug (`routes.ts:130-137`): of two
  companies with one folded name the second gets 409 for ever. A tenant whose owner could not be
  inserted stays, with an active inbox, and blocks the retry (`routes.ts:133-161`, against the comment
  at 178). `AccountsAreWhole` is about sign-ups that were answered with 201.
- Views answer before their COMMIT. Views that exhaust the pool are ended by the pool's timeout of
  10 seconds, with 500s. The guard on the role runs once, at the start, and the API may start before
  the migrations are complete. Rows with an unsupported locale that were written before `0012` make
  it fail.

Verfahrensdokumentation and month-end
- The 201 is sent before the COMMIT: one that is lost leaves a fassung that was answered off
  record. `generated_at` is the time of the BEGIN and may be out of order with the versions.
  `canonicalise` joins with ":" and line breaks that the texts may contain.
- "A fassung whose `prev_hash` does not match its predecessor's `content_hash` means a stored fassung
  was altered after the fact" (`verfahrensdoku-store.ts:103-106`); `types.ts:194` and
  `0008_verfahrensdokumentation.sql:10-12` say that a rewritten fassung 3 no longer matches what
  fassung 4 says. `verifyDokuChain` compares stored hashes and takes none of a text: a page or facts
  that are changed beside their old `content_hash` are not noticed, nor is another content hash of
  the newest fassung, which none follows. Nobody recomputes the hash from the facts, as lines 22-24 of the
  migration offer. `ChangedHashesShow` says exactly what shows.
- `generate` refuses a text that the lint objects to; `GenerateNeverRefuses` proves that it never
  comes to that, because tenants' data are not linted.
- U+037E, the Greek question mark, is folded to a semicolon (`cp1252.ts:88-95`) after the manifest has
  decided which fields to quote (`manifest.ts:55-60`): a supplier's name with it adds a column to its
  line. `ReadAsWritten` excepts manifest lines with it; a Buchungsstapel quotes every text.
- Negative totals are exported with their absolute value as "S" (`extf.ts:87-90`); a booking of the
  following fiscal year is accepted though its DDMM names no year (`extf.ts:250-252`); a document
  named twice in a SEPA batch is paid twice (`payments.ts:152`); documents without a date are in no
  listing; two names of a bundle may differ in nothing but case.

## Proofs

TLAPS proves, for every value of the constants:

| Module | Theorem | Property |
|---|---|---|
| `ArchiveChainProofs` | `TypeCorrect`, `RootsCorrect`, `LinksCorrect`, `ProofsHold`, `AppendOnly` | `TypeOK`, `RootsHoldTheirDay`, `LinksAreOrdered`, `ServedProofsHold`, `ArchiveIsAppendOnly` |
| | `ChainAlwaysVerifies`, `LedgerImplemented`, both assuming `OneSealer` | `ChainVerifies`, `ImplementsLedger` |
| | `Convincing` | `ProofsConvince` of `Merkle`, from `LeadsToRoot`, `OnlyFromItsPlace` and `OnlyFromTheTree` about every tree |
| `IngestProofs` | `TypeCorrect`, `LocksExclude`, `RecordedOnceAndStored`, `AckedRecorded`, `UploadRecordedAndArchived`, `InboxImplemented` | `TypeOK`, `LocksAreExclusive`, `RecordedOnce`, `AckedIsRecorded`, `UploadIsRecordedAndArchived`, `ImplementsInbox` |
| `MailProofs` | `ShapesHold`, `UsedOnce`, `AckedKept`, `ReadRight` | `Shapes`, `TokensAreUsedOnce`, `AckedIsKept`, `ReadAsWhatItIs` |
| `ValidationProofs` | `TypeCorrect`, `Earned`, `Shown`, `FormNeverMixes` | `TypeOK`, `VerdictsAreEarned`, `ContentErrorIsShown`, `FormIsFinal` |
| | `Abstains`, `Explained` | `AbstainsRatherThanGuesses`, `FindingsAreExplained` of `Detail` |
| | `DetailIsValidation` | `DetailSpec => Spec`: `Detail` implements `Validation` |
| | `ReportPerDocument`, `VersionsFollowOnAnother`, `FindingsHaveAnswers` | `ReportIsPerDocument`, `ExactlyOneVersion`, `OnlyAnswersFlag` of `RuleEngine` |
| `AccountsProofs` | `TypeCorrect`, `UsedOnce`, `OwnerVouched`, `NoSessionSurvives`, `StreakIsLocked` | `TypeOK`, `SingleUse`, `SecondFactor`, `RevokeReachesAll`, `StreakLocks` |
| `TenancyProofs` | `TenantsIsolated`, `AccountsWhole`, `DeploymentsHold`, `ReadyMeansCurrent` | `TenantsStayApart`, `AccountsAreWhole`, `Deployments`, `ReadyIsCurrent`, all of `Service` |
| `DokuProofs` | `TypeCorrect`, `ChainDoesNotFork`, `OneHistory`, `AnswersTrue`, `HashesShow`, `HandedOver` | `TypeOK`, `FassungenAreOneChain`, `FassungenAreOneHistory`, `AnswersAreTrue`, `ChangedHashesShow`, `HandedOverAsWhatItIs` |
| `BooksProofs` | `NothingMissing`, `NamesUnique`, `OriginalsOnly`, `EntriesCounted`, `ReadByOthers` | `NothingGoesMissing`, `EntriesHaveTheirOwnNames`, `OnlyOriginalsAreHandedOver`, `EntryCountFits`, `ReadAsWritten` |
| | `ChecksumIsWhole` | the checksum that is kept digit by digit is that of the whole number |

With these, every safety property of a passing run is the statement of a theorem. The type
invariants are proved and not run: a run spends its time on the properties.

Assumptions. Of constants: `MaxDayAssumption` (a natural number of days), `JobAssumption` (what is
sent, by whom and to whom), `ClientsAssumption`, `NoneAssumption` and `NobodyAssumption` (nobody
and no secret is called `None`), `MissingAssumption` (what is missing is none of the answers of
the detection), `TimeAssumption` (below), `ConfigAssumption` and `DokuBoundAssumption`,
`CheckoutsAreLists` (a checkout is a list of files), `RowAssumption` and `BoundAssumption` (what
the columns of a document can hold; the documents of a period are finitely many),
`CounterAssumption` (two counters behind a name are written differently), `NumeralAssumption` (a
number is not written as a separator), that an account number which is long enough has its country
and check digits (`MinIban >= 4`; the code asks for 15), `NodesAssumption` (the conditions of a
ruleset are finite trees: a text has an end), `FieldsAssumption` (what a rule computes is a
number), `InvoicesAssumption` and `DraftsAssumption` (an invoice has lists of lines and of VAT
entries, a rule a scope, dates and a condition; a date is there or not), `ReleasesAssumption` (a
release that starts keeps a template for each key of the first one and declares no parameter for
it that the first one did not; what its texts use, and what a lawyer has approved, is its own),
`CollationAssumption` (an invoice number has one place in an order), and `OneSealer` where it is
named. The bounds of `RuleEngine` and `Merkle` are natural numbers (`DocumentsAssumption`,
`MaxLeavesAssumption`). Of the initial states: in `Mail`, `IsMessage` says what a message can be,
in particular that files of one digest are one file and that nobody takes one of Mailgun's tokens,
which are secret until they are used, for a Message-Id; in `Service` the rows there are at first
are such as the tables' columns and constraints allow (`Possible`), and the database is either
fresh or deployed (`Deployed`); in `Detail` a document says what `DomainContext` has room for. The
sets of documents, connections, requests, messages, digests and deployers are arbitrary, also
infinite but for the documents of `Books`, and the three roles of the archive may overlap.

*ArchiveChain.* What a transaction read is used statements later, so none of the properties is
inductive without saying what a reader may still rely on. `SealerKnows`: the link a sealer read
is still in the chain and earlier than its day, its entries are still archived on that day, and
what was archived since is in `overlapped`. `ArchiverKnows`: while a seal of its day is open, or
after one has committed, the document of an open archiving transaction is in `overlapped`.
`ProverKnows`: the link a proving transaction holds is the day's link, and once the path is
computed the document is under its root. All three rest on two facts about every step
(`DbStep`): links are never removed and archive dates never move. `IInv` is the conjunction;
there is one lemma per part and one step per action that can disturb it.

*One sealer.* The latest link is read two statements before the link that names it is written.
`SealsAlone` says that it is still the latest then, because only a sealer extends the chain and
the only one is busy; `HasLatest` says that a chain that is not empty has a latest link, which
saves an induction over days. With the two, a committed link names exactly what `verifyChain`
compares it with, and the commit is the `Seal` step of `Ledger`; `ArchiverKnows` makes the commit
of an archiver its `Archive` step, and everything else is `Overlap` or a stutter.

*Merkle.* Prover and verifier go through the same tree from opposite ends: the one splits a slice at
the largest power of two, the other halves an index and the last index, and skips the levels on
which a last node rises alone. What they have in common is the level: on level l a node stands for
2^l leaves, the last one for what is left (`Part`). The recursive functions are first shown to be
defined, as a shorter slice, a lower level or an earlier sibling comes before (`RootsDefined`,
`ClimbedDefined`, ...). Then `PartDivides` says where the prover's recursion splits a node, and that
an only child is its parent, and `LevelsCount` where the verifier stands; `LeadsToRoot` climbs with
the honest path. The other two are about any path. `OnlyFromItsPlace`: with the true size the
verifier passes the levels of the true tree, so equal roots mean, by injectivity, equal nodes all
the way down to the leaf. `OnlyFromTheTree` goes down from the root with whatever size is claimed:
what hashes to a node of the tree is one of its children, and a leaf is told from a node by its
prefix. `AuditInv`: an audit is of one claim about a day with at least one document, and its verdict
is that of `VerifyEntryProof`.

*Ingest.* `LocksAreExclusive` is the core: nothing an open transaction holds is held by another
or committed already. It needs `StepKnows` (which steps hold what), and it is what makes the
counts of `FindingsOnce` and the atomic `Write` of `Inbox` true at a commit. `StoredFirst` and
`InsertedSoFar` say how far a request has come with its attachments, and together that a commit
leaves every row of its job recorded with its bytes stored. `AnswersAreCommitted` says that a
request that is about to answer has committed; `ClaimsAreRecorded` and `UnarchivedCameByMail`
relate the tables. Every commit is then a `Receive` or a `TakeUpload` of `Inbox`, an unroutable
claim a `SetAside`, and no other step shows.

*Mail.* `Knows` says for each request what it may still rely on where it stands: what its message
was read as, that the ids it has read are on record, how many of its documents are stored;
`StoreSteps` says which steps each object store takes. A restart takes the memory and leaves the
files, so the ids a process remembers are only ever ids of lines that were written
(`ProcessKnows`). The invariant speaks of these and not of the lines that can still be parsed,
because an entry that is appended to a line without its break takes that line away
(`IdsAreWritten` relates the two). The records (`RecordsKnown`) and the stored versions
(`ObjectsKnown`: at most one, unless the server ignores conditional writes; whole and under
retention, unless somebody is writing the file or left it) hold whatever failed before; a version
that has its bytes keeps them (`FileFilled`), and a step that breaks off puts its digest into
`broken`. `AckedKnown` then survives every step: a message was acknowledged when a line of it, or
of its Message-Id, was there, and lines are only appended. Tokens need an invariant of their own
(`TokensKnown`): a token that was let in is remembered as long as its signature is accepted, which
is what the memory's span of two tolerances is for. `ReadRight` needs no history. It says of every
message, also of PDFs whose streams lie about their length or are filtered twice, that what
`IngestMessage` lists as an invoice begins as one that was embedded, and that one which stands
whole and alone in its file is listed; the lemmas are about `DecodeStream`, `PayloadFromPdf` and
the first of several marks in a URN.

*Validation.* The row is judged in one step from what earlier steps left. `Progress` says which
layers have run at each step and with what result, `FormRests` what a form verdict was read
from; with them each action of the pipeline preserves the two properties of the row.

*Detail.* `Abstains` is about what `runDomainRules` computes. `Less` is what every way of leaving
something out has in common (`WithoutIsLess`), and each rule finds in the lesser document only
what it finds in the full one; D-002, D-004 and D-005 have the three exceptions that the property
names. The tax breakdown may have any number of entries. `Explained` ties what a rule supplies to
what the first release declared (`RulesSupply`), and uses the loader for the rest: a text that
uses what is not declared keeps its release from starting, so the declared parameters are enough
in both languages (`TextOrWithheld`). `DetailIsValidation` carries the theorems about the pipeline
over.

*RuleEngine.* What a condition says of a scope is a function of the nodes below it, and an induction
over `Height` carries what holds of every condition: one that loaded says yes or no and never throws
(`LoadedNeverThrows`), and a yes is sure unless something under a `none` abstained (`YesIsSure`).
The loop needs `EngineInv`: the document at hand has produced exactly what the entries before the
present one produce on their own, and none of them threw (`Producing`); the documents that are done
have their report or are errors (`Reported`), and the counters count documents (`Counted`). So a
document's report depends on nothing that stands before it. `ExactlyOneVersion` needs no history:
of two rules of which one ends the day before the other begins, `RuleApplies` holds of one.

*Accounts.* What is claimed must not become claimable again, and each kind has its own reason
(`LinkInv`, `CodeInv`, `SecretInv`, `StepInv`). A link and a set of recovery codes are named by
the request that made them, and a request that has gone so far does not come back. A secret is
generated once. A time step is the hard one: `consume_totp` forgets old rows, so a step that was
claimed is still in `totp_used`, or lies so far back that every code of it is out of its window
even for a request that checked it `MaxDelay` steps ago. That needs `PruneAfter >= 2 * Window +
MaxDelay`, which `TimeAssumption` states: in the code ten minutes against a window of one step to
either side, and the timeouts of the statements. `VouchInv`: from the step where a request
acts on what it has established, it has claimed something, or the account is not an owner's.
`HeldInv`: a session is live only after the step that issues it, so none of those a reset or a
rotation has found is issued again after they were ended.

*Doku.* A request states what it read, and the system has gone on since. `OfThisSystem`: what
is stated never exceeds what the system has come to, because everything stated only grows.
`GatheredLater` says the same of the fassung a request follows, fact by fact as far as it has
gathered: the fassung was on record when the request began, and states no more than the system had
then. `ReqInv` keeps, for a request that has its version, that the previous hash it carries is the
one of the row before it; and one request at a time holds the version
that comes next, since the others wait for it or fail, which is why the rows are numbered 1, 2, ...
(`VersionsAreOneToN`). `HashesFit` says that a row bears the hash of what it states,
its number included, so that no two have one hash (`HashesDiffer`): `HashesShow` needs it for a row
that is deleted. `PageHasNoMarkup` says that a tenant's text has passed the escaping, for
`HandedOver`. `NothingFound` and `GenerateNeverRefuses` show that the lint, which sees no
tenant's data, has nothing to object to, so the only refusal is the one of the unique key.

*Tenancy.* A connection is handed on by whoever releases it, so what it carries must be right for
a request that had no say in it. The pool is first described by tasks, not connections: `In(p, t)`,
the task has a connection or waits for one, and `Carries(p, t, s)`, it has a transaction that sees
the tenant s. `Tidy` says that a task is in one place, that nobody waits beside an idle connection
and that only a request's own work has a transaction; each operation of the pool (`Connect`,
`Release`, `Scope`, `EndScope`, a place given up in the queue) keeps it and makes one task join,
leave or carry (`ConnectJoins` to `LeavesTheQueue`), whatever becomes of the others. `Place` ties
this to the request: where it stands says exactly which of its four tasks are in the pool, and that
its transaction is in its own tenant. `Asks` says what it may have seen, staged and answered, with
`Draft` for a key that is written and not committed; `Follow` is what another request's commit may
do to the keys it relies on: none goes, changes hands or comes back into force. `OneMoves`
combines them, and there is one lemma per action. `Possible` describes the keys there are at
first, as the columns of `api_keys` do.

*Accounts of Service.* `AccountsAreWhole` speaks of answers, and what is answered was written in a
second transaction. `AInv` says of each sign-up what it has staged and what is committed by then:
its tenant and inbox from the first transaction on, its owner from the second; that sign-ups which
have written an owner have addresses of their own (`Rivals`), because the unique index keeps one
of two waiting; and that a language that is staged or committed is one that the migrations in force
accept. The last part is where the two halves of `Service` meet: the constraint of
`0012_languages` comes into force only when no row and no open transaction is against it.

*Installation, inside Service.* Nothing is taken out of the record and no digest is overwritten, and
what took effect is what is recorded (`DOMAIN recorded = schema`), because a file and its row
commit together. So each deployer stays right about the files behind it (`Holds`), and one that has
come to the end is right about all of them, whoever else was at work and whatever the API serves
meanwhile.

*Books.* `Bundling` is the invariant of the loop over the documents of a bundle: each document of the
period is still to be read or has its line, the files are those of the lines without a note, and no
name is used twice. That it ends with every document depends on the listing being an enumeration of
the period: `InOrder` ranks the documents by the ORDER BY, and `InOrderIsEnumeration` proves by
counting that ranks are the indices. `EntryNameIsFree` is a pigeonhole: the candidates for a name
differ, as their counters are written differently, and there is one more of them than names are
taken. `Stapel` says that what a Buchungsstapel does not book it names.

*What the exports write.* Lines, payloads and checksums are folds. The fold of the community
modules is a CHOOSE over a recursive function on sets of indices; `FoldExists` shows that this
function exists, and from it that a fold has its intermediate values (`JoinRuns`, `ConcatRuns`,
`WholeRuns`, `IbanChecksumRuns`), over which an ordinary induction goes. `Reads(s, p, q, n)` is a
reader that comes to a text inside or outside quotes, finds n separators and leaves it inside or
outside: texts that are read one after the other add up (`ReadsOn`), a text between quotes with
its quotes replaced or doubled ends outside (`QuotedReads`, `FieldReads`), so a line has the
columns it was given (`BookingReads`, `ManifestReads`, for names with every counter). `Stands(s,
token, n)` is the same for line breaks: the token is first met after n of them (`JoinStands`),
whichever elements at the end of the code are left out (`CodeStands`). The checksum is a
congruence kept by each digit (`RestOfStep`). `WInv` says what a request has written so far:
readable postings and manifest lines, instructions of documents the tenant has, and an account
file only of ones that can be paid.

Only model-checked: the liveness properties `EveryDeliverySettles`, `RecordedWithoutSidecar` and both
`EveryRequestIsAnswered`, because fairness and ENABLED are out of the prover's reach; and the violations
of `archive_midnight` and `accounts_two_rotations`, which are counterexamples.

## Not modelled

`PROJECT.json` (`components`) says for each part what is left out, and why. The deep parse of an
invoice (`packages/core-invoice/src/parse.ts`) maps paths of an XML document to fields, and what
it yields is an input of the rules. The KoSIT engine is an input as well. Search and the lists of
documents are queries that only read. The web front end renders what the API answers and has no
state of its own; the command line calls the pipeline once. Mail is sent by one HTTP call whose
failure is logged. Hashing of passwords and the generation of codes are taken for what they
promise. Of the Verfahrensdokumentation and the explanations the wording is left out, of the
exports the fixed fields of a header, the bytes of a ZIP and the drawing of a QR code.

## Left to do

1. `Credential`, what the accounts promise (a one-time value is used once, a change of the
   credentials ends the sessions), with `Accounts` shown to implement it.
2. Payloads of a GiroCode by bytes: the limit of 331 counts tokens here, and the code counts UTF-8.
