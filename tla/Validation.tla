----------------------------- MODULE Validation -----------------------------
(***************************************************************************)
(* The verdict on one document: validateDocument (packages/validation)     *)
(* with the validator sidecar (services/mustang-svc), and what its callers *)
(* do around it (apps/worker/src/postgres-store.ts, upload.ts).            *)
(*                                                                         *)
(* The sidecar is another process: it may be down, may answer too late,    *)
(* and may run without its configuration; its state changes between the    *)
(* steps of a request.  An exception ends the request with a 500, and the  *)
(* sender delivers the document again.                                     *)
(*                                                                         *)
(* What the detectors, parsers, rules and the KoSIT engine would say of a  *)
(* document is a record; the pipeline decides what is asked, and what is   *)
(* made of the answers.                                                    *)
(***************************************************************************)
EXTENDS Naturals

CONSTANT Clients  \* subset of BOOLEAN: whether the caller has a sidecar

ASSUME ClientsAssumption == Clients \subseteq BOOLEAN

VARIABLES
  sidecar,  \* ready, without its configuration, or down
  doc,      \* what there is to say of the document
  client,   \* FALSE: the caller skips L1 and L2
  at,       \* the next step of the request
  l1, l2,   \* LayerResult: did it run, and did it find errors
  form,     \* formVerdict
  parsed,   \* whether the pipeline has the parsed invoice
  l3, l4,
  row       \* what is recorded: status and verdicts; {} before

layers == <<l1, l2, l3, l4>>
vars == <<sidecar, doc, client, at, layers, form, parsed, row>>

Sidecar == {"ready", "unconfigured", "down"}

\* MAX_DEEP_PARSE_BYTES is 12 MB, the sidecar's MAX_BODY_BYTES 32 MB.
Document == [readable : BOOLEAN,     \* the XML reader of detect() does not throw
             structured : BOOLEAN,   \* detect() finds an e-invoice syntax
             einvoice : BOOLEAN,     \* legalClass of the profile
             size : {"upTo12MB", "upTo32MB", "larger"},
             parses : BOOLEAN,       \* parseInvoice does not throw
             kosit : {"unreadable", "schemaInvalid", "schematronInvalid", "valid"},
             domain : {"silent", "warning", "content_error"},
             tenant : {"noRuleset", "silent", "content_error", "throws"}]

Steps == {"received", "detected", "formChecked", "parsed", "domainChecked",
          "judged", "validated", "recorded", "rejected"}

Verdict == {"pass", "fail", "n_a", "unknown"}
Status == {"clean", "form_error", "content_error", "not_einvoice", "pending"}
Layer == [ran : BOOLEAN, errors : BOOLEAN]
Row == [status : Status, form : Verdict, content : Verdict]

Empty == [ran |-> FALSE, errors |-> FALSE]
Ran(errors) == [ran |-> TRUE, errors |-> errors]

TypeOK ==
  /\ sidecar \in Sidecar
  /\ doc \in Document
  /\ client \in BOOLEAN
  /\ at \in Steps
  /\ l1 \in Layer /\ l2 \in Layer /\ l3 \in Layer /\ l4 \in Layer
  /\ form \in Verdict
  /\ parsed \in BOOLEAN
  /\ row \in {{}} \cup {{r} : r \in Row}

-----------------------------------------------------------------------------
Legal == doc.structured /\ doc.einvoice

\* No structured data at all: judged at once.
NotAnEInvoice ==
  /\ at = "received"
  /\ doc.readable /\ ~doc.structured
  /\ row' = {[status |-> "not_einvoice", form |-> "n_a", content |-> "n_a"]}
  /\ l3' = Ran(FALSE)
  /\ at' = "judged"
  /\ UNCHANGED <<sidecar, doc, client, l1, l2, l4, form, parsed>>

Detect ==
  /\ at = "received"
  /\ doc.readable /\ doc.structured
  /\ at' = "detected"
  /\ UNCHANGED <<sidecar, doc, client, layers, form, parsed, row>>

\* Only a DetectionError is caught: 500.
DetectThrows ==
  /\ at = "received"
  /\ ~doc.readable
  /\ at' = "rejected"
  /\ UNCHANGED <<sidecar, doc, client, layers, form, parsed, row>>

FormIs(verdict, schema, schematron) ==
  /\ form' = verdict
  /\ l1' = schema
  /\ l2' = schematron
  /\ at' = "formChecked"
  /\ UNCHANGED <<sidecar, doc, client, l3, l4, parsed, row>>

\* --offline, and a worker without MUSTANG_SVC_URL.
SkipForm ==
  /\ at = "detected"
  /\ ~client
  /\ FormIs("unknown", Empty, Empty)

FormDoesNotApply ==
  /\ at = "detected"
  /\ client
  /\ ~doc.einvoice
  /\ FormIs("n_a", Empty, Empty)

AsksSidecar == at = "detected" /\ client /\ doc.einvoice

\* Variant: the error of an unreachable sidecar is passed on.
UnavailableThrows ==
  /\ AsksSidecar
  /\ at' = "rejected"
  /\ UNCHANGED <<sidecar, doc, client, layers, form, parsed, row>>

\* Down, longer than 20 seconds, or an answer other than 200: the sidecar
\* refuses more than 32 MB, and does not always say why a request broke.
ValidatorUnavailable ==
  /\ AsksSidecar
  /\ FormIs("unknown", Empty, Empty)

\* Validators.validate without a configuration: both layers skipped, and not
\* valid.
ValidatorUnconfigured ==
  /\ AsksSidecar
  /\ sidecar = "unconfigured"
  /\ doc.size # "larger"
  /\ FormIs("fail", Empty, Empty)

\* Variant: the pipeline looks at the schematron alone, which the sidecar did
\* not run on a document that is not schema-valid.
JudgeBySchematron ==
  /\ AsksSidecar
  /\ sidecar = "ready"
  /\ doc.size # "larger"
  /\ FormIs(IF doc.kosit = "schematronInvalid" THEN "fail" ELSE "pass",
            Ran(doc.kosit \in {"unreadable", "schemaInvalid"}),
            IF doc.kosit \in {"unreadable", "schemaInvalid"} THEN Empty
            ELSE Ran(doc.kosit = "schematronInvalid"))

\* Schematron runs on a schema-valid document only, and is not valid otherwise.
ValidatorAnswers ==
  /\ AsksSidecar
  /\ sidecar = "ready"
  /\ doc.size # "larger"
  /\ FormIs(IF doc.kosit = "valid" THEN "pass" ELSE "fail",
            Ran(doc.kosit \in {"unreadable", "schemaInvalid"}),
            IF doc.kosit \in {"unreadable", "schemaInvalid"} THEN Empty
            ELSE Ran(doc.kosit = "schematronInvalid"))

\* Above the ceiling the content rules stand down.
ParseInvoice ==
  /\ at = "formChecked"
  /\ parsed' = (doc.size = "upTo12MB" /\ doc.parses)
  /\ at' = "parsed"
  /\ UNCHANGED <<sidecar, doc, client, layers, form, row>>

\* On a profile that is no e-invoice only D-001 speaks, with a warning.
RunDomainRules ==
  /\ at = "parsed"
  /\ l3' = IF parsed THEN Ran(doc.einvoice /\ doc.domain = "content_error") ELSE Empty
  /\ at' = "domainChecked"
  /\ UNCHANGED <<sidecar, doc, client, l1, l2, l4, form, parsed, row>>

TenantRulesRun == parsed /\ doc.tenant # "noRuleset" /\ doc.einvoice

RunTenantRules ==
  /\ at = "domainChecked"
  /\ ~(TenantRulesRun /\ doc.tenant = "throws")
  /\ l4' = IF TenantRulesRun THEN Ran(doc.tenant = "content_error") ELSE Empty
  /\ at' = "validated"
  /\ UNCHANGED <<sidecar, doc, client, l1, l2, l3, form, parsed, row>>

\* evaluateRuleSet throws, on a compute over a missing field: 500.
TenantRulesThrow ==
  /\ at = "domainChecked"
  /\ TenantRulesRun
  /\ doc.tenant = "throws"
  /\ at' = "rejected"
  /\ UNCHANGED <<sidecar, doc, client, layers, form, parsed, row>>

ContentVerdict ==
  CASE ~doc.einvoice -> "n_a"
    [] doc.einvoice /\ ~l3.ran -> "unknown"
    [] doc.einvoice /\ l3.ran /\ (l3.errors \/ l4.errors) -> "fail"
    [] OTHER -> "pass"

\* Variant: an unrun form check is judged before the content.
PendingFirst(content) ==
  CASE ~doc.einvoice -> "not_einvoice"
    [] doc.einvoice /\ form = "fail" -> "form_error"
    [] doc.einvoice /\ form = "unknown" -> "pending"
    [] doc.einvoice /\ form = "pass" /\ content = "fail" -> "content_error"
    [] OTHER -> "clean"

DeriveStatus(content) ==
  CASE ~doc.einvoice -> "not_einvoice"
    [] doc.einvoice /\ form = "fail" -> "form_error"
    [] doc.einvoice /\ form # "fail" /\ content = "fail" -> "content_error"
    [] doc.einvoice /\ form = "unknown" /\ content # "fail" -> "pending"
    [] OTHER -> "clean"

Judge ==
  /\ at = "validated"
  /\ row' = {[status |-> DeriveStatus(ContentVerdict),
              form |-> IF doc.einvoice THEN form ELSE "n_a",
              content |-> ContentVerdict]}
  /\ at' = "judged"
  /\ UNCHANGED <<sidecar, doc, client, layers, form, parsed>>

\* The caller parses again, for the columns of the row, whatever the size, and
\* records the document with or without them.
Record ==
  /\ at = "judged"
  /\ at' = "recorded"
  /\ UNCHANGED <<sidecar, doc, client, layers, form, parsed, row>>

\* The sender has a 500 and delivers again.
Redeliver ==
  /\ at = "rejected"
  /\ at' = "received"
  /\ l1' = Empty /\ l2' = Empty /\ l3' = Empty /\ l4' = Empty
  /\ form' = "unknown"
  /\ parsed' = FALSE
  /\ UNCHANGED <<sidecar, doc, client, row>>

\* The configuration is read at boot, so every change is a restart.
SidecarBecomes(state) ==
  /\ sidecar # state
  /\ sidecar = "down" \/ state = "down"
  /\ sidecar' = state
  /\ UNCHANGED <<doc, client, at, layers, form, parsed, row>>

Init ==
  /\ sidecar \in Sidecar
  /\ doc \in Document
  /\ client \in Clients
  /\ at = "received"
  /\ l1 = Empty /\ l2 = Empty /\ l3 = Empty /\ l4 = Empty
  /\ form = "unknown"
  /\ parsed = FALSE
  /\ row = {}

Pipeline ==
  \/ NotAnEInvoice \/ Detect \/ DetectThrows
  \/ SkipForm \/ FormDoesNotApply
  \/ ValidatorUnavailable \/ ValidatorUnconfigured \/ ValidatorAnswers
  \/ ParseInvoice \/ RunDomainRules \/ RunTenantRules \/ TenantRulesThrow
  \/ Judge \/ Record

Next == Pipeline \/ Redeliver \/ \E state \in Sidecar : SidecarBecomes(state)

Spec == Init /\ [][Next]_vars

\* A request that has arrived runs on, and the provider posts again until it
\* has a 2xx.  Nothing makes the sidecar come back.
FairSpec == Spec /\ WF_vars(Pipeline) /\ WF_vars(Redeliver)

-----------------------------------------------------------------------------
(* Properties. *)

\* A pass is what the validators would have said of this very document: no
\* outage, restart, skipped layer or failed parse turns into one, a form error
\* that a layer reported is one that KoSIT finds, and clean needs a form pass and
\* a content pass, unless the document is too large or cannot be parsed
\* (pipeline.ts, "no verdict is better than a guessed verdict").
VerdictsAreEarned ==
  \A r \in row :
    /\ r.form = "pass" => Legal /\ doc.kosit = "valid"
    /\ r.form = "fail" /\ l1.ran => doc.kosit # "valid"
    /\ r.content = "pass" => /\ Legal /\ doc.parses
                             /\ doc.domain # "content_error"
                             /\ doc.tenant # "content_error"
    /\ r.status = "clean" => r.form = "pass"
    /\ r.status = "clean" /\ r.content # "pass" =>
         r.content = "unknown" /\ ~(doc.size = "upTo12MB" /\ doc.parses)

\* A content error that a layer found fails the content and is the status, in
\* every outage and restart of the sidecar, unless a form layer found an error
\* too.  deriveStatus (pipeline.ts:241-245) means it never to be hidden behind a
\* form check that did not run; there is one that hides it: a sidecar without
\* its configuration answers that neither layer ran and none is valid, and that
\* counts as a failed form.
ContentErrorIsShown ==
  \A r \in row :
    Legal /\ (l3.errors \/ l4.errors) =>
      /\ r.content = "fail"
      /\ \/ r.status = "content_error"
         \/ /\ r.status = "form_error" /\ r.form = "fail"
            /\ l1.errors \/ l2.errors \/ (client /\ ~l1.ran /\ ~l2.ran)

\* The form verdict comes from L1 and L2 alone: once they have spoken no later
\* layer changes it (pipeline.ts, "They never mix").
FormIsFinal ==
  [][at \notin {"received", "detected", "rejected"} => form' = form]_vars

\* The sidecar never takes receiving down with it (Validators.java): whatever
\* it does, a document that can be read and that no tenant rule throws on is
\* recorded in the end.
RecordedWithoutSidecar == doc.readable /\ doc.tenant # "throws" => <>(at = "recorded")

=============================================================================
