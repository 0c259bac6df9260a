------------------------------- MODULE Detail --------------------------------
(***************************************************************************)
(* From a document to what its reader sees: Validation's pipeline with the *)
(* domain rules for its third layer, and the page of the document (GET     *)
(* /v1/documents/:id), which explains the recorded findings with the       *)
(* templates of the release that is running by then.                       *)
(***************************************************************************)
EXTENDS Validation, Domain, Explain

CONSTANT Releases  \* the template directories of the releases

\* A release that starts may reword and approve; it keeps a template for every
\* key, and declares no parameter for it that was not declared at first.
ASSUME ReleasesAssumption ==
  \A files \in Releases :
    /\ files \subseteq TemplateFile
    /\ LoadTemplateDir(files) =>
         \A t \in Templates : \E u \in files : u.key = t.key /\ u.required \subseteq t.required

VARIABLES
  ctx,   \* what the document says, and what the lookups answer: DomainContext
  page   \* what a reader was shown: {} before

detailVars == <<vars, ctx, page>>

Outcome(findings) ==
  IF ContentErrors(findings) # {} THEN "content_error"
  ELSE IF findings # {} THEN "warning" ELSE "silent"

\* mustang-client.ts: a rule's code is the key of its explanation.
FormFindings ==
  When(l1.errors, Finding("schema", "l2.schema", "form_error", {}))
  \cup When(l2.errors, Finding("BR-CO-15", "l2.br-co-15", "form_error", {}))

\* A rule of a tenant brings what it computes.
TenantFindings ==
  When(l4.errors, Finding("G-02", "gastro.beverage_wrong_rate", "content_error", {"vat_gap"}))

\* pipeline.ts, notAnEInvoice: D-000 with the name of the file.
D000 == Finding("D-000", ctx.undetected, "warning", {"filename"})

\* The findings of the recorded row, all layers together.
Findings ==
  IF ~doc.structured THEN {D000}
  ELSE FormFindings \cup TenantFindings \cup (IF l3.ran THEN DomainFindings(ctx) ELSE {})

\* The releases that start.
Startable == {files \in Releases : LoadTemplateDir(files)}

Approved(files) == {t.key : t \in {u \in files : u.approved}}

\* The document's page, at any time after it was recorded.
ReadDetail ==
  /\ at = "recorded" /\ page = {}
  /\ \E files \in Startable, locale \in Locales, allowUnapproved \in BOOLEAN :
       page' = {[approved |-> Approved(files), allowUnapproved |-> allowUnapproved,
                 shown |-> [f \in Findings |-> Explanation(files, f, locale, allowUnapproved)]]}
  /\ UNCHANGED <<vars, ctx>>

DetailInit ==
  /\ ctx \in DomainContext /\ ctx.undetected \in D000Keys
  /\ Init
  /\ doc.einvoice = ctx.einvoice /\ doc.domain = Outcome(DomainFindings(ctx))
  /\ page = {}

DetailNext == (Next /\ UNCHANGED <<ctx, page>>) \/ ReadDetail

DetailSpec == DetailInit /\ [][DetailNext]_detailVars

-----------------------------------------------------------------------------
(* Properties. *)

\* rules.ts, "Every rule here abstains rather than guesses": whatever a document
\* leaves out and whichever lookup is missing or does not answer, no finding
\* comes of it that the full document would not have, but for three.  Two are
\* warnings: that VIES did not answer, and, as a country that is not named is
\* taken to be Germany, an unusual rate.  The third is an error: where an
\* exemption leaves its reason out, that is what D-002 finds of this entry.
AbstainsRatherThanGuesses ==
  at = "judged" /\ l3.ran /\ doc.structured =>
    LET found == Findings IN
    \A less \in Without(ctx) :
      \A f \in DomainFindings(less) \ found :
        \/ f.key \in {"domain.d004.vies_unavailable", "domain.d005.unusual_rate"}
        \/ /\ f.key = "domain.d002.exemption_reason_missing"
           /\ ctx.tax[f.entry].reason /\ ~less.tax[f.entry].reason

\* A finding of the domain rules, recorded by whichever release, reaches its
\* reader with its explanation in his language and in German as soon as a lawyer
\* has approved it, and never before (render.ts): what the rule supplies is what
\* the texts of every release that starts want, and no finding falls back to the
\* raw words for want of a template.
FindingsAreExplained ==
  \A p \in page : \A f \in DOMAIN p.shown :
    LET approved == p.allowUnapproved \/ f.key \in p.approved
    IN  /\ p.shown[f] = "text" => approved
        /\ f \in DomainFindings(ctx) \cup {D000} =>
             p.shown[f] = IF approved THEN "text" ELSE "withheld"
=============================================================================
