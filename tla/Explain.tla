------------------------------- MODULE Explain -------------------------------
(***************************************************************************)
(* The wording of a finding (packages/explain): which templates load, and  *)
(* what the document's page (apps/api/src/routes.ts) shows of a finding.   *)
(*                                                                         *)
(* Of a template's two texts what matters is which parameters they use,    *)
(* whether they cite a source, whether they advise, and whether they bring *)
(* a disclaimer of their own.                                              *)
(***************************************************************************)
Locales == {"de", "tr"}

TemplateFile ==
  [key : STRING, approved : BOOLEAN, required : SUBSET STRING, uses : [Locales -> SUBSET STRING],
   signal : BOOLEAN, cites : [Locales -> BOOLEAN], advises : [Locales -> BOOLEAN],
   ownDisclaimer : [Locales -> BOOLEAN], wellFormed : BOOLEAN]

\* A template as packages/explain/templates has it: both texts use what is
\* declared.
File(key, params) ==
  [key |-> key, approved |-> FALSE, required |-> params, uses |-> [l \in Locales |-> params],
   signal |-> FALSE, cites |-> [l \in Locales |-> TRUE], advises |-> [l \in Locales |-> FALSE],
   ownDisclaimer |-> [l \in Locales |-> FALSE], wellFormed |-> TRUE]

\* belegbox_signal: a heuristic, which may not cite.
Signal(key, params) ==
  [File(key, params) EXCEPT !.signal = TRUE, !.cites = [l \in Locales |-> FALSE]]

D000Keys ==
  {"domain.d000.foreign_format", "domain.d000.missing_profile", "domain.d000.not_xml",
   "domain.d000.pdf_container", "domain.d000.unknown_root", "domain.d000.zugferd_v1"}

Templates ==
  {File(key, {"filename"}) : key \in D000Keys} \cup
  { File("domain.d001.not_an_einvoice", {"profile_name", "profile_urn"}),
    File("domain.d002.exemption_reason_missing", {"vat_category"}),
    File("domain.d003.leitweg_id_malformed", {"buyer_reference"}),
    File("domain.d004.vat_id_invalid", {"vat_id"}),
    File("domain.d004.vies_unavailable", {"vat_id"}),
    File("domain.d005.rate_category_mismatch", {"vat_category", "vat_rate"}),
    File("domain.d005.standard_rate_zero", {}),
    File("domain.d005.unusual_rate", {"vat_rate"}),
    File("domain.d006.due_before_issue", {"issue_date", "due_date"}),
    File("domain.d007.duplicate_invoice", {"invoice_number", "supplier_vat_id"}),
    Signal("domain.d008.iban_country_mismatch", {"vat_country", "iban_country", "iban"}),
    Signal("domain.d009.amount_outlier", {"gross_amount", "mean_amount", "factor", "sample_size"}),
    File("gastro.beverage_wrong_rate", {"line_description", "line_vat_rate", "vat_gap"}),
    File("l2.br-co-15", {}) }

-----------------------------------------------------------------------------

\* loadLocaleText: no wording that advises, and no disclaimer of one's own.
LoadLocaleText(t, locale) == ~t.advises[locale] /\ ~t.ownDisclaimer[locale]

Placeholders(t) == UNION {t.uses[l] : l \in Locales}

\* Variant: the declared parameters are looked for in the texts, and not the
\* other way round.
LoadsIfUsed(t) ==
  /\ t.wellFormed /\ \A l \in Locales : LoadLocaleText(t, l)
  /\ t.required \subseteq Placeholders(t)
  /\ \A l \in Locales : t.cites[l] <=> ~t.signal

\* loadTemplate throws otherwise.
LoadTemplate(t) ==
  /\ t.wellFormed /\ \A l \in Locales : LoadLocaleText(t, l)
  /\ t.required = Placeholders(t)
  /\ \A l \in Locales : t.cites[l] <=> ~t.signal

\* loadTemplateDir, before the process listens: one file that does not load, or
\* a key that is there twice, and it does not start.
LoadTemplateDir(files) ==
  /\ \A t \in files : LoadTemplate(t)
  /\ \A t, u \in files : t.key = u.key => t = u

\* formatTemplate: a placeholder without its parameter.
Missing(t, locale, params) == t.uses[locale] \ params

\* renderExplanation: the validator's own words when there is no template.
RenderExplanation(files, finding, locale, allowUnapproved) ==
  LET found == {t \in files : t.key = finding.key} IN
  CASE found = {} -> "raw"
    [] \E t \in found : \/ ~t.approved /\ ~allowUnapproved
                        \/ Missing(t, locale, finding.params) # {} -> "throws"
    [] OTHER -> "text"

\* renderBoth, and the route that catches what it throws.
Explanation(files, finding, locale, allowUnapproved) ==
  LET primary == RenderExplanation(files, finding, locale, allowUnapproved)
      german == RenderExplanation(files, finding, "de", allowUnapproved)
  IN  IF "throws" \in {primary, german} THEN "withheld" ELSE primary
=============================================================================
