----------------------------- MODULE MCValidation ----------------------------
(* Documents that say something else than Plain in one of five groups of    *)
(* fields, and releases of the templates of which some do not start.        *)
EXTENDS Detail, TLC

Plain ==
  [einvoice |-> TRUE, undetected |-> "domain.d000.not_xml", direction |-> "incoming",
   vies |-> "absent", history |-> {}, reference |-> "none", issued |-> {2}, due |-> {2},
   number |-> {1}, gross |-> {100}, iban |-> "DE",
   seller |-> [vat |-> "DE", country |-> {"DE"}], buyer |-> [vat |-> "DE", country |-> {"DE"}],
   tax |-> <<[category |-> "S", rate |-> {19}, reason |-> FALSE]>>]

Dates == {[Plain EXCEPT !.issued = i, !.due = d, !.reference = r] :
          i \in {{}, {2}}, d \in {{}, {1}, {2}}, r \in {"none", "leitweg", "shaped", "other"}}

Entries == [category : {"", "S", "E", "O"}, rate : {{}, {0}, {16}, {19}}, reason : BOOLEAN]

Taxes ==
  {[Plain EXCEPT !.tax = <<e>>, !.seller.country = s, !.buyer.country = b] :
   e \in Entries, s \in {{}, {"FR"}}, b \in {{}, {"FR"}}}
  \cup {[Plain EXCEPT !.tax = <<[category |-> "E", rate |-> {0}, reason |-> FALSE], e>>] : e \in Entries}

Partners ==
  {[Plain EXCEPT !.direction = d, !.vies = v, !.seller.vat = s, !.buyer.vat = b] :
   d \in {"incoming", "outgoing"}, v \in {"absent", "silent", "valid", "invalid"},
   s \in {"", "DE", "FR"}, b \in {"", "FR", "CH"}}
  \cup {[Plain EXCEPT !.seller.vat = s, !.iban = i] :
        s \in {"", "digits", "DE", "FR", "EL"}, i \in {"", "digits", "DE", "FR", "GR"}}

Stats == {{}, {[count |-> 5, mean |-> 10]}, {[count |-> 6, mean |-> 10]},
          {[count |-> 6, mean |-> 40]}, {[count |-> 6, mean |-> 0]}}

Known ==
  {[Plain EXCEPT !.history = h, !.seller.vat = s, !.number = n, !.gross = g] :
   h \in {{}} \cup {{[known |-> k, stats |-> t]} : k \in BOOLEAN, t \in Stats},
   s \in {"", "DE"}, n \in {{}, {1}}, g \in {{}, {30}, {100}}}

NoInvoices == {[Plain EXCEPT !.einvoice = FALSE, !.undetected = key, !.due = d] :
               key \in D000Keys, d \in {{1}, {2}}}

Contexts == Dates \cup Taxes \cup Partners \cup Known \cup NoInvoices

\* Contexts that meet every kind of document, one for each outcome.
Ordinary ==
  {Plain, [Plain EXCEPT !.iban = "FR"], [Plain EXCEPT !.due = {1}],
   [Plain EXCEPT !.einvoice = FALSE]}

DocumentsOf(c) ==
  IF c \in Ordinary
  THEN {d \in Document : d.einvoice = c.einvoice /\ d.domain = Outcome(DomainFindings(c))}
  ELSE {[readable |-> TRUE, structured |-> s, einvoice |-> c.einvoice, size |-> "upTo12MB",
         parses |-> TRUE, kosit |-> "schematronInvalid", domain |-> Outcome(DomainFindings(c)),
         tenant |-> "content_error"] : s \in {c.einvoice} \cup {TRUE}}

DueFile == CHOOSE t \in Templates : t.key = "domain.d006.due_before_issue"
WithDueFile(t) == (Templates \ {DueFile}) \cup {t}

\* The first release; a text in one language that leaves a parameter out; and
\* files that must not load.
MCReleases ==
  {Templates, {[t EXCEPT !.approved = TRUE] : t \in Templates},
   WithDueFile([DueFile EXCEPT !.uses["tr"] = {"due_date"}]),
   WithDueFile([DueFile EXCEPT !.uses["tr"] = @ \cup {"days_late"}]),
   WithDueFile([DueFile EXCEPT !.required = @ \cup {"days_late"}]),
   WithDueFile([DueFile EXCEPT !.advises["de"] = TRUE]),
   WithDueFile([DueFile EXCEPT !.ownDisclaimer["tr"] = TRUE]),
   WithDueFile([DueFile EXCEPT !.cites["de"] = FALSE]),
   WithDueFile([DueFile EXCEPT !.wellFormed = FALSE]),
   Templates \cup {[DueFile EXCEPT !.approved = TRUE]}}

MCInit ==
  /\ ctx \in Contexts \cup Ordinary
  /\ doc \in DocumentsOf(ctx)
  /\ DetailInit

MCSpec == MCInit /\ [][DetailNext]_detailVars /\ WF_vars(Pipeline) /\ WF_vars(Redeliver)
=============================================================================
