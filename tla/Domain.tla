------------------------------- MODULE Domain --------------------------------
(***************************************************************************)
(* The domain rules D-001 to D-009 (packages/validation/src/domain/        *)
(* rules.ts): what they find in one document, given what it says and what  *)
(* the lookups answer.                                                     *)
(*                                                                         *)
(* A field that may be absent is a set: {} is undefined, {v} is the value. *)
(* Dates and amounts are numbers.  Of a VAT identifier and of an IBAN the  *)
(* rules use the country in front; "digits" has none and "" is absent. Of a*)
(* buyer reference, whether it is a Leitweg-ID, is only shaped like one,   *)
(* or is something else.                                                   *)
(***************************************************************************)
EXTENDS Integers, Sequences

ReasonRequired == {"AE", "E", "K", "G", "Z"}
ZeroRated == {"AE", "E", "K", "G", "Z", "O"}
GermanRates == {0, 7, 19}

\* Of the countries that stand for the others here; a Greek identifier begins
\* with EL, and a Greek account with GR.
EU == {"DE", "FR", "GR"}

MinHistoryForOutlier == 6
OutlierFactor == 3

Optional(S) == {o \in SUBSET S : \A v, w \in o : v = w}

Partner == [vat : STRING, country : Optional(STRING)]
TaxEntry == [category : STRING, rate : Optional(Int), reason : BOOLEAN]
SupplierStats == [count : Nat, mean : Int]

\* What the rules see of a document, and what the lookups would answer.
DomainContext ==
  [einvoice : BOOLEAN, undetected : STRING, direction : {"incoming", "outgoing"},
   vies : {"absent", "silent", "valid", "invalid"},
   history : Optional([known : BOOLEAN, stats : Optional(SupplierStats)]),
   reference : {"none", "leitweg", "shaped", "other"},
   issued : Optional(Int), due : Optional(Int), number : Optional(Int), gross : Optional(Int),
   iban : STRING, seller : Partner, buyer : Partner, tax : Seq(TaxEntry)]

\* countryOfVatId and countryOfIban want two letters in front.
CountryOf(id) == IF id = "digits" THEN "" ELSE id

\* `entry` is the breakdown_index of a finding in the tax breakdown.
Finding(code, key, severity, params) ==
  [code |-> code, key |-> key, severity |-> severity, params |-> params, entry |-> 0]

When(condition, finding) == IF condition THEN {finding} ELSE {}

\* One finding for each entry of the tax breakdown in the set.
ForEntries(entries, finding) ==
  {[finding EXCEPT !.entry = i, !.params = @ \cup {"breakdown_index"}] : i \in entries}

\* The profile is legally no e-invoice.
D001(c) ==
  When(~c.einvoice,
       Finding("D-001", "domain.d001.not_an_einvoice", "warning", {"profile_urn", "profile_name"}))

\* An exemption without its reason, in words or as a code.
D002(c) ==
  ForEntries({i \in DOMAIN c.tax : c.tax[i].category \in ReasonRequired /\ ~c.tax[i].reason},
             Finding("D-002", "domain.d002.exemption_reason_missing", "content_error",
                     {"vat_category"}))

\* Shaped like a Leitweg-ID, and none.
D003(c) ==
  When(c.reference = "shaped",
       Finding("D-003", "domain.d003.leitweg_id_malformed", "content_error", {"buyer_reference"}))

Counterparty(c) == IF c.direction = "incoming" THEN c.seller ELSE c.buyer

AskVies(c) == c.vies # "absent" /\ Counterparty(c).vat \in EU \ {"DE"}

\* Variant: what VIES does not confirm is not registered.
D004Unconfirmed(c) ==
  When(AskVies(c) /\ c.vies # "valid",
       Finding("D-004", "domain.d004.vat_id_invalid", "content_error", {"vat_id"}))

\* VIES does not know the identifier, or does not answer.
D004(c) ==
  When(AskVies(c) /\ c.vies = "silent",
       Finding("D-004", "domain.d004.vies_unavailable", "warning", {"vat_id"}))
  \cup When(AskVies(c) /\ c.vies = "invalid",
            Finding("D-004", "domain.d004.vat_id_invalid", "content_error", {"vat_id"}))

Domestic(c) == c.seller.country \subseteq {"DE"} /\ c.buyer.country \subseteq {"DE"}

InCategory(c, categories) == {i \in DOMAIN c.tax : c.tax[i].category \in categories}

\* Category and rate contradict each other, or the rate is not a German one.
D005(c) ==
  ForEntries({i \in InCategory(c, ZeroRated) : \E rate \in c.tax[i].rate : rate > 0},
             Finding("D-005", "domain.d005.rate_category_mismatch", "content_error",
                     {"vat_category", "vat_rate"}))
  \cup ForEntries({i \in InCategory(c, {"S"}) : 0 \in c.tax[i].rate},
                  Finding("D-005", "domain.d005.standard_rate_zero", "content_error",
                          {"vat_category"}))
  \cup ForEntries({i \in InCategory(c, {"S"}) : Domestic(c) /\ c.tax[i].rate \ GermanRates # {}},
                  Finding("D-005", "domain.d005.unusual_rate", "warning", {"vat_rate"}))

D006(c) ==
  When(\E issued \in c.issued, due \in c.due : due < issued,
       Finding("D-006", "domain.d006.due_before_issue", "content_error",
               {"issue_date", "due_date"}))

\* The supplier has sent this number before.
D007(c) ==
  When(c.seller.vat # "" /\ c.number # {} /\ \E h \in c.history : h.known,
       Finding("D-007", "domain.d007.duplicate_invoice", "content_error",
               {"invoice_number", "supplier_vat_id"}))

\* The account is in another country than the supplier.
D008(c) ==
  When(CountryOf(c.seller.vat) # "" /\ CountryOf(c.iban) # ""
         /\ CountryOf(c.seller.vat) # CountryOf(c.iban),
       Finding("D-008", "domain.d008.iban_country_mismatch", "warning",
               {"vat_country", "iban_country", "iban"}))

\* Far above the supplier's average, when there is one.
D009(c) ==
  When(c.seller.vat # "" /\ \E gross \in c.gross, h \in c.history :
         \E s \in h.stats : /\ s.count >= MinHistoryForOutlier
                            /\ s.mean > 0 /\ gross > OutlierFactor * s.mean,
       Finding("D-009", "domain.d009.amount_outlier", "warning",
               {"gross_amount", "mean_amount", "factor", "sample_size"}))

\* runDomainRules: a profile that is no e-invoice has D-001 and nothing else.
DomainFindings(c) ==
  IF ~c.einvoice THEN D001(c)
  ELSE D002(c) \cup D003(c) \cup D004(c) \cup D005(c) \cup D006(c) \cup D007(c)
       \cup D008(c) \cup D009(c)

ContentErrors(findings) == {f \in findings : f.severity = "content_error"}

-----------------------------------------------------------------------------
(* What a document might say less, and a lookup answer less. *)

Without(c) ==
  {[c EXCEPT !.vies = "absent"]} \cup {[c EXCEPT !.vies = "silent"] : v \in {c.vies} \ {"absent"}}
  \cup {[c EXCEPT !.history = {}], [c EXCEPT !.history = {[h EXCEPT !.stats = {}] : h \in @}],
        [c EXCEPT !.issued = {}], [c EXCEPT !.due = {}], [c EXCEPT !.number = {}],
        [c EXCEPT !.gross = {}], [c EXCEPT !.iban = ""], [c EXCEPT !.reference = "none"],
        [c EXCEPT !.seller.vat = ""], [c EXCEPT !.buyer.vat = ""],
        [c EXCEPT !.seller.country = {}], [c EXCEPT !.buyer.country = {}]}
  \cup {[c EXCEPT !.tax[i].rate = {}] : i \in DOMAIN c.tax}
  \cup {[c EXCEPT !.tax[i].category = ""] : i \in DOMAIN c.tax}
  \cup {[c EXCEPT !.tax[i].reason = FALSE] : i \in DOMAIN c.tax}
=============================================================================
