-------------------------- MODULE ValidationProofs --------------------------
(***************************************************************************)
(* What Validation keeps for every caller, Detail for every document and   *)
(* every release of the templates, and RuleEngine for every ruleset and    *)
(* every sequence of documents, proved.                                    *)
(*                                                                         *)
(* A verdict is judged at one step from what earlier steps left behind, so *)
(* the properties of the row are not inductive: Progress says what is      *)
(* known of the layers at each step, FormRests what the form verdict is of.*)
(* Less is what every way of saying less has in common, and each domain    *)
(* rule is monotone in it but for two warnings.  Supplied ties a finding   *)
(* to the template it was written for.  The properties of a dry run are    *)
(* about what is reported; EngineInv says what the document at hand has    *)
(* produced before it is.                                                  *)
(***************************************************************************)
EXTENDS Detail, RuleEngine, TLAPS, WellFoundedInduction, FiniteSetTheorems

\* Where a request stands, and what the layers can hold there.
Progress ==
  /\ at \notin {"received", "rejected", "judged", "recorded"} => doc.structured
  /\ at \in {"received", "detected"} =>
       l1 = Empty /\ l2 = Empty /\ l3 = Empty /\ l4 = Empty /\ form = "unknown"
  /\ at \in {"formChecked", "parsed"} => l3 = Empty
  /\ at \in {"formChecked", "parsed", "domainChecked"} => l4 = Empty
  /\ at \in {"parsed", "domainChecked", "validated"} =>
       (parsed <=> doc.size = "upTo12MB" /\ doc.parses)
  /\ at \in {"domainChecked", "validated"} =>
       l3 = IF parsed THEN Ran(doc.einvoice /\ doc.domain = "content_error") ELSE Empty
  /\ at = "validated" =>
       l4 = IF TenantRulesRun THEN Ran(doc.tenant = "content_error") ELSE Empty
  /\ at \notin {"judged", "recorded"} => row = {}

\* A layer found an error, or a sidecar was asked that had no layer to run.
FormFailed == l1.errors \/ l2.errors \/ (client /\ ~l1.ran /\ ~l2.ran)

\* What the form verdict rests on.
FormRests ==
  /\ form = "pass" => Legal /\ doc.kosit = "valid"
  /\ form = "fail" /\ l1.ran => doc.kosit # "valid"
  /\ form = "n_a" => ~doc.einvoice
  /\ form = "fail" => FormFailed

Inv == TypeOK /\ Progress /\ FormRests /\ VerdictsAreEarned /\ ContentErrorIsShown

-----------------------------------------------------------------------------
LEMMA EmptyLayer == Empty \in Layer /\ ~Empty.ran /\ ~Empty.errors
  BY DEF Empty, Layer

LEMMA RanLayer ==
  ASSUME NEW b \in BOOLEAN
  PROVE  Ran(b) \in Layer /\ Ran(b).ran /\ Ran(b).errors = b
  BY DEF Ran, Layer

LEMMA InitInv == Init => Inv
<1> SUFFICES ASSUME Init PROVE Inv
  OBVIOUS
<1>1. TypeOK
  BY ClientsAssumption DEF Init, TypeOK, Steps, Layer, Verdict, Empty
<1>2. Progress
  BY DEF Init, Progress
<1>3. FormRests /\ VerdictsAreEarned /\ ContentErrorIsShown
  BY DEF Init, FormRests, VerdictsAreEarned, ContentErrorIsShown
<1> QED
  BY <1>1, <1>2, <1>3 DEF Inv

LEMMA TypeStep ==
  ASSUME TypeOK, [Next]_vars
  PROVE  TypeOK'
<1> USE DEF TypeOK, Sidecar, Steps, Verdict
<1>1. CASE NotAnEInvoice
  <2>1. l3' \in Layer
    BY <1>1, RanLayer DEF NotAnEInvoice
  <2>2. row' \in {{}} \cup {{r} : r \in Row}
    BY <1>1 DEF NotAnEInvoice, Row, Status
  <2> QED
    BY <1>1, <2>1, <2>2 DEF NotAnEInvoice
<1>2. CASE Detect \/ DetectThrows
  BY <1>2 DEF Detect, DetectThrows, layers
<1>3. CASE SkipForm \/ FormDoesNotApply \/ ValidatorUnavailable \/ ValidatorUnconfigured
  BY <1>3, EmptyLayer DEF SkipForm, FormDoesNotApply, ValidatorUnavailable,
                          ValidatorUnconfigured, FormIs
<1>4. CASE ValidatorAnswers
  <2>1. Ran(doc.kosit \in {"unreadable", "schemaInvalid"}) \in Layer
    <3>1. (doc.kosit \in {"unreadable", "schemaInvalid"}) \in BOOLEAN
      OBVIOUS
    <3> QED
      BY <3>1, RanLayer, Zenon
  <2>2. Ran(doc.kosit = "schematronInvalid") \in Layer
    BY RanLayer
  <2>3. l1' \in Layer /\ l2' \in Layer
    BY <1>4, <2>1, <2>2, EmptyLayer DEF ValidatorAnswers, FormIs
  <2> QED
    BY <1>4, <2>3 DEF ValidatorAnswers, FormIs
<1>5. CASE ParseInvoice \/ TenantRulesThrow
  BY <1>5 DEF ParseInvoice, TenantRulesThrow, layers
<1>6. CASE RunDomainRules
  <2>1. (doc.einvoice /\ doc.domain = "content_error") \in BOOLEAN
    OBVIOUS
  <2>2. l3' \in Layer
    BY <1>6, <2>1, EmptyLayer, RanLayer DEF RunDomainRules
  <2> QED
    BY <1>6, <2>2 DEF RunDomainRules
<1>7. CASE RunTenantRules
  <2>1. l4' \in Layer
    BY <1>7, EmptyLayer, RanLayer DEF RunTenantRules
  <2> QED
    BY <1>7, <2>1 DEF RunTenantRules
<1>8. CASE Judge
  <2>1. ContentVerdict \in Verdict
    BY DEF ContentVerdict
  <2>2. DeriveStatus(ContentVerdict) \in Status
    BY DEF DeriveStatus, Status
  <2>3. (IF doc.einvoice THEN form ELSE "n_a") \in Verdict
    OBVIOUS
  <2>4. row' \in {{}} \cup {{r} : r \in Row}
    BY <1>8, <2>1, <2>2, <2>3 DEF Judge, Row
  <2> QED
    BY <1>8, <2>4 DEF Judge, layers
<1>9. CASE Record
  BY <1>9 DEF Record, layers
<1>10. CASE Redeliver
  BY <1>10, EmptyLayer DEF Redeliver
<1>11. CASE \E state \in Sidecar : SidecarBecomes(state)
  BY <1>11 DEF SidecarBecomes, layers
<1>12. CASE UNCHANGED vars
  BY <1>12 DEF vars, layers
<1> QED
  BY <1>1, <1>2, <1>3, <1>4, <1>5, <1>6, <1>7, <1>8, <1>9, <1>10, <1>11, <1>12
     DEF Next, Pipeline

\* Every step of the pipeline leaves behind what the next one relies on.
LEMMA ProgressStep ==
  ASSUME TypeOK, Progress, [Next]_vars
  PROVE  Progress'
<1> USE DEF Progress, Empty, Ran
<1>1. CASE NotAnEInvoice \/ Detect \/ DetectThrows
  BY <1>1 DEF NotAnEInvoice, Detect, DetectThrows, layers
<1>2. CASE SkipForm \/ FormDoesNotApply \/ ValidatorUnavailable
  BY <1>2 DEF SkipForm, FormDoesNotApply, ValidatorUnavailable, AsksSidecar, FormIs
<1>3. CASE ValidatorUnconfigured \/ ValidatorAnswers
  BY <1>3 DEF ValidatorUnconfigured, ValidatorAnswers, AsksSidecar, FormIs
<1>4. CASE ParseInvoice
  BY <1>4 DEF ParseInvoice, layers
<1>5. CASE RunDomainRules
  BY <1>5 DEF RunDomainRules
<1>6. CASE RunTenantRules
  BY <1>6 DEF RunTenantRules, TenantRulesRun
<1>7. CASE TenantRulesThrow \/ Judge \/ Record \/ Redeliver
  BY <1>7 DEF TenantRulesThrow, Judge, Record, Redeliver, layers
<1>8. CASE \E state \in Sidecar : SidecarBecomes(state)
  BY <1>8 DEF SidecarBecomes, layers, TenantRulesRun
<1>9. CASE UNCHANGED vars
  BY <1>9 DEF vars, layers, TenantRulesRun
<1> QED
  BY <1>1, <1>2, <1>3, <1>4, <1>5, <1>6, <1>7, <1>8, <1>9 DEF Next, Pipeline

LEMMA FormStep ==
  ASSUME TypeOK, Progress, FormRests, [Next]_vars
  PROVE  FormRests'
<1> USE DEF FormRests, FormFailed, Legal
<1>1. CASE NotAnEInvoice \/ Detect \/ DetectThrows
  BY <1>1 DEF NotAnEInvoice, Detect, DetectThrows, layers
<1>2. CASE SkipForm \/ FormDoesNotApply \/ ValidatorUnavailable
  BY <1>2 DEF SkipForm, FormDoesNotApply, ValidatorUnavailable, FormIs
<1>3. CASE ValidatorUnconfigured
  BY <1>3 DEF ValidatorUnconfigured, AsksSidecar, FormIs, Empty
<1>4. CASE ValidatorAnswers
  <2>1. (form = "pass" => Legal /\ doc.kosit = "valid")' /\ (form = "n_a" => ~doc.einvoice)'
    BY <1>4 DEF ValidatorAnswers, AsksSidecar, FormIs, Progress
  <2>2. (form = "fail" /\ l1.ran => doc.kosit # "valid")'
    BY <1>4 DEF ValidatorAnswers, AsksSidecar, FormIs, Progress
  <2>3. ASSUME form' = "fail"
        PROVE  l1'.errors \/ l2'.errors
    <3>1. doc.kosit \in {"unreadable", "schemaInvalid", "schematronInvalid"}
      BY <1>4, <2>3 DEF ValidatorAnswers, FormIs, TypeOK, Document
    <3>2. CASE doc.kosit = "schematronInvalid"
      BY <1>4, <3>2 DEF ValidatorAnswers, FormIs, Ran
    <3>3. CASE doc.kosit \in {"unreadable", "schemaInvalid"}
      BY <1>4, <3>3 DEF ValidatorAnswers, FormIs, Ran
    <3> QED
      BY <3>1, <3>2, <3>3
  <2> QED
    BY <2>1, <2>2, <2>3
<1>5. CASE ParseInvoice \/ RunDomainRules \/ RunTenantRules \/ TenantRulesThrow
  BY <1>5 DEF ParseInvoice, RunDomainRules, RunTenantRules, TenantRulesThrow, layers
<1>6. CASE Judge \/ Record \/ Redeliver
  BY <1>6 DEF Judge, Record, Redeliver, layers
<1>7. CASE \E state \in Sidecar : SidecarBecomes(state)
  BY <1>7 DEF SidecarBecomes, layers
<1>8. CASE UNCHANGED vars
  BY <1>8 DEF vars, layers
<1> QED
  BY <1>1, <1>2, <1>3, <1>4, <1>5, <1>6, <1>7, <1>8 DEF Next, Pipeline

\* The verdict that Judge writes is earned, and shows the errors found.
LEMMA JudgeStep ==
  ASSUME Inv, Judge
  PROVE  VerdictsAreEarned' /\ ContentErrorIsShown'
<1> USE DEF Inv, Judge
<1>1. /\ doc.structured /\ doc' = doc /\ client' = client
      /\ l1' = l1 /\ l2' = l2 /\ l3' = l3 /\ l4' = l4
  BY DEF Progress, layers
<1> DEFINE c == ContentVerdict
           f == IF doc.einvoice THEN form ELSE "n_a"
           s == DeriveStatus(c)
<1>2. row' = {[status |-> s, form |-> f, content |-> c]}
  OBVIOUS
<1>3. c = "pass" => doc.einvoice /\ l3.ran /\ ~l3.errors /\ ~l4.errors
  BY DEF ContentVerdict
<1>4. l3.ran => doc.parses /\ parsed
  BY DEF Progress, Empty
<1>5. doc.domain = "content_error" /\ l3.ran /\ doc.einvoice => l3.errors
  <2>1. (doc.einvoice /\ doc.domain = "content_error") \in BOOLEAN
    OBVIOUS
  <2>2. parsed => l3 = Ran(doc.einvoice /\ doc.domain = "content_error")
    BY DEF Progress
  <2> QED
    BY <1>4, <2>1, <2>2, RanLayer
<1>6. doc.tenant = "content_error" /\ l3.ran /\ doc.einvoice => l4.errors
  <2>1. TenantRulesRun => l4 = Ran(doc.tenant = "content_error")
    BY DEF Progress
  <2> QED
    BY <1>4, <2>1, RanLayer DEF TenantRulesRun
<1>7. f \in {"pass", "fail", "unknown", "n_a"} /\ (f = "n_a" => ~doc.einvoice)
  BY DEF TypeOK, Verdict, FormRests
<1>8. s = "clean" => f = "pass"
  <2>1. s = "clean" => doc.einvoice /\ form # "fail" /\ c # "fail"
    BY DEF DeriveStatus
  <2>2. s = "clean" => form # "unknown"
    BY <2>1 DEF DeriveStatus
  <2> QED
    BY <2>1, <2>2, <1>7
<1>9. f = "pass" => Legal /\ doc.kosit = "valid"
  BY DEF FormRests
<1>10. f = "fail" /\ l1.ran => doc.kosit # "valid"
  BY DEF FormRests
<1>11. l3.errors \/ l4.errors => l3.ran
  BY DEF Progress, TenantRulesRun, Empty, Ran
<1>12. Legal /\ (l3.errors \/ l4.errors) => c = "fail"
  BY <1>11 DEF ContentVerdict, Legal
<1>13. Legal /\ (l3.errors \/ l4.errors) => s \in {"content_error", "form_error"}
  BY <1>12 DEF DeriveStatus, Legal
<1>18. s = "form_error" => doc.einvoice /\ form = "fail"
  BY DEF DeriveStatus
<1>19. s = "form_error" => f = "fail" /\ FormFailed
  BY <1>18 DEF FormRests
<1>14. Legal' = Legal
  BY <1>1 DEF Legal
<1>16. s = "clean" /\ c # "pass" =>
        c = "unknown" /\ ~(doc.size = "upTo12MB" /\ doc.parses)
  <2>1. s = "clean" => doc.einvoice /\ c # "fail"
    BY DEF DeriveStatus
  <2>2. doc.einvoice => c \in {"pass", "fail", "unknown"} /\ (c = "unknown" => ~l3.ran)
    BY DEF ContentVerdict
  <2>3. parsed => l3.ran
    <3>1. (doc.einvoice /\ doc.domain = "content_error") \in BOOLEAN
      OBVIOUS
    <3>2. parsed => l3 = Ran(doc.einvoice /\ doc.domain = "content_error")
      BY DEF Progress
    <3> QED
      BY <3>1, <3>2, RanLayer
  <2>4. doc.size = "upTo12MB" /\ doc.parses => parsed
    BY DEF Progress
  <2> QED
    BY <2>1, <2>2, <2>3, <2>4
<1> HIDE DEF c, f, s
<1>15. VerdictsAreEarned'
  BY <1>1, <1>2, <1>3, <1>4, <1>5, <1>6, <1>8, <1>9, <1>10, <1>14, <1>16
     DEF VerdictsAreEarned, Legal
<1>17. ContentErrorIsShown'
  BY <1>1, <1>2, <1>12, <1>13, <1>14, <1>19 DEF ContentErrorIsShown, FormFailed
<1> QED
  BY <1>15, <1>17

\* Before a verdict there is no row, and after it nothing that it rests on
\* changes any more.
LEMMA RowStep ==
  ASSUME Inv, [Next]_vars
  PROVE  VerdictsAreEarned' /\ ContentErrorIsShown'
<1> USE DEF Inv
<1>1. CASE Judge
  BY <1>1, JudgeStep
<1>2. CASE NotAnEInvoice
  <2>1. l4.errors = FALSE /\ l1.ran = FALSE
    BY <1>2 DEF NotAnEInvoice, Progress, Empty
  <2> QED
    BY <1>2, <2>1 DEF NotAnEInvoice, VerdictsAreEarned, ContentErrorIsShown, Ran, Legal
<1>3. CASE Detect \/ DetectThrows \/ SkipForm \/ FormDoesNotApply \/ ValidatorUnavailable
           \/ ValidatorUnconfigured \/ ValidatorAnswers
  <2>1. row = {} /\ row' = {}
    BY <1>3 DEF Detect, DetectThrows, SkipForm, FormDoesNotApply, ValidatorUnavailable,
                ValidatorUnconfigured, ValidatorAnswers, AsksSidecar, FormIs, Progress
  <2> QED
    BY <2>1 DEF VerdictsAreEarned, ContentErrorIsShown
<1>4. CASE ParseInvoice \/ RunDomainRules \/ RunTenantRules \/ TenantRulesThrow
           \/ Redeliver
  <2>1. row = {} /\ row' = {}
    BY <1>4 DEF ParseInvoice, RunDomainRules, RunTenantRules, TenantRulesThrow,
                Redeliver, Progress
  <2> QED
    BY <2>1 DEF VerdictsAreEarned, ContentErrorIsShown
<1>5. CASE Record \/ (\E state \in Sidecar : SidecarBecomes(state)) \/ UNCHANGED vars
  <2>1. UNCHANGED <<row, doc, client, l1, l2, l3, l4>>
    BY <1>5 DEF Record, SidecarBecomes, vars, layers
  <2> QED
    BY <2>1 DEF VerdictsAreEarned, ContentErrorIsShown, Legal
<1> QED
  BY <1>1, <1>2, <1>3, <1>4, <1>5 DEF Next, Pipeline

LEMMA InvStep == Inv /\ [Next]_vars => Inv'
<1> SUFFICES ASSUME Inv, [Next]_vars PROVE Inv'
  OBVIOUS
<1>1. TypeOK' /\ Progress' /\ FormRests'
  BY TypeStep, ProgressStep, FormStep DEF Inv
<1> QED
  BY <1>1, RowStep DEF Inv

-----------------------------------------------------------------------------
\* What a request holds is well typed, whichever callers have a sidecar.
THEOREM TypeCorrect == Spec => []TypeOK
<1>1. Inv => TypeOK
  BY DEF Inv
<1> QED
  BY InitInv, InvStep, <1>1, PTL DEF Spec

\* No outage, restart, skipped layer or failed parse turns into a pass, and a
\* reported form failure is one of KoSIT's.
THEOREM Earned == Spec => []VerdictsAreEarned
<1>1. Inv => VerdictsAreEarned
  BY DEF Inv
<1> QED
  BY InitInv, InvStep, <1>1, PTL DEF Spec

\* A content error that was found is what the row says, unless a form layer found
\* one or the sidecar was asked without its configuration.
THEOREM Shown == Spec => []ContentErrorIsShown
<1>1. Inv => ContentErrorIsShown
  BY DEF Inv
<1> QED
  BY InitInv, InvStep, <1>1, PTL DEF Spec

\* L3 and L4 never touch the form verdict.
THEOREM FormNeverMixes == Spec => FormIsFinal
<1>1. [Next]_vars =>
        [at \notin {"received", "detected", "rejected"} => form' = form]_vars
  <2> SUFFICES ASSUME Next, at \notin {"received", "detected", "rejected"}
               PROVE  form' = form
    BY DEF vars
  <2>1. CASE NotAnEInvoice \/ Detect \/ DetectThrows \/ SkipForm \/ FormDoesNotApply
    BY <2>1 DEF NotAnEInvoice, Detect, DetectThrows, SkipForm, FormDoesNotApply
  <2>2. CASE ValidatorUnavailable \/ ValidatorUnconfigured \/ ValidatorAnswers
    BY <2>2 DEF ValidatorUnavailable, ValidatorUnconfigured, ValidatorAnswers, AsksSidecar
  <2>3. CASE ParseInvoice \/ RunDomainRules \/ RunTenantRules \/ TenantRulesThrow
    BY <2>3 DEF ParseInvoice, RunDomainRules, RunTenantRules, TenantRulesThrow
  <2>4. CASE Judge \/ Record \/ Redeliver
    BY <2>4 DEF Judge, Record, Redeliver
  <2>5. CASE \E state \in Sidecar : SidecarBecomes(state)
    BY <2>5 DEF SidecarBecomes
  <2> QED
    BY <2>1, <2>2, <2>3, <2>4, <2>5 DEF Next, Pipeline
<1> QED
  BY <1>1, PTL DEF Spec, FormIsFinal

-----------------------------------------------------------------------------
(* Detail: documents that say less. *)

\* d says no more than c, and its lookups answer no more.
Less(c, d) ==
  /\ d.einvoice = c.einvoice /\ d.direction = c.direction
  /\ d.vies \in {c.vies, "absent"} \/ (d.vies = "silent" /\ c.vies # "absent")
  /\ \A h \in d.history : \E g \in c.history : h.known = g.known /\ h.stats \subseteq g.stats
  /\ d.reference \in {c.reference, "none"}
  /\ d.issued \subseteq c.issued /\ d.due \subseteq c.due
  /\ d.number \subseteq c.number /\ d.gross \subseteq c.gross
  /\ d.iban \in {c.iban, ""}
  /\ d.seller.vat \in {c.seller.vat, ""} /\ d.buyer.vat \in {c.buyer.vat, ""}
  /\ DOMAIN d.tax = DOMAIN c.tax
  /\ \A i \in DOMAIN c.tax : /\ d.tax[i].category \in {c.tax[i].category, ""}
                             /\ d.tax[i].rate \subseteq c.tax[i].rate
                             /\ d.tax[i].reason => c.tax[i].reason

LEMMA WithoutIsLess ==
  ASSUME NEW c \in DomainContext, NEW d \in Without(c)
  PROVE  Less(c, d)
<1> USE DEF DomainContext, Less
<1>1. CASE d = [c EXCEPT !.vies = "absent"]
  BY <1>1
<1>2. CASE c.vies # "absent" /\ d = [c EXCEPT !.vies = "silent"]
  BY <1>2
<1>3. CASE d = [c EXCEPT !.history = {}]
  BY <1>3
<1>4. CASE d = [c EXCEPT !.history = {[h EXCEPT !.stats = {}] : h \in c.history}]
  <2>1. d.history = {[h EXCEPT !.stats = {}] : h \in c.history}
    BY <1>4
  <2>2. \A h \in d.history : \E g \in c.history : h.known = g.known /\ h.stats \subseteq g.stats
    BY <2>1 DEF Optional
  <2> QED
    BY <1>4, <2>2
<1>5. CASE d \in {[c EXCEPT !.issued = {}], [c EXCEPT !.due = {}], [c EXCEPT !.number = {}],
                  [c EXCEPT !.gross = {}], [c EXCEPT !.iban = ""], [c EXCEPT !.reference = "none"]}
  BY <1>5
<1>6. CASE d \in {[c EXCEPT !.seller.vat = ""], [c EXCEPT !.buyer.vat = ""],
                  [c EXCEPT !.seller.country = {}], [c EXCEPT !.buyer.country = {}]}
  <2>1. c.seller \in Partner /\ c.buyer \in Partner
    OBVIOUS
  <2>2. /\ d.seller \in {c.seller, [c.seller EXCEPT !.vat = ""], [c.seller EXCEPT !.country = {}]}
        /\ d.buyer \in {c.buyer, [c.buyer EXCEPT !.vat = ""], [c.buyer EXCEPT !.country = {}]}
    BY <1>6
  <2>3. ASSUME NEW p \in Partner
        PROVE  /\ [p EXCEPT !.vat = ""].vat = ""
               /\ [p EXCEPT !.country = {}].vat = p.vat
    BY DEF Partner
  <2>4. d.seller.vat \in {c.seller.vat, ""} /\ d.buyer.vat \in {c.buyer.vat, ""}
    BY ONLY <2>1, <2>2, <2>3
  <2> QED
    BY <1>6, <2>4
<1>7. ASSUME NEW i \in DOMAIN c.tax,
             \/ d = [c EXCEPT !.tax[i].rate = {}] \/ d = [c EXCEPT !.tax[i].category = ""]
             \/ d = [c EXCEPT !.tax[i].reason = FALSE]
      PROVE  Less(c, d)
  <2>1. c.tax \in Seq(TaxEntry) /\ \A j \in DOMAIN c.tax : c.tax[j] \in TaxEntry
    OBVIOUS
  <2>2. d.tax \in {[c.tax EXCEPT ![i].rate = {}], [c.tax EXCEPT ![i].category = ""],
                   [c.tax EXCEPT ![i].reason = FALSE]}
    BY <1>7
  <2>3. DOMAIN d.tax = DOMAIN c.tax
    BY <2>1, <2>2
  <2>4. ASSUME NEW j \in DOMAIN c.tax
        PROVE  /\ d.tax[j].category \in {c.tax[j].category, ""}
               /\ d.tax[j].rate \subseteq c.tax[j].rate
               /\ d.tax[j].reason => c.tax[j].reason
    <3>1. d.tax[j] \in {c.tax[j], [c.tax[j] EXCEPT !.rate = {}], [c.tax[j] EXCEPT !.category = ""],
                        [c.tax[j] EXCEPT !.reason = FALSE]}
      <4>1. CASE d.tax = [c.tax EXCEPT ![i].rate = {}]
        <5>1. d.tax[j] = IF i = j THEN [c.tax[i] EXCEPT !.rate = {}] ELSE c.tax[j]
          BY ONLY <4>1, <2>4
        <5> QED
          BY ONLY <5>1
      <4>2. CASE d.tax = [c.tax EXCEPT ![i].category = ""]
        <5>1. d.tax[j] = IF i = j THEN [c.tax[i] EXCEPT !.category = ""] ELSE c.tax[j]
          BY ONLY <4>2, <2>4
        <5> QED
          BY ONLY <5>1
      <4>3. CASE d.tax = [c.tax EXCEPT ![i].reason = FALSE]
        <5>1. d.tax[j] = IF i = j THEN [c.tax[i] EXCEPT !.reason = FALSE] ELSE c.tax[j]
          BY ONLY <4>3, <2>4
        <5> QED
          BY ONLY <5>1
      <4> QED
        BY ONLY <2>2, <4>1, <4>2, <4>3
    <3>2. c.tax[j] \in TaxEntry
      BY <2>1, <2>4
    <3> QED
      BY ONLY <3>1, <3>2 DEF TaxEntry
  <2> QED
    BY <1>7, <2>3, <2>4
<1> QED
  BY <1>1, <1>2, <1>3, <1>4, <1>5, <1>6, <1>7 DEF Without

\* The two warnings that may come of a silence.
OfSilence == {"domain.d004.vies_unavailable", "domain.d005.unusual_rate"}

LEMMA ForFewerEntries ==
  ASSUME NEW S, NEW T, S \subseteq T, NEW f
  PROVE  ForEntries(S, f) \subseteq ForEntries(T, f)
  BY DEF ForEntries

LEMMA KeyForEntries ==
  ASSUME NEW S, NEW code, NEW key, NEW severity, NEW params,
         NEW f \in ForEntries(S, Finding(code, key, severity, params))
  PROVE  f.key = key
  BY DEF ForEntries, Finding

\* The error that comes of a reason that c gives and d does not.
OfReason(c, d, f) ==
  /\ f.key = "domain.d002.exemption_reason_missing"
  /\ c.tax[f.entry].reason /\ ~d.tax[f.entry].reason

LEMMA LessD002 ==
  ASSUME NEW c, NEW d, Less(c, d), NEW f \in D002(d) \ D002(c)
  PROVE  OfReason(c, d, f)
<1> DEFINE S(e) == {i \in DOMAIN e.tax : e.tax[i].category \in ReasonRequired /\ ~e.tax[i].reason}
           g == Finding("D-002", "domain.d002.exemption_reason_missing", "content_error",
                        {"vat_category"})
           Of(i) == [g EXCEPT !.entry = i, !.params = @ \cup {"breakdown_index"}]
<1>1. /\ D002(d) = {Of(i) : i \in S(d)}
      /\ D002(c) = {Of(i) : i \in S(c)}
  BY DEF D002, ForEntries
<1>2. \A i : Of(i).entry = i /\ Of(i).key = "domain.d002.exemption_reason_missing"
  BY DEF Finding
<1> HIDE DEF Of, g
<1>3. PICK i \in S(d) : f = Of(i)
  BY <1>1
<1>4. i \notin S(c)
  BY <1>1, <1>3
<1>5. f.entry = i /\ f.key = "domain.d002.exemption_reason_missing"
  BY <1>2, <1>3
<1>6. /\ i \in DOMAIN c.tax /\ c.tax[i].category \in ReasonRequired
      /\ ~d.tax[i].reason
  BY <1>3 DEF Less, ReasonRequired
<1> QED
  BY <1>4, <1>5, <1>6 DEF OfReason

LEMMA LessD003 ==
  ASSUME NEW c, NEW d, Less(c, d)
  PROVE  D003(d) \subseteq D003(c)
  BY DEF Less, D003, When

LEMMA LessD004 ==
  ASSUME NEW c, NEW d, Less(c, d), NEW f \in D004(d) \ D004(c)
  PROVE  f.key \in OfSilence
<1>1. AskVies(d) => AskVies(c)
  <2>1. Counterparty(d).vat \in {Counterparty(c).vat, ""}
    BY DEF Counterparty, Less
  <2>2. d.vies # "absent" => c.vies # "absent"
    BY DEF Less
  <2> QED
    BY <2>1, <2>2 DEF AskVies, EU
<1>2. d.vies = "invalid" => c.vies = "invalid"
  BY DEF Less
<1> QED
  BY <1>1, <1>2 DEF D004, When, Finding, OfSilence

LEMMA LessD005 ==
  ASSUME NEW c, NEW d, Less(c, d), NEW f \in D005(d) \ D005(c)
  PROVE  f.key \in OfSilence
<1> DEFINE S(e) == {i \in InCategory(e, ZeroRated) : \E rate \in e.tax[i].rate : rate > 0}
           T(e) == {i \in InCategory(e, {"S"}) : 0 \in e.tax[i].rate}
<1>1. S(d) \subseteq S(c) /\ T(d) \subseteq T(c)
  BY DEF Less, InCategory, ZeroRated
<1> HIDE DEF S, T
<1>2. /\ \A a : ForEntries(S(d), a) \subseteq ForEntries(S(c), a)
      /\ \A a : ForEntries(T(d), a) \subseteq ForEntries(T(c), a)
  BY <1>1, ForFewerEntries
<1>3. f \in ForEntries({i \in InCategory(d, {"S"}) :
                          Domestic(d) /\ d.tax[i].rate \ GermanRates # {}},
                       Finding("D-005", "domain.d005.unusual_rate", "warning", {"vat_rate"}))
  BY <1>2 DEF D005, S, T
<1> QED
  BY <1>3, KeyForEntries DEF OfSilence

LEMMA LessRest ==
  ASSUME NEW c, NEW d, Less(c, d)
  PROVE  /\ D006(d) \subseteq D006(c) /\ D007(d) \subseteq D007(c)
         /\ D008(d) \subseteq D008(c) /\ D009(d) \subseteq D009(c)
<1>1. D006(d) \subseteq D006(c)
  BY DEF Less, D006, When
<1>2. D007(d) \subseteq D007(c)
  BY DEF Less, D007, When
<1>3. D008(d) \subseteq D008(c)
  BY DEF Less, D008, When, CountryOf
<1>4. D009(d) \subseteq D009(c)
  <2>1. d.seller.vat # "" => c.seller.vat # ""
    BY DEF Less
  <2>2. ASSUME NEW gross \in d.gross, NEW h \in d.history, NEW s \in h.stats
        PROVE  gross \in c.gross /\ \E g \in c.history : s \in g.stats
    BY DEF Less
  <2> QED
    BY <2>1, <2>2 DEF D009, When
<1> QED
  BY <1>1, <1>2, <1>3, <1>4

LEMMA LessFound ==
  ASSUME NEW c, NEW d, Less(c, d), NEW f \in DomainFindings(d) \ DomainFindings(c)
  PROVE  f.key \in OfSilence \/ OfReason(c, d, f)
<1>1. d.einvoice = c.einvoice
  BY DEF Less
<1>2. c.einvoice
  BY <1>1 DEF DomainFindings, D001
<1> QED
  BY <1>1, <1>2, LessD002, LessD003, LessD004, LessD005, LessRest DEF DomainFindings

-----------------------------------------------------------------------------
(* Detail: what is found and what is shown of it. *)

\* A rule supplies what the first release's template of its key declares.
Supplied(f) == \E t \in Templates : t.key = f.key /\ t.required \subseteq f.params

LEMMA FileFields ==
  ASSUME NEW key, NEW params
  PROVE  /\ File(key, params).key = key /\ File(key, params).required = params
         /\ Signal(key, params).key = key /\ Signal(key, params).required = params
  BY DEF File, Signal

LEMMA RulesSupply ==
  ASSUME NEW c, NEW f \in DomainFindings(c)
  PROVE  Supplied(f)
<1>1. CASE f \in D001(c)
  BY <1>1, FileFields DEF D001, When, Finding, Templates, Supplied
<1>2. CASE f \in D002(c)
  <2>1. /\ f.key = "domain.d002.exemption_reason_missing"
        /\ {"vat_category"} \subseteq f.params
    BY <1>2 DEF D002, ForEntries, Finding
  <2> QED
    BY <2>1, FileFields DEF Templates, Supplied
<1>3. CASE f \in D003(c)
  BY <1>3, FileFields DEF D003, When, Finding, Templates, Supplied
<1>4. CASE f \in D004(c)
  BY <1>4, FileFields DEF D004, When, Finding, Templates, Supplied
<1>5. CASE f \in D005(c)
  <2>1. \/ /\ f.key = "domain.d005.rate_category_mismatch"
           /\ {"vat_category", "vat_rate"} \subseteq f.params
        \/ f.key = "domain.d005.standard_rate_zero" /\ {} \subseteq f.params
        \/ f.key = "domain.d005.unusual_rate" /\ {"vat_rate"} \subseteq f.params
    BY <1>5 DEF D005, ForEntries, Finding
  <2> QED
    BY <2>1, FileFields DEF Templates, Supplied
<1>6. CASE f \in D006(c)
  BY <1>6, FileFields DEF D006, When, Finding, Templates, Supplied
<1>7. CASE f \in D007(c)
  <2>1. /\ f.key = "domain.d007.duplicate_invoice"
        /\ f.params = {"invoice_number", "supplier_vat_id"}
    <3>1. f = Finding("D-007", "domain.d007.duplicate_invoice", "content_error",
                     {"invoice_number", "supplier_vat_id"})
      BY <1>7, Zenon DEF D007, When
    <3> QED
      BY ONLY <3>1 DEF Finding
  <2>2. File("domain.d007.duplicate_invoice", {"invoice_number", "supplier_vat_id"}) \in Templates
    BY DEF Templates
  <2> QED
    BY <2>1, <2>2, FileFields DEF Supplied
<1>8. CASE f \in D008(c)
  <2>1. /\ f.key = "domain.d008.iban_country_mismatch"
        /\ f.params = {"vat_country", "iban_country", "iban"}
    <3>1. f = Finding("D-008", "domain.d008.iban_country_mismatch", "warning",
                     {"vat_country", "iban_country", "iban"})
      BY <1>8, Zenon DEF D008, When
    <3> QED
      BY ONLY <3>1 DEF Finding
  <2>2. Signal("domain.d008.iban_country_mismatch", {"vat_country", "iban_country", "iban"})
          \in Templates
    BY DEF Templates
  <2> QED
    BY <2>1, <2>2, FileFields DEF Supplied
<1>9. CASE f \in D009(c)
  <2>1. /\ f.key = "domain.d009.amount_outlier"
        /\ f.params = {"gross_amount", "mean_amount", "factor", "sample_size"}
    <3>1. f = Finding("D-009", "domain.d009.amount_outlier", "warning",
                     {"gross_amount", "mean_amount", "factor", "sample_size"})
      BY <1>9, Zenon DEF D009, When
    <3> QED
      BY ONLY <3>1 DEF Finding
  <2>2. Signal("domain.d009.amount_outlier",
               {"gross_amount", "mean_amount", "factor", "sample_size"}) \in Templates
    BY DEF Templates
  <2> QED
    BY <2>1, <2>2, FileFields DEF Supplied
<1> QED
  BY <1>1, <1>2, <1>3, <1>4, <1>5, <1>6, <1>7, <1>8, <1>9 DEF DomainFindings

LEMMA UndetectedSupplied ==
  ASSUME ctx.undetected \in D000Keys
  PROVE  Supplied(D000)
<1>1. File(ctx.undetected, {"filename"}) \in Templates
  BY DEF Templates
<1> QED
  BY <1>1, FileFields DEF Supplied, D000, Finding

\* The loader sees to it that a text uses what is declared, so what was supplied
\* at first is enough for every release that starts.
LEMMA TextOrWithheld ==
  ASSUME NEW files \in Startable, NEW f, Supplied(f), NEW locale \in Locales,
         NEW allowUnapproved \in BOOLEAN
  PROVE  Explanation(files, f, locale, allowUnapproved)
           = IF allowUnapproved \/ f.key \in Approved(files) THEN "text" ELSE "withheld"
<1>1. PICK t \in Templates : t.key = f.key /\ t.required \subseteq f.params
  BY DEF Supplied
<1>2. files \in Releases /\ LoadTemplateDir(files)
  BY DEF Startable
<1>3. PICK u \in files : u.key = t.key /\ u.required \subseteq t.required
  BY <1>2, ReleasesAssumption
<1>4. {v \in files : v.key = f.key} = {u}
  BY <1>1, <1>2, <1>3 DEF LoadTemplateDir
<1>5. u.required = UNION {u.uses[l] : l \in Locales}
  BY <1>2 DEF LoadTemplateDir, LoadTemplate, Placeholders
<1>6. ASSUME NEW l \in Locales
      PROVE  Missing(u, l, f.params) = {}
  BY <1>1, <1>3, <1>5 DEF Missing
<1>7. "de" \in Locales
  BY DEF Locales
<1>8. f.key \in Approved(files) <=> u.approved
  BY <1>1, <1>3, <1>4 DEF Approved
<1>9. ASSUME NEW l \in Locales
      PROVE  RenderExplanation(files, f, l, allowUnapproved)
               = IF allowUnapproved \/ u.approved THEN "text" ELSE "throws"
  <2>1. {v \in files : v.key = f.key} # {}
    BY <1>4
  <2>2. (\E v \in {w \in files : w.key = f.key} :
           \/ ~v.approved /\ ~allowUnapproved
           \/ Missing(v, l, f.params) # {}) <=> ~(allowUnapproved \/ u.approved)
    BY <1>4, <1>6
  <2> QED
    BY ONLY <2>1, <2>2 DEF RenderExplanation
<1> QED
  BY <1>7, <1>8, <1>9 DEF Explanation

LEMMA TextIsApproved ==
  ASSUME NEW files, NEW f, NEW locale, NEW allowUnapproved \in BOOLEAN,
         Explanation(files, f, locale, allowUnapproved) = "text"
  PROVE  allowUnapproved \/ f.key \in Approved(files)
<1>1. RenderExplanation(files, f, locale, allowUnapproved) = "text"
  BY DEF Explanation
<1>2. PICK t \in files : t.key = f.key
  BY <1>1 DEF RenderExplanation
<1>3. t.approved \/ allowUnapproved
  BY <1>1, <1>2 DEF RenderExplanation
<1> QED
  BY <1>2, <1>3 DEF Approved

DetailInv ==
  /\ ctx \in DomainContext /\ ctx.undetected \in D000Keys
  /\ FindingsAreExplained

LEMMA DetailInitInv == DetailInit => DetailInv
  BY DEF DetailInit, DetailInv, FindingsAreExplained

LEMMA DetailStep == DetailInv /\ [DetailNext]_detailVars => DetailInv'
<1> SUFFICES ASSUME DetailInv, [DetailNext]_detailVars PROVE DetailInv'
  OBVIOUS
<1>1. ctx' = ctx
  BY DEF DetailNext, ReadDetail, detailVars
<1>2. CASE page' = page
  <2>1. D000' = D000
    BY <1>1 DEF D000
  <2> QED
    BY <1>1, <1>2, <2>1 DEF DetailInv, FindingsAreExplained
<1>3. CASE ReadDetail
  <2>1. PICK files \in Startable, locale \in Locales, allowUnapproved \in BOOLEAN :
          page' = {[approved |-> Approved(files), allowUnapproved |-> allowUnapproved,
                    shown |-> [f \in Findings |-> Explanation(files, f, locale, allowUnapproved)]]}
    BY <1>3 DEF ReadDetail
  <2>2. ASSUME NEW p \in page', NEW f \in DOMAIN p.shown
        PROVE  /\ f \in Findings
               /\ p.shown[f] = Explanation(files, f, locale, allowUnapproved)
               /\ p.allowUnapproved = allowUnapproved /\ p.approved = Approved(files)
    BY <2>1
  <2>3. ASSUME NEW f, f \in DomainFindings(ctx)' \cup {D000'}
        PROVE  Supplied(f)
    <3>1. D000' = D000
      BY <1>1 DEF D000
    <3>2. f \in DomainFindings(ctx) \/ f = D000
      BY <1>1, <2>3, <3>1
    <3> QED
      BY <3>2, RulesSupply, UndetectedSupplied DEF DetailInv
  <2> HIDE DEF D000
  <2>4. ASSUME NEW p \in page', NEW f \in DOMAIN p.shown
        PROVE  /\ p.shown[f] = "text" => p.allowUnapproved \/ f.key \in p.approved
               /\ f \in DomainFindings(ctx)' \cup {D000'} =>
                    p.shown[f] = IF p.allowUnapproved \/ f.key \in p.approved
                                 THEN "text" ELSE "withheld"
    BY <2>2, <2>3, TextOrWithheld, TextIsApproved
  <2>5. FindingsAreExplained'
    BY <2>4 DEF FindingsAreExplained
  <2> QED
    BY <1>1, <2>5 DEF DetailInv
<1> QED
  BY <1>2, <1>3 DEF DetailNext, detailVars

\* What a document leaves out, and what a lookup does not answer, is never
\* the reason for a finding of the domain rules (packages/validation, rules.ts),
\* but for two warnings and for the error that an exemption has no reason, which
\* comes of this entry's reason alone: for every document, not only the run's.
THEOREM Abstains == DetailSpec => []AbstainsRatherThanGuesses
<1>1. DetailInv => AbstainsRatherThanGuesses
  <2> SUFFICES ASSUME DetailInv, l3.ran, doc.structured,
                      NEW less \in Without(ctx), NEW f \in DomainFindings(less) \ Findings
               PROVE  f.key \in OfSilence \/ OfReason(ctx, less, f)
    BY DEF AbstainsRatherThanGuesses, OfSilence, OfReason
  <2>1. DomainFindings(ctx) \subseteq Findings
    BY DEF Findings
  <2>2. Less(ctx, less)
    BY WithoutIsLess DEF DetailInv
  <2> QED
    BY <2>1, <2>2, LessFound
<1> QED
  BY DetailInitInv, DetailStep, <1>1, PTL DEF DetailSpec

\* Whichever release shows a finding of the domain rules has the text for it,
\* and shows it exactly when it is approved (packages/explain, render.ts).
THEOREM Explained == DetailSpec => []FindingsAreExplained
<1>1. DetailInv => FindingsAreExplained
  BY DEF DetailInv
<1> QED
  BY DetailInitInv, DetailStep, <1>1, PTL DEF DetailSpec

\* The domain rules in the place of what Validation leaves open are one of the
\* documents it knows: what is proved of Validation is true of Detail.
THEOREM DetailIsValidation == DetailSpec => Spec
<1>1. DetailInit => Init
  BY DEF DetailInit
<1>2. [DetailNext]_detailVars => [Next]_vars
  BY DEF DetailNext, ReadDetail, detailVars
<1> QED
  BY <1>1, <1>2, PTL DEF DetailSpec, Spec

-----------------------------------------------------------------------------
(* Tenant rules.  Their conditions are trees, and what the engine says of  *)
(* one is defined by recursion over them: Recursion gives such a definition*)
(* its meaning, ByHeight is induction over it.                             *)

\* A set of numbers that is not empty has a least one.
LEMMA LeastNumber ==
  ASSUME NEW S \in SUBSET Nat, S # {}
  PROVE  \E k \in S : \A j \in S : k <= j
<1>1. PICK x \in S : TRUE
  OBVIOUS
<1>2. PICK k \in S : \A j \in S : ~(j < k)
  <2>1. IsWellFoundedOn(OpToRel(<, Nat), Nat)
    BY NatLessThanWellFounded
  <2>2. \E k \in S : \A j \in S : ~(<<j, k>> \in OpToRel(<, Nat))
    BY <2>1, WFMin
  <2> QED
    BY <2>2 DEF OpToRel
<1> QED
  BY <1>2

\* What holds of a condition when it holds of all lower ones holds of all.
LEMMA ByHeight ==
  ASSUME NEW P,
         \A n \in Nodes : (\A m \in Nodes : Height[m] < Height[n] => m \in P) => n \in P
  PROVE  \A n \in Nodes : n \in P
<1> SUFFICES ASSUME NEW n \in Nodes, n \notin P PROVE FALSE
  OBVIOUS
<1> DEFINE Heights == {Height[m] : m \in {l \in Nodes : l \notin P}}
<1>1. Heights \in SUBSET Nat /\ Heights # {}
  BY NodesAssumption
<1>2. PICK k \in Heights : \A j \in Heights : k <= j
  <2> HIDE DEF Heights
  <2> QED
    BY <1>1, LeastNumber
<1>3. PICK m \in Nodes : m \notin P /\ Height[m] = k
  OBVIOUS
<1>4. ASSUME NEW l \in Nodes, Height[l] < Height[m], l \notin P PROVE FALSE
  <2>1. Height[l] \in Heights
    BY <1>4
  <2>2. Height[l] \in Nat /\ Height[m] \in Nat
    BY NodesAssumption
  <2> HIDE DEF Heights
  <2> QED
    BY <1>2, <1>3, <1>4, <2>1, <2>2
<1> QED
  BY <1>3, <1>4

\* What a definition says of a condition, from what it says of lower ones.
IsBody(G, V) ==
  /\ G \in [Nodes \X [Nodes -> V] -> V]
  /\ \A n \in Nodes : \A f, g \in [Nodes -> V] :
       (\A m \in Nodes : Height[m] < Height[n] => f[m] = g[m]) => G[<<n, f>>] = G[<<n, g>>]

\* Such a definition has a meaning.
LEMMA Recursion ==
  ASSUME NEW V, NEW v \in V, NEW G, IsBody(G, V)
  PROVE  \E f \in [Nodes -> V] : \A n \in Nodes : f[n] = G[<<n, f>>]
<1>b. /\ G \in [Nodes \X [Nodes -> V] -> V]
      /\ \A n \in Nodes : \A f, g \in [Nodes -> V] :
           (\A m \in Nodes : Height[m] < Height[n] => f[m] = g[m]) => G[<<n, f>>] = G[<<n, g>>]
  BY DEF IsBody
<1> DEFINE Fs == [Nodes -> V]
           Upto == {k \in Nat : \E f \in Fs : \A n \in Nodes : Height[n] < k => f[n] = G[<<n, f>>]}
<1>h. \A n \in Nodes : Height[n] \in Nat
  BY NodesAssumption
<1>1. \A k \in Nat : k \in Upto
  <2> SUFFICES ASSUME Nat \ Upto # {} PROVE FALSE
    OBVIOUS
  <2>1. PICK k \in Nat \ Upto : \A j \in Nat \ Upto : k <= j
    <3>1. (Nat \ Upto) \in SUBSET Nat
      OBVIOUS
    <3> HIDE DEF Upto
    <3> QED
      BY <3>1, LeastNumber
  <2>2. k # 0
    <3>1. [n \in Nodes |-> v] \in Fs
      OBVIOUS
    <3>2. \A n \in Nodes : ~(Height[n] < 0)
      BY <1>h
    <3>3. 0 \in Upto
      BY <3>1, <3>2
    <3> QED
      BY <2>1, <3>3
  <2>3. k - 1 \in Upto
    <3>1. k - 1 \in Nat /\ ~(k <= k - 1)
      BY <2>1, <2>2
    <3> HIDE DEF Upto
    <3> QED
      BY <3>1, <2>1
  <2>4. PICK f \in Fs : \A n \in Nodes : Height[n] < k - 1 => f[n] = G[<<n, f>>]
    BY <2>3
  <2> DEFINE g == [n \in Nodes |-> IF Height[n] < k - 1 THEN f[n] ELSE G[<<n, f>>]]
  <2>5. \A n \in Nodes : <<n, f>> \in Nodes \X Fs
    BY <2>4
  <2>6. g \in Fs
    BY <1>b, <2>4, <2>5
  <2>7. ASSUME NEW n \in Nodes, Height[n] < k PROVE g[n] = G[<<n, g>>]
    <3>1. \A m \in Nodes : Height[m] < Height[n] => f[m] = g[m]
      BY <1>h, <2>1, <2>7
    <3>2. G[<<n, f>>] = G[<<n, g>>]
      <4> HIDE DEF g
      <4> QED
        BY <1>b, <2>4, <2>6, <3>1
    <3>3. g[n] = IF Height[n] < k - 1 THEN f[n] ELSE G[<<n, f>>]
      OBVIOUS
    <3> HIDE DEF g
    <3> QED
      BY <2>4, <3>2, <3>3
  <2>8. k \in Upto
    <3> HIDE DEF g
    <3> QED
      BY <2>1, <2>6, <2>7
  <2> QED
    BY <2>1, <2>8
<1> DEFINE F == [k \in Nat |-> CHOOSE f \in Fs : \A n \in Nodes : Height[n] < k => f[n] = G[<<n, f>>]]
<1>2. \A k \in Nat : F[k] \in Fs /\ \A n \in Nodes : Height[n] < k => F[k][n] = G[<<n, F[k]>>]
  BY <1>1
<1> DEFINE Same == {n \in Nodes : \A j, k \in Nat : Height[n] < j /\ Height[n] < k => F[j][n] = F[k][n]}
<1>3. \A n \in Nodes : n \in Same
  <2>1. ASSUME NEW n \in Nodes, \A m \in Nodes : Height[m] < Height[n] => m \in Same
        PROVE  n \in Same
    <3>1. ASSUME NEW j \in Nat, NEW k \in Nat, Height[n] < j, Height[n] < k
          PROVE  F[j][n] = F[k][n]
      <4>1. \A m \in Nodes : Height[m] < Height[n] => Height[m] < j /\ Height[m] < k
        BY <1>h, <3>1
      <4> HIDE DEF F
      <4>2. \A m \in Nodes : Height[m] < Height[n] => F[j][m] = F[k][m]
        BY <2>1, <4>1
      <4>3. G[<<n, F[j]>>] = G[<<n, F[k]>>]
        BY <1>b, <1>2, <4>2
      <4> QED
        BY <1>2, <3>1, <4>3
    <3> HIDE DEF F
    <3> QED
      BY <3>1
  <2> HIDE DEF Same
  <2> QED
    BY <2>1, ByHeight
<1> DEFINE f == [n \in Nodes |-> F[Height[n] + 1][n]]
<1>4. f \in Fs
  <2>1. \A n \in Nodes : Height[n] + 1 \in Nat
    BY <1>h
  <2> HIDE DEF F
  <2> QED
    BY <1>2, <2>1
<1>5. ASSUME NEW n \in Nodes PROVE f[n] = G[<<n, f>>]
  <2> DEFINE h == Height[n] + 1
  <2>1. h \in Nat /\ Height[n] < h
    BY <1>h
  <2>2. ASSUME NEW m \in Nodes, Height[m] < Height[n] PROVE F[h][m] = f[m]
    <3>1. Height[m] + 1 \in Nat /\ Height[m] < Height[m] + 1 /\ Height[m] < h
      BY <1>h, <2>2
    <3>2. f[m] = F[Height[m] + 1][m]
      BY DEF f
    <3> HIDE DEF F, f, h
    <3> QED
      BY <1>3, <2>1, <3>1, <3>2
  <2>3. F[h] \in Fs /\ F[h][n] = G[<<n, F[h]>>]
    <3> HIDE DEF F, h
    <3> QED
      BY <1>2, <2>1
  <2>4. f[n] = F[h][n]
    OBVIOUS
  <2>5. G[<<n, F[h]>>] = G[<<n, f>>]
    <3> HIDE DEF F, f, h
    <3> QED
      BY <1>b, <1>4, <2>2, <2>3
  <2> QED
    BY <2>3, <2>4, <2>5
<1> QED
  BY <1>4, <1>5

-----------------------------------------------------------------------------
(* What the conditions say. *)

AnswerSet == {"yes", "no", "throws"}

\* What is said of all conditions at once.
Said(scope, lexicons) == CHOOSE f : f = [n \in Nodes |-> NodeSays(n, f, scope, lexicons)]

LEMMA EvaluateIsSaid ==
  ASSUME NEW node, NEW scope, NEW lexicons
  PROVE  EvaluateNode(node, scope, lexicons) = Said(scope, lexicons)[node]
  BY DEF EvaluateNode, Said

LEMMA ChildrenAreLower ==
  ASSUME NEW n \in Nodes, NEW i \in DOMAIN Children(n)
  PROVE  Children(n)[i] \in Nodes /\ Height[Children(n)[i]] < Height[n]
<1>1. Children(n) \in Seq(Nodes)
  BY NodesAssumption
<1>2. Children(n)[i] \in Nodes
  <2> HIDE DEF Children
  <2> QED
    BY <1>1
<1> QED
  BY <1>2, NodesAssumption

LEMMA DecidersAreIndices ==
  ASSUME NEW n \in Nodes, NEW D \in SUBSET DOMAIN Children(n), D # {}
  PROVE  Min(D) \in D /\ \A i \in D : Min(D) <= i
<1>1. Children(n) \in Seq(Nodes)
  BY NodesAssumption
<1>2. D \in SUBSET Nat
  <2>1. DOMAIN Children(n) = 1..Len(Children(n)) /\ Len(Children(n)) \in Nat
    BY <1>1
  <2> QED
    BY <2>1
<1>3. \E k \in D : \A j \in D : k <= j
  BY <1>2, LeastNumber
<1> QED
  BY <1>3 DEF Min

LEMMA NodeSaysAnswers ==
  ASSUME NEW n, NEW f, NEW scope, NEW lexicons
  PROVE  NodeSays(n, f, scope, lexicons) \in AnswerSet
  BY DEF NodeSays, AnswerSet

LEMMA NodeSaysIsLocal ==
  ASSUME NEW scope, NEW lexicons, NEW n \in Nodes, NEW f, NEW g,
         \A m \in Nodes : Height[m] < Height[n] => f[m] = g[m]
  PROVE  NodeSays(n, f, scope, lexicons) = NodeSays(n, g, scope, lexicons)
<1>1. \A i \in DOMAIN Children(n) : f[Children(n)[i]] = g[Children(n)[i]]
  BY ChildrenAreLower
<1> DEFINE deciding == IF Group(n) = "all" THEN "no" ELSE "yes"
           Df == {i \in DOMAIN Children(n) : f[Children(n)[i]] \in {deciding, "throws"}}
           Dg == {i \in DOMAIN Children(n) : g[Children(n)[i]] \in {deciding, "throws"}}
<1>2. Df = Dg
  BY <1>1
<1>3. Df # {} => f[Children(n)[Min(Df)]] = g[Children(n)[Min(Dg)]]
  <2> SUFFICES ASSUME Df # {} PROVE f[Children(n)[Min(Df)]] = g[Children(n)[Min(Dg)]]
    OBVIOUS
  <2>0. Df \in SUBSET DOMAIN Children(n)
    OBVIOUS
  <2>1. Min(Df) \in Df
    <3> HIDE DEF Df
    <3> QED
      BY <2>0, DecidersAreIndices
  <2>2. Min(Df) \in DOMAIN Children(n)
    BY <2>1
  <2> HIDE DEF Df, Dg
  <2> QED
    BY <1>1, <1>2, <2>2
<1> QED
  BY <1>2, <1>3 DEF NodeSays

LEMMA SaidOfNode ==
  ASSUME NEW scope, NEW lexicons, NEW n \in Nodes
  PROVE  /\ Said(scope, lexicons)[n] = NodeSays(n, Said(scope, lexicons), scope, lexicons)
         /\ Said(scope, lexicons)[n] \in AnswerSet
<1> DEFINE G == [p \in Nodes \X [Nodes -> AnswerSet] |-> NodeSays(p[1], p[2], scope, lexicons)]
<1>1. G \in [Nodes \X [Nodes -> AnswerSet] -> AnswerSet]
  BY NodeSaysAnswers
<1>2. \A m \in Nodes : \A f \in [Nodes -> AnswerSet] : G[<<m, f>>] = NodeSays(m, f, scope, lexicons)
  OBVIOUS
<1>3. \A m \in Nodes : \A f, g \in [Nodes -> AnswerSet] :
        (\A l \in Nodes : Height[l] < Height[m] => f[l] = g[l]) => G[<<m, f>>] = G[<<m, g>>]
  <2> HIDE DEF G
  <2> QED
    BY <1>2, NodeSaysIsLocal
<1>4. PICK f \in [Nodes -> AnswerSet] : \A m \in Nodes : f[m] = G[<<m, f>>]
  <2>1. "no" \in AnswerSet
    BY DEF AnswerSet
  <2>2. IsBody(G, AnswerSet)
    <3> HIDE DEF G
    <3> QED
      BY <1>1, <1>3 DEF IsBody
  <2> HIDE DEF G
  <2> QED
    BY <2>1, <2>2, Recursion
<1>5. f = [m \in Nodes |-> NodeSays(m, f, scope, lexicons)]
  <2> HIDE DEF G
  <2> QED
    BY <1>2, <1>4
<1>6. Said(scope, lexicons) = [m \in Nodes |-> NodeSays(m, Said(scope, lexicons), scope, lexicons)]
  BY <1>5 DEF Said
<1>7. Said(scope, lexicons)[n] = NodeSays(n, Said(scope, lexicons), scope, lexicons)
  BY <1>6, Zenon
<1> QED
  BY <1>7, NodeSaysAnswers

\* The conditions in a condition, and the other two definitions over Nodes.
LEMMA OfChildrenIsLocal ==
  ASSUME NEW n \in Nodes, NEW f, NEW g,
         \A m \in Nodes : Height[m] < Height[n] => f[m] = g[m]
  PROVE  OfChildren(n, f) = OfChildren(n, g)
<1>1. \A i \in DOMAIN Children(n) : f[Children(n)[i]] = g[Children(n)[i]]
  BY ChildrenAreLower
<1> QED
  BY <1>1 DEF OfChildren

LEMMA OfChildrenAreNodes ==
  ASSUME NEW n \in Nodes, NEW f \in [Nodes -> SUBSET Nodes]
  PROVE  OfChildren(n, f) \in SUBSET Nodes
<1>1. \A i \in DOMAIN Children(n) : f[Children(n)[i]] \in SUBSET Nodes
  BY ChildrenAreLower
<1> QED
  BY <1>1 DEF OfChildren

LEMMA ConditionsOfNode ==
  ASSUME NEW n \in Nodes
  PROVE  Conditions[n] = IF Group(n) = "condition" THEN {n} ELSE OfChildren(n, Conditions)
<1> DEFINE V == SUBSET Nodes
           B(m, f) == IF Group(m) = "condition" THEN {m} ELSE OfChildren(m, f)
           G == [p \in Nodes \X [Nodes -> V] |-> B(p[1], p[2])]
<1>1. G \in [Nodes \X [Nodes -> V] -> V]
  <2>1. \A m \in Nodes : \A f \in [Nodes -> V] : B(m, f) \in V
    BY OfChildrenAreNodes
  <2> HIDE DEF B, V
  <2> QED
    BY <2>1
<1>2. \A m \in Nodes : \A f \in [Nodes -> V] : G[<<m, f>>] = B(m, f)
  OBVIOUS
<1>3. \A m \in Nodes : \A f, g \in [Nodes -> V] :
        (\A l \in Nodes : Height[l] < Height[m] => f[l] = g[l]) => G[<<m, f>>] = G[<<m, g>>]
  <2>1. ASSUME NEW m \in Nodes, NEW f \in [Nodes -> V], NEW g \in [Nodes -> V],
               \A l \in Nodes : Height[l] < Height[m] => f[l] = g[l]
        PROVE  B(m, f) = B(m, g)
    BY <2>1, OfChildrenIsLocal
  <2> HIDE DEF G, B
  <2> QED
    BY <1>2, <2>1
<1>4. PICK f \in [Nodes -> V] : \A m \in Nodes : f[m] = G[<<m, f>>]
  <2>1. {} \in V
    OBVIOUS
  <2>2. IsBody(G, V)
    <3> HIDE DEF G, V
    <3> QED
      BY <1>1, <1>3 DEF IsBody
  <2> HIDE DEF G, V
  <2> QED
    BY <2>1, <2>2, Recursion
<1>5. f = [m \in Nodes |-> B(m, f)]
  <2> HIDE DEF G, B
  <2> QED
    BY <1>2, <1>4
<1>6. Conditions = [m \in Nodes |-> B(m, Conditions)]
  BY <1>5 DEF Conditions
<1> QED
  BY <1>6, Zenon

LEMMA NegatedOfNode ==
  ASSUME NEW n \in Nodes
  PROVE  Negated[n] = CASE Group(n) = "condition" -> {}
                        [] Group(n) = "none" -> Conditions[n]
                        [] OTHER -> OfChildren(n, Negated)
<1> DEFINE V == SUBSET UNION {Conditions[m] : m \in Nodes}
           B(m, f) == CASE Group(m) = "condition" -> {}
                        [] Group(m) = "none" -> Conditions[m]
                        [] OTHER -> OfChildren(m, f)
           G == [p \in Nodes \X [Nodes -> V] |-> B(p[1], p[2])]
<1>1. G \in [Nodes \X [Nodes -> V] -> V]
  <2>1. ASSUME NEW m \in Nodes, NEW f \in [Nodes -> V] PROVE OfChildren(m, f) \in V
    <3>1. \A i \in DOMAIN Children(m) : f[Children(m)[i]] \in V
      BY ChildrenAreLower
    <3> QED
      BY <3>1 DEF OfChildren
  <2>2. \A m \in Nodes : {} \in V /\ Conditions[m] \in V
    OBVIOUS
  <2>3. \A m \in Nodes : \A f \in [Nodes -> V] : B(m, f) \in V
    <3> HIDE DEF V
    <3> QED
      BY <2>1, <2>2
  <2> HIDE DEF B, V
  <2> QED
    BY <2>3
<1>2. \A m \in Nodes : \A f \in [Nodes -> V] : G[<<m, f>>] = B(m, f)
  <2> HIDE DEF B, V
  <2> QED
    OBVIOUS
<1>3. \A m \in Nodes : \A f, g \in [Nodes -> V] :
        (\A l \in Nodes : Height[l] < Height[m] => f[l] = g[l]) => G[<<m, f>>] = G[<<m, g>>]
  <2>1. ASSUME NEW m \in Nodes, NEW f \in [Nodes -> V], NEW g \in [Nodes -> V],
               \A l \in Nodes : Height[l] < Height[m] => f[l] = g[l]
        PROVE  B(m, f) = B(m, g)
    <3>1. OfChildren(m, f) = OfChildren(m, g)
      BY <2>1, OfChildrenIsLocal
    <3> QED
      BY <3>1
  <2> HIDE DEF G, B, V
  <2> QED
    BY <1>2, <2>1
<1>4. PICK f \in [Nodes -> V] : \A m \in Nodes : f[m] = G[<<m, f>>]
  <2>1. {} \in V
    OBVIOUS
  <2>2. IsBody(G, V)
    <3> HIDE DEF G, V
    <3> QED
      BY <1>1, <1>3 DEF IsBody
  <2> HIDE DEF G, V
  <2> QED
    BY <2>1, <2>2, Recursion
<1>5. f = [m \in Nodes |-> B(m, f)]
  <2> HIDE DEF G, B, V
  <2> QED
    BY <1>2, <1>4
<1>6. Negated = [m \in Nodes |-> B(m, Negated)]
  BY <1>5 DEF Negated
<1> QED
  BY <1>6, Zenon

LEMMA LoadsConditionOfNode ==
  ASSUME NEW n \in Nodes
  PROVE  LoadsCondition[n] =
           IF Group(n) = "condition"
           THEN n.op \in Operators /\ IsKnownField(n.field) /\ ValueFits(n)
           ELSE /\ Children(n) # <<>>
                /\ \A i \in DOMAIN Children(n) : LoadsCondition[Children(n)[i]]
<1> DEFINE Leaf(m) == m.op \in Operators /\ IsKnownField(m.field) /\ ValueFits(m)
           Inner(m, f) == /\ Children(m) # <<>>
                          /\ \A i \in DOMAIN Children(m) : f[Children(m)[i]]
           B(m, f) == IF Group(m) = "condition" THEN Leaf(m) ELSE Inner(m, f)
           G == [p \in Nodes \X [Nodes -> BOOLEAN] |-> B(p[1], p[2])]
<1>1. G \in [Nodes \X [Nodes -> BOOLEAN] -> BOOLEAN]
  <2>1. \A m \in Nodes : Leaf(m) \in BOOLEAN
    OBVIOUS
  <2>2. \A m \in Nodes : \A f \in [Nodes -> BOOLEAN] : Inner(m, f) \in BOOLEAN
    OBVIOUS
  <2>3. \A m \in Nodes : \A f \in [Nodes -> BOOLEAN] : B(m, f) \in BOOLEAN
    <3> HIDE DEF Leaf, Inner
    <3> QED
      BY <2>1, <2>2
  <2> HIDE DEF B
  <2> QED
    BY <2>3
<1>2. \A m \in Nodes : \A f \in [Nodes -> BOOLEAN] : G[<<m, f>>] = B(m, f)
  <2> HIDE DEF B
  <2> QED
    OBVIOUS
<1>3. \A m \in Nodes : \A f, g \in [Nodes -> BOOLEAN] :
        (\A l \in Nodes : Height[l] < Height[m] => f[l] = g[l]) => G[<<m, f>>] = G[<<m, g>>]
  <2>1. ASSUME NEW m \in Nodes, NEW f \in [Nodes -> BOOLEAN], NEW g \in [Nodes -> BOOLEAN],
               \A l \in Nodes : Height[l] < Height[m] => f[l] = g[l]
        PROVE  B(m, f) = B(m, g)
    <3>1. \A i \in DOMAIN Children(m) : f[Children(m)[i]] = g[Children(m)[i]]
      BY <2>1, ChildrenAreLower
    <3>2. Inner(m, f) = Inner(m, g)
      BY <3>1
    <3> HIDE DEF Leaf, Inner
    <3> QED
      BY <3>2
  <2> HIDE DEF G, B
  <2> QED
    BY <1>2, <2>1
<1>4. PICK f \in [Nodes -> BOOLEAN] : \A m \in Nodes : f[m] = G[<<m, f>>]
  <2> DEFINE V == BOOLEAN
  <2>1. PICK v \in V : TRUE
    OBVIOUS
  <2>2. IsBody(G, V)
    <3> HIDE DEF G
    <3> QED
      BY <1>1, <1>3 DEF IsBody
  <2>3. \E f \in [Nodes -> V] : \A m \in Nodes : f[m] = G[<<m, f>>]
    <3> HIDE DEF G, V
    <3> QED
      BY <2>1, <2>2, Recursion
  <2> HIDE DEF G
  <2> QED
    BY <2>3
<1>5. f = [m \in Nodes |-> B(m, f)]
  <2> HIDE DEF G, B
  <2> QED
    BY <1>2, <1>4
<1>6. LoadsCondition = [m \in Nodes |-> B(m, LoadsCondition)]
  BY <1>5 DEF LoadsCondition
<1> QED
  BY <1>6, Zenon

-----------------------------------------------------------------------------
(* A condition that loaded has an answer. *)

Lexicons(n, lexicons) ==
  \A c \in Conditions[n] : c.op = "matches_lexicon" => ResolveLexicon(c.value, lexicons) # {}

LEMMA ConditionsOfChild ==
  ASSUME NEW n \in Nodes, NEW i \in DOMAIN Children(n)
  PROVE  /\ Group(n) # "condition"
         /\ Conditions[Children(n)[i]] \subseteq Conditions[n]
<1>1. Group(n) # "condition"
  <2>1. Group(n) = "condition" => DOMAIN Children(n) = {}
    BY DEF Children
  <2> QED
    BY <2>1
<1>2. Conditions[n] = OfChildren(n, Conditions)
  BY <1>1, ConditionsOfNode
<1>3. Conditions[Children(n)[i]] \subseteq OfChildren(n, Conditions)
  BY DEF OfChildren
<1> QED
  BY <1>1, <1>2, <1>3

\* A group whose children are all answered is answered by them.
LEMMA SaidOfGroup ==
  ASSUME NEW scope, NEW lexicons, NEW n \in Nodes, Group(n) # "condition",
         \A i \in DOMAIN Children(n) : Said(scope, lexicons)[Children(n)[i]] \in {"yes", "no"}
  PROVE  /\ Group(n) = "all" =>
              Said(scope, lexicons)[n] =
                IF \E i \in DOMAIN Children(n) : Said(scope, lexicons)[Children(n)[i]] = "no"
                THEN "no" ELSE "yes"
         /\ Group(n) = "any" =>
              Said(scope, lexicons)[n] =
                IF \E i \in DOMAIN Children(n) : Said(scope, lexicons)[Children(n)[i]] = "yes"
                THEN "yes" ELSE "no"
         /\ Group(n) = "none" =>
              Said(scope, lexicons)[n] =
                IF \E i \in DOMAIN Children(n) : Said(scope, lexicons)[Children(n)[i]] = "yes"
                THEN "no" ELSE "yes"
<1> DEFINE s == Said(scope, lexicons)
           deciding == IF Group(n) = "all" THEN "no" ELSE "yes"
           D == {i \in DOMAIN Children(n) : s[Children(n)[i]] \in {deciding, "throws"}}
<1>1. s[n] = NodeSays(n, s, scope, lexicons)
  BY SaidOfNode
<1>2. D = {i \in DOMAIN Children(n) : s[Children(n)[i]] = deciding}
  OBVIOUS
<1>3. D # {} => s[Children(n)[Min(D)]] # "throws"
  <2> SUFFICES ASSUME D # {} PROVE s[Children(n)[Min(D)]] # "throws"
    OBVIOUS
  <2>0. D \in SUBSET DOMAIN Children(n)
    OBVIOUS
  <2>1. Min(D) \in D
    <3> HIDE DEF D
    <3> QED
      BY <2>0, DecidersAreIndices
  <2> QED
    BY <2>1
<1>4. s[n] = IF D = {} THEN IF Group(n) = "any" THEN "no" ELSE "yes"
             ELSE IF Group(n) = "any" THEN "yes" ELSE "no"
  BY <1>1, <1>3 DEF NodeSays
<1> QED
  BY <1>2, <1>4

LEMMA LoadedNeverThrows ==
  ASSUME NEW scope, NEW lexicons, NEW n \in Nodes, LoadsCondition[n], Lexicons(n, lexicons)
  PROVE  Said(scope, lexicons)[n] \in {"yes", "no"}
<1> DEFINE s == Said(scope, lexicons)
           Loaded(m) == LoadsCondition[m] /\ Lexicons(m, lexicons)
           P == {m \in Nodes : Loaded(m) => s[m] \in {"yes", "no"}}
<1>1. ASSUME NEW m \in Nodes, \A l \in Nodes : Height[l] < Height[m] => l \in P, Loaded(m)
      PROVE  s[m] \in {"yes", "no"}
  <2>1. CASE Group(m) = "condition"
    <3>1. m.op \in Operators /\ ValueFits(m)
      BY <1>1, <2>1, LoadsConditionOfNode
    <3>2. m.op = "matches_lexicon" => ResolveLexicon(m.value, lexicons) # {}
      BY <1>1, <2>1, ConditionsOfNode DEF Lexicons
    <3>3. ~OperatorThrows(m, lexicons)
      BY <3>1, <3>2 DEF OperatorThrows, ValueFits, Operators
    <3>4. s[m] = NodeSays(m, s, scope, lexicons)
      BY SaidOfNode
    <3> QED
      BY <2>1, <3>3, <3>4 DEF NodeSays
  <2>2. CASE Group(m) # "condition"
    <3>1. ASSUME NEW i \in DOMAIN Children(m) PROVE s[Children(m)[i]] \in {"yes", "no"}
      <4>1. LoadsCondition[Children(m)[i]]
        BY <1>1, <2>2, LoadsConditionOfNode
      <4>2. Lexicons(Children(m)[i], lexicons)
        BY <1>1, ConditionsOfChild DEF Lexicons
      <4> QED
        BY <1>1, <4>1, <4>2, ChildrenAreLower
    <3>2. Group(m) \in {"all", "any", "none"}
      BY <2>2 DEF Group
    <3> QED
      BY <2>2, <3>1, <3>2, SaidOfGroup
  <2> QED
    BY <2>1, <2>2
<1>2. \A m \in Nodes : m \in P
  <2>1. \A m \in Nodes : (\A l \in Nodes : Height[l] < Height[m] => l \in P) => m \in P
    BY <1>1
  <2> HIDE DEF P
  <2> QED
    BY <2>1, ByHeight
<1> QED
  BY <1>2

-----------------------------------------------------------------------------
(* The loop of the engine. *)

\* The ruleset is what a draft says that loads, and the engine is somewhere in
\* its documents.
EngineTypeOK ==
  /\ \E draft \in Drafts : ruleSet \in LoadRuleSet(draft)
  /\ documents \in Seq(Invoices)
  /\ place \in [document : 1..(Len(documents) + 1), rule : 1..(Len(ruleSet.rules) + 1),
                entry : Nat \ {0}]
  /\ counts \in [RuleIds -> Nat]
  /\ errors \subseteq 1..(place.document - 1)
  /\ \A h \in hits : h.document \in 1..(place.document - 1) /\ h.rule \in RuleIds

\* The entries of a document that a rule matches, and those of them that the
\* engine has come to before the entry E of the rule R.
Matching(d) == {q \in RuleIds \X (1..MaxEntries(d)) : Matches(d, q[1], q[2])}

Judged(d, R, E) == {q \in Matching(d) : q[1] < R \/ (q[1] = R /\ q[2] < E)}

FindingsOn(d, Q) == UNION {FindingsOf(d, q[1], q[2], Run(d, q[1], q[2])) : q \in Q}

\* What the document has produced so far is what its matching entries produce,
\* none of which threw.
Producing ==
  \A d \in {place.document} \cap DOMAIN documents, R \in {place.rule}, E \in {place.entry} :
    /\ produced = FindingsOn(d, Judged(d, R, E))
    /\ \A q \in Judged(d, R, E) : ~Run(d, q[1], q[2]).threw

\* The report so far, document by document.
Reported ==
  \A d \in 1..(place.document - 1) :
    /\ d \in errors <=> \E q \in Matching(d) : Run(d, q[1], q[2]).threw
    /\ {h \in hits : h.document = d} =
         IF d \in errors THEN {} ELSE FindingsOn(d, Matching(d))

Counted ==
  \A r \in RuleIds : counts[r] = Cardinality({h.document : h \in {g \in hits : g.rule = r}})

EngineInv == EngineTypeOK /\ Producing /\ Reported /\ Counted

\* The rules are those of a draft, each of which loaded.
LEMMA RulesOfDraft ==
  ASSUME NEW draft \in Drafts, ruleSet \in LoadRuleSet(draft)
  PROVE  /\ ruleSet.rules = [i \in DOMAIN draft.rules |-> LoadRule(draft.rules[i])]
         /\ ruleSet.lexicons = draft.lexicons
         /\ \A i \in DOMAIN draft.rules : LoadsRule(draft.rules[i], draft.lexicons)
         /\ DOMAIN draft.rules = 1..Len(ruleSet.rules)
         /\ Len(ruleSet.rules) \in Nat
<1>1. /\ ruleSet = [lexicons |-> draft.lexicons,
                    rules |-> [i \in DOMAIN draft.rules |-> LoadRule(draft.rules[i])]]
      /\ \A i \in DOMAIN draft.rules : LoadsRule(draft.rules[i], draft.lexicons)
  <2>1. LoadRuleSet(draft) # {}
    OBVIOUS
  <2> QED
    BY <2>1 DEF LoadRuleSet
<1>2. draft.rules \in Seq(Range(draft.rules))
  BY DraftsAssumption
<1>3. Len(draft.rules) \in Nat /\ DOMAIN draft.rules = 1..Len(draft.rules)
  BY <1>2
<1>4. /\ ruleSet.rules = [i \in DOMAIN draft.rules |-> LoadRule(draft.rules[i])]
      /\ ruleSet.lexicons = draft.lexicons
  BY <1>1
<1>5. DOMAIN ruleSet.rules = 1..Len(draft.rules)
  BY <1>3, <1>4
<1>6. Len(ruleSet.rules) = Len(draft.rules)
  BY <1>3, <1>4, <1>5
<1> QED
  BY <1>1, <1>3, <1>4, <1>6

LEMMA LoadedRule ==
  ASSUME EngineTypeOK, NEW r \in RuleIds
  PROVE  /\ ruleSet.rules[r].when \in Nodes
         /\ LoadsCondition[ruleSet.rules[r].when]
         /\ Lexicons(ruleSet.rules[r].when, ruleSet.lexicons)
         /\ IsOptionalDay(ruleSet.rules[r].from) /\ IsOptionalDay(ruleSet.rules[r].to)
<1>1. PICK draft \in Drafts : ruleSet \in LoadRuleSet(draft)
  BY DEF EngineTypeOK
<1>2. /\ ruleSet.rules = [i \in DOMAIN draft.rules |-> LoadRule(draft.rules[i])]
      /\ ruleSet.lexicons = draft.lexicons
      /\ \A i \in DOMAIN draft.rules : LoadsRule(draft.rules[i], draft.lexicons)
      /\ DOMAIN draft.rules = 1..Len(ruleSet.rules)
  BY <1>1, RulesOfDraft
<1>3. r \in DOMAIN draft.rules
  BY <1>2 DEF RuleIds
<1> DEFINE raw == draft.rules[r]
<1>4. raw \in Range(draft.rules)
  BY <1>3 DEF Range
<1>5. /\ {"scope", "from", "to", "when"} \subseteq DOMAIN raw
      /\ raw.when \in Nodes /\ IsOptionalDay(raw.from) /\ IsOptionalDay(raw.to)
  <2> HIDE DEF raw
  <2> QED
    BY <1>4, DraftsAssumption
<1>6. ruleSet.rules[r] = LoadRule(raw)
  BY <1>2, <1>3
<1>7. LoadRule(raw).when = raw.when /\ LoadRule(raw).from = raw.from /\ LoadRule(raw).to = raw.to
  <2> HIDE DEF raw
  <2> QED
    BY <1>5 DEF LoadRule
<1>8. LoadsRule(raw, ruleSet.lexicons)
  BY <1>2, <1>3
<1>9. LoadsCondition[raw.when] /\ Lexicons(raw.when, ruleSet.lexicons)
  <2> HIDE DEF raw
  <2> QED
    BY <1>8 DEF LoadsRule, LoadsAlone, Lexicons
<1> HIDE DEF raw
<1> QED
  BY <1>5, <1>6, <1>7, <1>9

\* A rule that is replaced gives way to exactly one version.
LEMMA OneVersionAtATime == EngineTypeOK => ExactlyOneVersion
<1> SUFFICES ASSUME EngineTypeOK, NEW r \in RuleIds, NEW s \in RuleIds,
                    Replaces(ruleSet.rules[s], ruleSet.rules[r]),
                    NEW d \in DOMAIN documents, documents[d].issued # {}
             PROVE  RuleApplies(ruleSet.rules[r], documents[d])
                      # RuleApplies(ruleSet.rules[s], documents[d])
  BY DEF ExactlyOneVersion
<1> DEFINE old == ruleSet.rules[r]
           new == ruleSet.rules[s]
           invoice == documents[d]
<1>1. documents[d] \in Invoices
  BY DEF EngineTypeOK
<1>2. PICK on \in Int : invoice.issued = {on}
  <2>1. IsOptionalDay(invoice.issued)
    BY <1>1, InvoicesAssumption
  <2> HIDE DEF invoice
  <2>2. invoice.issued # {}
    BY DEF invoice
  <2> QED
    BY <2>1, <2>2 DEF IsOptionalDay
<1>3. /\ old.to # {} /\ old.to = new.from /\ old.from = {} /\ new.to = {}
      /\ old.scope = "both" /\ new.scope = "both"
  BY DEF Replaces
<1>4. PICK day \in Int : old.to = {day}
  <2>1. IsOptionalDay(old.to)
    BY LoadedRule
  <2> HIDE DEF old
  <2> QED
    BY <1>3, <2>1 DEF IsOptionalDay
<1> HIDE DEF old, new, invoice
<1>5. RuleApplies(old, invoice) <=> on < day
  BY <1>2, <1>3, <1>4 DEF RuleApplies
<1>6. RuleApplies(new, invoice) <=> day <= on
  BY <1>2, <1>3, <1>4 DEF RuleApplies
<1>7. RuleApplies(old, invoice) \in BOOLEAN /\ RuleApplies(new, invoice) \in BOOLEAN
  BY DEF RuleApplies
<1>8. on < day <=> ~(day <= on)
  OBVIOUS
<1>9. RuleApplies(old, invoice) # RuleApplies(new, invoice)
  BY <1>5, <1>6, <1>7, <1>8
<1> QED
  BY <1>9 DEF old, new, invoice

LEMMA AnswerIsGiven ==
  ASSUME EngineTypeOK, HasRule
  PROVE  /\ place.rule \in RuleIds
         /\ place.document \in DOMAIN documents
         /\ Answer \in {"yes", "no"}
<1>1. place.rule \in RuleIds /\ place.document \in DOMAIN documents
  <2>1. Len(documents) \in Nat /\ DOMAIN documents = 1..Len(documents)
        /\ place.document \in 1..(Len(documents) + 1) /\ place.rule \in 1..(Len(ruleSet.rules) + 1)
    BY DEF EngineTypeOK
  <2>2. place.document <= Len(documents) /\ place.rule <= Len(ruleSet.rules)
    BY DEF HasRule, Running
  <2>3. place.document \in Nat /\ place.rule \in 1..Len(ruleSet.rules)
    BY <2>1, <2>2
  <2> QED
    BY <2>1, <2>2, <2>3 DEF RuleIds
<1>2. Rule.when \in Nodes /\ LoadsCondition[Rule.when] /\ Lexicons(Rule.when, ruleSet.lexicons)
  BY <1>1, LoadedRule DEF Rule
<1> QED
  BY <1>1, <1>2, LoadedNeverThrows, EvaluateIsSaid DEF Answer

LEMMA EntriesFit ==
  ASSUME EngineTypeOK, NEW d \in DOMAIN documents, NEW rule
  PROVE  /\ Entries(rule, documents[d]) \in Nat
         /\ MaxEntries(d) \in Nat
         /\ Entries(rule, documents[d]) <= MaxEntries(d)
<1>1. documents[d] \in Invoices
  BY DEF EngineTypeOK
<1>2. Len(documents[d].line) \in Nat /\ Len(documents[d].tax) \in Nat
  BY <1>1, InvoicesAssumption
<1> DEFINE lines == Len(documents[d].line)
           taxes == Len(documents[d].tax)
           entries == Entries(rule, documents[d])
<1>3. entries \in {lines, taxes, 1}
  BY DEF Entries
<1>4. MaxEntries(d) = lines + taxes + 1
  BY DEF MaxEntries
<1> HIDE DEF lines, taxes, entries
<1>5. entries \in Nat /\ MaxEntries(d) \in Nat /\ entries <= MaxEntries(d)
  <2>1. lines \in Nat /\ taxes \in Nat
    BY <1>2 DEF lines, taxes
  <2> QED
    BY <1>3, <1>4, <2>1
<1> QED
  BY <1>5 DEF entries

\* Where the engine stands, as numbers.
LEMMA Standing ==
  ASSUME EngineTypeOK
  PROVE  /\ Len(documents) \in Nat /\ DOMAIN documents = 1..Len(documents)
         /\ Len(ruleSet.rules) \in Nat
         /\ place.document \in Nat \ {0} /\ place.document <= Len(documents) + 1
         /\ place.rule \in Nat \ {0} /\ place.rule <= Len(ruleSet.rules) + 1
         /\ place.entry \in Nat \ {0}
         /\ place = [document |-> place.document, rule |-> place.rule, entry |-> place.entry]
<1>1. Len(documents) \in Nat /\ DOMAIN documents = 1..Len(documents)
  BY DEF EngineTypeOK
<1>2. Len(ruleSet.rules) \in Nat
  BY RulesOfDraft DEF EngineTypeOK
<1>3. place \in [document : 1..(Len(documents) + 1), rule : 1..(Len(ruleSet.rules) + 1),
                 entry : Nat \ {0}]
  BY DEF EngineTypeOK
<1> QED
  BY <1>1, <1>2, <1>3

LEMMA FirstEntry ==
  ASSUME EngineTypeOK, NEW d
  PROVE  Judged(d, 1, 1) = {}
<1> SUFFICES ASSUME NEW q \in Judged(d, 1, 1) PROVE FALSE
  OBVIOUS
<1>1. q \in RuleIds \X (1..MaxEntries(d)) /\ (q[1] < 1 \/ (q[1] = 1 /\ q[2] < 1))
  BY DEF Judged, Matching
<1>2. Len(ruleSet.rules) \in Nat
  BY Standing
<1>3. q[1] \in 1..Len(ruleSet.rules) /\ q[2] \in 1..MaxEntries(d)
  BY <1>1 DEF RuleIds
<1>4. q[1] \in Int /\ 1 <= q[1] /\ q[2] \in Int /\ 1 <= q[2]
  BY <1>3
<1> QED
  BY <1>1, <1>4

LEMMA LastEntry ==
  ASSUME EngineTypeOK, NEW d, NEW R \in Nat, NEW E, R > Len(ruleSet.rules)
  PROVE  Judged(d, R, E) = Matching(d)
<1>1. Len(ruleSet.rules) \in Nat
  BY Standing
<1>2. ASSUME NEW q \in Matching(d) PROVE q[1] < R
  <2>1. q[1] \in 1..Len(ruleSet.rules)
    BY <1>2 DEF Matching, RuleIds
  <2> QED
    BY <1>1, <2>1
<1> QED
  BY <1>2 DEF Judged

\* The entry itself, if the rule matches it.
IfMatching(d, R, E) == {q \in Matching(d) : q = <<R, E>>}

\* What comes next in the order of the loop.
LEMMA NextEntry ==
  ASSUME EngineTypeOK, NEW d, NEW R \in Nat, NEW E \in Nat
  PROVE  Judged(d, R, E + 1) = Judged(d, R, E) \cup IfMatching(d, R, E)
<1>1. ASSUME NEW q \in Matching(d)
      PROVE  (q[1] < R \/ (q[1] = R /\ q[2] < E + 1))
               <=> ((q[1] < R \/ (q[1] = R /\ q[2] < E)) \/ q = <<R, E>>)
  <2>1. q[2] \in 1..MaxEntries(d) /\ q = <<q[1], q[2]>>
    BY <1>1 DEF Matching
  <2>2. q[2] \in Int
    BY <2>1
  <2>3. q[2] < E + 1 <=> q[2] < E \/ q[2] = E
    BY <2>2
  <2>4. q = <<R, E>> <=> q[1] = R /\ q[2] = E
    BY <2>1
  <2> QED
    BY <2>3, <2>4
<1> QED
  BY <1>1 DEF Judged, IfMatching

LEMMA NextRuleEntry ==
  ASSUME EngineTypeOK, NEW d, NEW R \in Nat, NEW E \in Nat,
         \A q \in Matching(d) : q[1] = R => q[2] < E
  PROVE  Judged(d, R + 1, 1) = Judged(d, R, E)
<1>1. Len(ruleSet.rules) \in Nat
  BY Standing
<1>2. ASSUME NEW q \in Matching(d)
      PROVE  (q[1] < R + 1 \/ (q[1] = R + 1 /\ q[2] < 1))
               <=> (q[1] < R \/ (q[1] = R /\ q[2] < E))
  <2>1. q[1] \in 1..Len(ruleSet.rules) /\ q[2] \in 1..MaxEntries(d)
    BY <1>2 DEF Matching, RuleIds
  <2>2. q[1] \in Int /\ q[2] \in Int /\ 1 <= q[2]
    BY <2>1
  <2>3. q[1] < R + 1 <=> q[1] < R \/ q[1] = R
    BY <2>2
  <2>4. ~(q[2] < 1)
    BY <2>2
  <2> QED
    BY <1>2, <2>3, <2>4
<1> QED
  BY <1>2 DEF Judged

\* The entry at hand, if it matches, is one of those of its document.
LEMMA EntryAtHand ==
  ASSUME EngineTypeOK, HasEntry
  PROVE  /\ <<place.rule, place.entry>> \in RuleIds \X (1..MaxEntries(place.document))
         /\ Matches(place.document, place.rule, place.entry) <=> Answer = "yes"
<1>1. /\ HasRule /\ RuleApplies(Rule, Invoice) /\ place.entry <= Entries(Rule, Invoice)
  BY DEF HasEntry
<1>2. place.rule \in RuleIds /\ place.document \in DOMAIN documents
  BY <1>1, AnswerIsGiven
<1>3. place.entry \in 1..MaxEntries(place.document)
  <2>1. /\ Entries(Rule, documents[place.document]) \in Nat
        /\ MaxEntries(place.document) \in Nat
        /\ Entries(Rule, documents[place.document]) <= MaxEntries(place.document)
    BY <1>2, EntriesFit
  <2>2. place.entry \in Nat \ {0}
    BY Standing
  <2>3. place.entry <= Entries(Rule, documents[place.document])
    BY <1>1 DEF Invoice
  <2> QED
    BY <2>1, <2>2, <2>3
<1>4. Matches(place.document, place.rule, place.entry) <=> Answer = "yes"
  BY <1>1 DEF Matches, Answer, Rule, Invoice, CurrentScope
<1> QED
  BY <1>2, <1>3, <1>4

\* What the ruleset says of a document does not change while it is asked.
LEMMA SameRules ==
  ASSUME UNCHANGED <<ruleSet, documents>>, NEW d, NEW r, NEW i
  PROVE  /\ RuleIds' = RuleIds
         /\ MaxEntries(d)' = MaxEntries(d)
         /\ Matches(d, r, i)' = Matches(d, r, i)
         /\ Run(d, r, i)' = Run(d, r, i)
  BY DEF RuleIds, MaxEntries, Matches, Run

LEMMA SameMatching ==
  ASSUME UNCHANGED <<ruleSet, documents>>, NEW d
  PROVE  /\ Matching(d)' = Matching(d)
         /\ \A R, E : Judged(d, R, E)' = Judged(d, R, E)
         /\ \A Q : FindingsOn(d, Q)' = FindingsOn(d, Q)
<1>1. Matching(d)' = Matching(d)
  <2>1. RuleIds' = RuleIds /\ MaxEntries(d)' = MaxEntries(d)
    BY SameRules
  <2>2. \A q : Matches(d, q[1], q[2])' = Matches(d, q[1], q[2])
    BY SameRules
  <2> QED
    BY <2>1, <2>2 DEF Matching
<1>2. \A R, E : Judged(d, R, E)' = Judged(d, R, E)
  BY <1>1 DEF Judged
<1>3. \A Q : FindingsOn(d, Q)' = FindingsOn(d, Q)
  <2>1. \A q : Run(d, q[1], q[2])' = Run(d, q[1], q[2])
    BY SameRules
  <2> QED
    BY <2>1 DEF FindingsOn
<1> QED
  BY <1>1, <1>2, <1>3

\* A step inside a document that moves the loop on without losing an entry.
LEMMA WithinDocument ==
  ASSUME EngineInv, HasRule, NEW R \in 1..(Len(ruleSet.rules) + 1), NEW E \in Nat \ {0},
         NEW new \in SUBSET Matching(place.document),
         UNCHANGED <<ruleSet, documents, hits, counts, errors>>,
         place' = [place EXCEPT !.rule = R, !.entry = E],
         Judged(place.document, R, E) = Judged(place.document, place.rule, place.entry) \cup new,
         \A q \in new : ~Run(place.document, q[1], q[2]).threw,
         produced' = produced \cup FindingsOn(place.document, new)
  PROVE  EngineInv'
<1>1. EngineTypeOK /\ Producing /\ Reported /\ Counted
  BY DEF EngineInv
<1>2. place.document \in DOMAIN documents
  BY <1>1, AnswerIsGiven
<1>3. place' = [document |-> place.document, rule |-> R, entry |-> E]
  <2>1. place \in [document : 1..(Len(documents) + 1), rule : 1..(Len(ruleSet.rules) + 1),
                   entry : Nat \ {0}]
    BY <1>1 DEF EngineTypeOK
  <2> QED
    BY <2>1
<1>4. place'.document = place.document /\ place'.rule = R /\ place'.entry = E
  BY <1>3
<1>5. RuleIds' = RuleIds
  BY SameRules
<1>6. EngineTypeOK'
  <2>1. place' \in [document : 1..(Len(documents) + 1), rule : 1..(Len(ruleSet.rules) + 1),
                    entry : Nat \ {0}]
    <3>1. place.document \in 1..(Len(documents) + 1)
      BY <1>1 DEF EngineTypeOK
    <3> QED
      BY <1>3, <3>1
  <2> QED
    BY <1>1, <1>4, <1>5, <2>1 DEF EngineTypeOK
<1>7. Producing'
  <2> DEFINE d == place.document
  <2>1. PICK D : D = place.document
    OBVIOUS
  <2>2. produced = FindingsOn(D, Judged(D, place.rule, place.entry))
        /\ \A q \in Judged(D, place.rule, place.entry) : ~Run(D, q[1], q[2]).threw
    BY <1>1, <1>2, <2>1 DEF Producing
  <2>3. produced' = FindingsOn(D, Judged(D, R, E))
    <3>1. produced' = FindingsOn(D, Judged(D, place.rule, place.entry)) \cup FindingsOn(D, new)
      BY <2>1, <2>2
    <3>2. Judged(D, R, E) = Judged(D, place.rule, place.entry) \cup new
      BY <2>1
    <3>3. \A A, B : FindingsOn(D, A \cup B) = FindingsOn(D, A) \cup FindingsOn(D, B)
      BY DEF FindingsOn
    <3> QED
      BY <3>1, <3>2, <3>3
  <2>4. \A q \in Judged(D, R, E) : ~Run(D, q[1], q[2]).threw
    BY <2>1, <2>2
  <2>5. /\ Judged(D, R, E)' = Judged(D, R, E)
        /\ \A Q : FindingsOn(D, Q)' = FindingsOn(D, Q)
        /\ \A r, i : Run(D, r, i)' = Run(D, r, i)
    BY SameMatching, SameRules
  <2>6. produced' = FindingsOn(D, Judged(D, R, E))'
        /\ \A q \in Judged(D, R, E)' : ~(Run(D, q[1], q[2])').threw
    <3>1. FindingsOn(D, Judged(D, R, E))' = FindingsOn(D, Judged(D, R, E))
      <4>1. \A q : Run(D, q[1], q[2])' = Run(D, q[1], q[2])
        BY SameRules
      <4> QED
        BY <2>5, <4>1 DEF FindingsOn
    <3> QED
      BY <2>3, <2>4, <2>5, <3>1
  <2> QED
    BY <1>4, <2>1, <2>6 DEF Producing
<1>8. Reported'
  <2>1. ASSUME NEW D \in 1..(place.document - 1)
        PROVE  /\ D \in errors' <=> \E q \in Matching(D)' : (Run(D, q[1], q[2])').threw
               /\ {h \in hits' : h.document = D} =
                    IF D \in errors' THEN {} ELSE FindingsOn(D, Matching(D))'
    <3>1. Matching(D)' = Matching(D) /\ \A q : Run(D, q[1], q[2])' = Run(D, q[1], q[2])
      BY SameMatching, SameRules
    <3>2. FindingsOn(D, Matching(D))' = FindingsOn(D, Matching(D))
      BY <3>1 DEF FindingsOn
    <3>3. /\ D \in errors <=> \E q \in Matching(D) : Run(D, q[1], q[2]).threw
          /\ {h \in hits : h.document = D} =
               IF D \in errors THEN {} ELSE FindingsOn(D, Matching(D))
      BY <1>1, <2>1 DEF Reported
    <3> QED
      BY <3>1, <3>2, <3>3
  <2> QED
    BY <1>4, <2>1 DEF Reported
<1>9. Counted'
  BY <1>1, <1>5 DEF Counted
<1> QED
  BY <1>6, <1>7, <1>8, <1>9 DEF EngineInv

LEMMA NextRuleKeeps ==
  ASSUME EngineInv, NextRule
  PROVE  EngineInv'
<1>1. EngineTypeOK
  BY DEF EngineInv
<1>2. HasRule /\ ~HasEntry
  BY DEF NextRule
<1> DEFINE d == place.document
           R == place.rule
           E == place.entry
           new == {}
<1>3. R \in Nat /\ E \in Nat /\ R <= Len(ruleSet.rules) /\ Len(ruleSet.rules) \in Nat /\ R >= 1
  BY <1>1, <1>2, Standing DEF HasRule
<1>4. ASSUME NEW q \in Matching(d), q[1] = R PROVE q[2] < E
  <2>1. Matches(d, R, q[2]) /\ q[2] \in 1..MaxEntries(d)
    BY <1>4 DEF Matching
  <2>2. RuleApplies(Rule, Invoice) /\ q[2] <= Entries(Rule, Invoice)
    BY <2>1 DEF Matches, Rule, Invoice
  <2>3. ~(E <= Entries(Rule, Invoice))
    BY <1>2, <2>2 DEF HasEntry
  <2>4. Entries(Rule, Invoice) \in Nat
    BY <1>1, <1>2, AnswerIsGiven, EntriesFit DEF Invoice
  <2> QED
    BY <1>3, <2>1, <2>2, <2>3, <2>4
<1>5. Judged(d, R + 1, 1) = Judged(d, R, E)
  <2> HIDE DEF d, R, E
  <2> QED
    BY <1>1, <1>3, <1>4, NextRuleEntry
<1>6. FindingsOn(d, new) = {}
  BY DEF FindingsOn
<1>7. place' = [place EXCEPT !.rule = R + 1, !.entry = 1]
  BY DEF NextRule
<1>8. R + 1 \in 1..(Len(ruleSet.rules) + 1) /\ 1 \in Nat \ {0}
  BY <1>3
<1>9. UNCHANGED <<ruleSet, documents, hits, counts, errors>>
      /\ produced' = produced \cup FindingsOn(d, new)
  BY <1>6 DEF NextRule
<1>10. Judged(d, R + 1, 1) = Judged(d, R, E) \cup new
  BY <1>5
<1>11. new \in SUBSET Matching(d) /\ \A q \in new : ~Run(d, q[1], q[2]).threw
  OBVIOUS
<1> HIDE DEF new
<1> QED
  BY <1>2, <1>7, <1>8, <1>9, <1>10, <1>11, WithinDocument

LEMMA NoMatchKeeps ==
  ASSUME EngineInv, NoMatch
  PROVE  EngineInv'
<1>1. EngineTypeOK
  BY DEF EngineInv
<1>2. HasEntry /\ HasRule /\ Answer = "no"
  BY DEF NoMatch, HasEntry
<1> DEFINE d == place.document
           R == place.rule
           E == place.entry
           new == {}
<1>3. R \in Nat /\ E \in Nat /\ R <= Len(ruleSet.rules) /\ Len(ruleSet.rules) \in Nat /\ R >= 1
  BY <1>1, <1>2, Standing DEF HasRule
<1>4. IfMatching(d, R, E) = {}
  <2>1. ~Matches(d, R, E)
    BY <1>1, <1>2, EntryAtHand
  <2> QED
    BY <2>1 DEF Matching, IfMatching
<1>5. Judged(d, R, E + 1) = Judged(d, R, E) \cup new
  <2>1. Judged(d, R, E + 1) = Judged(d, R, E) \cup IfMatching(d, R, E)
    <3> HIDE DEF d, R, E
    <3> QED
      BY <1>1, <1>3, NextEntry
  <2> QED
    BY <1>4, <2>1
<1>6. FindingsOn(d, new) = {}
  BY DEF FindingsOn
<1>7. place' = [place EXCEPT !.rule = R, !.entry = E + 1]
  <2>1. place' = [place EXCEPT !.entry = E + 1]
    BY DEF NoMatch
  <2>2. place = [document |-> place.document, rule |-> place.rule, entry |-> place.entry]
    BY <1>1, Standing
  <2> QED
    BY <2>1, <2>2
<1>8. R \in 1..(Len(ruleSet.rules) + 1) /\ E + 1 \in Nat \ {0}
  BY <1>3
<1>9. UNCHANGED <<ruleSet, documents, hits, counts, errors>>
      /\ produced' = produced \cup FindingsOn(d, new)
  BY <1>6 DEF NoMatch
<1>11. new \in SUBSET Matching(d) /\ \A q \in new : ~Run(d, q[1], q[2]).threw
  OBVIOUS
<1> HIDE DEF new
<1> QED
  BY <1>2, <1>5, <1>7, <1>8, <1>9, <1>11, WithinDocument

LEMMA MatchKeeps ==
  ASSUME EngineInv, Match
  PROVE  EngineInv'
<1>1. EngineTypeOK
  BY DEF EngineInv
<1>2. HasEntry /\ HasRule /\ Answer = "yes"
  BY DEF Match, HasEntry
<1> DEFINE d == place.document
           R == place.rule
           E == place.entry
           new == {<<R, E>>}
<1>3. R \in Nat /\ E \in Nat /\ R <= Len(ruleSet.rules) /\ Len(ruleSet.rules) \in Nat /\ R >= 1
  BY <1>1, <1>2, Standing DEF HasRule
<1>4. <<R, E>> \in Matching(d)
  BY <1>1, <1>2, EntryAtHand DEF Matching
<1>5. Judged(d, R, E + 1) = Judged(d, R, E) \cup new
  <2>1. Judged(d, R, E + 1) = Judged(d, R, E) \cup IfMatching(d, R, E)
    <3> HIDE DEF d, R, E
    <3> QED
      BY <1>1, <1>3, NextEntry
  <2> QED
    BY <1>4, <2>1 DEF IfMatching
<1>6. Run(d, R, E) = RunActions(Rule, CurrentScope)
  BY DEF Run, Rule, CurrentScope, Invoice
<1>7. /\ ~Run(d, R, E).threw
      /\ produced' = produced \cup FindingsOf(d, R, E, Run(d, R, E))
  BY <1>6 DEF Match
<1>8. FindingsOn(d, new) = FindingsOf(d, R, E, Run(d, R, E))
  <2>1. <<R, E>>[1] = R /\ <<R, E>>[2] = E
    OBVIOUS
  <2> HIDE DEF d, R, E
  <2> QED
    BY <2>1 DEF FindingsOn
<1>9. place' = [place EXCEPT !.rule = R, !.entry = E + 1]
  <2>1. place' = [place EXCEPT !.entry = E + 1]
    BY DEF Match
  <2>2. place = [document |-> place.document, rule |-> place.rule, entry |-> place.entry]
    BY <1>1, Standing
  <2> QED
    BY <2>1, <2>2
<1>10. R \in 1..(Len(ruleSet.rules) + 1) /\ E + 1 \in Nat \ {0}
  BY <1>3
<1>11. UNCHANGED <<ruleSet, documents, hits, counts, errors>>
  BY DEF Match
<1>12. new \in SUBSET Matching(d) /\ \A q \in new : ~Run(d, q[1], q[2]).threw
  BY <1>4, <1>7
<1>13. produced' = produced \cup FindingsOn(d, new)
  BY <1>7, <1>8
<1> HIDE DEF new
<1> QED
  BY <1>2, <1>5, <1>9, <1>10, <1>11, <1>12, <1>13, WithinDocument

\* A step that ends a document, with what it adds to the report.
LEMMA DocumentEnds ==
  ASSUME EngineInv, Running, NextDocument,
         UNCHANGED <<ruleSet, documents>>, produced' = {},
         NEW new, hits' = hits \cup new,
         \A h \in new : h.document = place.document /\ h.rule \in RuleIds,
         NEW bad \in SUBSET {place.document}, errors' = errors \cup bad,
         bad # {} <=> \E q \in Matching(place.document) : Run(place.document, q[1], q[2]).threw,
         new = IF bad # {} THEN {} ELSE FindingsOn(place.document, Matching(place.document)),
         counts' \in [RuleIds -> Nat],
         \A r \in RuleIds :
           counts'[r] = Cardinality({h.document : h \in {g \in hits' : g.rule = r}})
  PROVE  EngineInv'
<1>1. EngineTypeOK /\ Producing /\ Reported /\ Counted
  BY DEF EngineInv
<1>2. place' = [document |-> place.document + 1, rule |-> 1, entry |-> 1]
  BY DEF NextDocument
<1>3. place'.document = place.document + 1 /\ place'.rule = 1 /\ place'.entry = 1
  BY <1>2
<1>4. /\ Len(documents) \in Nat /\ Len(ruleSet.rules) \in Nat
      /\ place.document \in Nat \ {0} /\ place.document <= Len(documents)
  BY <1>1, Standing DEF Running
<1>5. RuleIds' = RuleIds
  BY SameRules
<1>6. EngineTypeOK'
  <2>1. place' \in [document : 1..(Len(documents) + 1), rule : 1..(Len(ruleSet.rules) + 1),
                    entry : Nat \ {0}]
    <3>1. place.document + 1 \in 1..(Len(documents) + 1) /\ 1 \in 1..(Len(ruleSet.rules) + 1)
      BY <1>4
    <3> QED
      BY <1>2, <3>1
  <2>2. /\ 1..(place.document - 1) \subseteq 1..(place'.document - 1)
        /\ place.document \in 1..(place'.document - 1)
    BY <1>3, <1>4
  <2>3. errors' \subseteq 1..(place'.document - 1)
    BY <1>1, <2>2 DEF EngineTypeOK
  <2>4. \A h \in hits' : h.document \in 1..(place'.document - 1) /\ h.rule \in RuleIds
    BY <1>1, <2>2 DEF EngineTypeOK
  <2> QED
    BY <1>1, <1>5, <2>1, <2>3, <2>4 DEF EngineTypeOK
<1>7. Producing'
  <2>1. ASSUME NEW D
        PROVE  Judged(D, 1, 1)' = {} /\ FindingsOn(D, {})' = {}
    <3>1. Judged(D, 1, 1) = {}
      BY <1>1, FirstEntry
    <3>2. Judged(D, 1, 1)' = Judged(D, 1, 1)
      BY SameMatching
    <3>3. FindingsOn(D, {})' = {}
      BY DEF FindingsOn
    <3> QED
      BY <3>1, <3>2, <3>3
  <2>2. ASSUME NEW D
        PROVE  FindingsOn(D, Judged(D, 1, 1))' = {}
    BY <2>1 DEF FindingsOn
  <2> QED
    BY <1>3, <2>1, <2>2 DEF Producing
<1>8. Reported'
  <2>1. ASSUME NEW D \in 1..place.document
        PROVE  /\ D \in errors' <=> \E q \in Matching(D)' : (Run(D, q[1], q[2])').threw
               /\ {h \in hits' : h.document = D} =
                    IF D \in errors' THEN {} ELSE FindingsOn(D, Matching(D))'
    <3>1. Matching(D)' = Matching(D) /\ \A q : Run(D, q[1], q[2])' = Run(D, q[1], q[2])
      BY SameMatching, SameRules
    <3>2. FindingsOn(D, Matching(D))' = FindingsOn(D, Matching(D))
      BY <3>1 DEF FindingsOn
    <3>3. CASE D # place.document
      <4>1. D \in 1..(place.document - 1)
        BY <1>4, <3>3
      <4>2. /\ D \in errors <=> \E q \in Matching(D) : Run(D, q[1], q[2]).threw
            /\ {h \in hits : h.document = D} =
                 IF D \in errors THEN {} ELSE FindingsOn(D, Matching(D))
        BY <1>1, <4>1 DEF Reported
      <4>3. D \in errors' <=> D \in errors
        BY <3>3
      <4>4. {h \in hits' : h.document = D} = {h \in hits : h.document = D}
        BY <3>3
      <4> QED
        BY <3>1, <3>2, <4>2, <4>3, <4>4
    <3>4. CASE D = place.document
      <4>0. ~(D \in 1..(place.document - 1))
        BY <1>4, <3>4
      <4>1. D \notin errors /\ \A h \in hits : h.document # D
        BY <1>1, <4>0 DEF EngineTypeOK
      <4>2. D \in errors' <=> bad # {}
        BY <3>4, <4>1
      <4>3. {h \in hits' : h.document = D} = new
        BY <3>4, <4>1
      <4> QED
        BY <3>1, <3>2, <3>4, <4>2, <4>3
    <3> QED
      BY <3>3, <3>4
  <2>2. 1..(place'.document - 1) = 1..place.document
    BY <1>3, <1>4
  <2> QED
    BY <2>1, <2>2 DEF Reported
<1>9. Counted'
  BY <1>5 DEF Counted
<1> QED
  BY <1>6, <1>7, <1>8, <1>9 DEF EngineInv

LEMMA ThrowKeeps ==
  ASSUME EngineInv, Throw
  PROVE  EngineInv'
<1>1. EngineTypeOK /\ Counted
  BY DEF EngineInv
<1>2. HasEntry /\ HasRule /\ Running /\ Throws
  BY DEF Throw, HasEntry, HasRule
<1> DEFINE d == place.document
           new == {}
           bad == {place.document}
<1>3. Answer = "yes" /\ RunActions(Rule, CurrentScope).threw
  <2>1. Answer # "throws"
    BY <1>1, <1>2, AnswerIsGiven
  <2> QED
    BY <1>2, <2>1 DEF Throws
<1>4. \E q \in Matching(d) : Run(d, q[1], q[2]).threw
  <2>1. <<place.rule, place.entry>> \in Matching(d)
    BY <1>1, <1>2, <1>3, EntryAtHand DEF Matching
  <2>2. Run(d, place.rule, place.entry) = RunActions(Rule, CurrentScope)
    BY DEF Run, Rule, CurrentScope, Invoice
  <2> QED
    BY <1>3, <2>1, <2>2
<1>5. /\ errors' = errors \cup bad /\ produced' = {} /\ NextDocument
      /\ UNCHANGED <<ruleSet, documents, hits, counts>>
  BY DEF Throw
<1>6. hits' = hits \cup new /\ \A h \in new : h.document = d /\ h.rule \in RuleIds
  BY <1>5
<1>7. counts' \in [RuleIds -> Nat]
  BY <1>1, <1>5 DEF EngineTypeOK
<1>8. \A r \in RuleIds :
        counts'[r] = Cardinality({h.document : h \in {g \in hits' : g.rule = r}})
  BY <1>1, <1>5 DEF Counted
<1>9. bad # {} /\ bad \in SUBSET {place.document}
  OBVIOUS
<1>10. new = IF bad # {} THEN {} ELSE FindingsOn(d, Matching(d))
  BY <1>9
<1>11. bad # {} <=> \E q \in Matching(d) : Run(d, q[1], q[2]).threw
  BY <1>4, <1>9
<1> HIDE DEF new, bad
<1> QED
  BY <1>2, <1>5, <1>6, <1>7, <1>8, <1>9, <1>10, <1>11, DocumentEnds

LEMMA DoneKeeps ==
  ASSUME EngineInv, Done
  PROVE  EngineInv'
<1>1. EngineTypeOK /\ Counted /\ Producing
  BY DEF EngineInv
<1>2. Running /\ ~HasRule
  BY DEF Done
<1> DEFINE d == place.document
           new == produced
           bad == {}
<1>3. /\ Len(documents) \in Nat /\ DOMAIN documents = 1..Len(documents)
      /\ Len(ruleSet.rules) \in Nat
      /\ place.document \in Nat \ {0} /\ place.document <= Len(documents)
      /\ place.rule \in Nat /\ place.rule > Len(ruleSet.rules)
  BY <1>1, <1>2, Standing DEF HasRule, Running
<1>4. Judged(d, place.rule, place.entry) = Matching(d)
  BY <1>1, <1>3, LastEntry
<1>5. /\ produced = FindingsOn(d, Matching(d))
      /\ \A q \in Matching(d) : ~Run(d, q[1], q[2]).threw
  <2>1. d \in {place.document} \cap DOMAIN documents
    BY <1>3
  <2> QED
    BY <1>1, <1>4, <2>1 DEF Producing
<1>6. /\ errors' = errors \cup bad /\ produced' = {} /\ NextDocument
      /\ UNCHANGED <<ruleSet, documents>> /\ hits' = hits \cup new
  BY DEF Done
<1>7. ASSUME NEW h \in new PROVE h.document = d /\ h.rule \in RuleIds
  <2>1. PICK q \in Matching(d) : h \in FindingsOf(d, q[1], q[2], Run(d, q[1], q[2]))
    BY <1>5, <1>7 DEF FindingsOn
  <2>2. h.document = d /\ h.rule = q[1]
    BY <2>1 DEF FindingsOf
  <2>3. q[1] \in RuleIds
    BY <2>1 DEF Matching
  <2> QED
    BY <2>2, <2>3
<1>8. counts' = [r \in RuleIds |-> counts[r] + (IF \E h \in produced : h.rule = r THEN 1 ELSE 0)]
  BY DEF Done
<1>9. counts' \in [RuleIds -> Nat]
  <2>1. \A r \in RuleIds : counts[r] \in Nat
    BY <1>1 DEF EngineTypeOK
  <2> QED
    BY <1>8, <2>1
<1>10. ASSUME NEW r \in RuleIds
       PROVE  counts'[r] = Cardinality({h.document : h \in {g \in hits' : g.rule = r}})
  <2> DEFINE Old == {h.document : h \in {g \in hits : g.rule = r}}
             New == {h.document : h \in {g \in hits' : g.rule = r}}
  <2>1. counts[r] = Cardinality(Old)
    BY <1>1 DEF Counted
  <2>2. d \notin Old /\ Old \subseteq 1..(place.document - 1)
    <3>1. \A h \in hits : h.document \in 1..(place.document - 1)
      BY <1>1 DEF EngineTypeOK
    <3>2. ~(d \in 1..(place.document - 1))
      BY <1>3
    <3> QED
      BY <3>1, <3>2
  <2>3. IsFiniteSet(Old)
    <3> DEFINE Earlier == 1..(place.document - 1)
    <3>1. IsFiniteSet(Earlier)
      <4>1. 1 \in Int /\ place.document - 1 \in Int
        BY <1>3
      <4> QED
        BY <4>1, FS_Interval
    <3>2. Old \in SUBSET Earlier
      BY <2>2
    <3> HIDE DEF Old, Earlier
    <3> QED
      BY <3>1, <3>2, FS_Subset
  <2>4. CASE \E h \in produced : h.rule = r
    <3>1. New = Old \cup {d}
      <4>1. PICK g \in produced : g.rule = r
        BY <2>4
      <4>2. g \in hits' /\ g.document = d
        BY <1>6, <1>7, <4>1
      <4>3. d \in New
        BY <4>1, <4>2
      <4>4. \A x \in New : x \in Old \/ x = d
        BY <1>6, <1>7
      <4>5. \A x \in Old : x \in New
        BY <1>6
      <4> HIDE DEF Old, New
      <4> QED
        BY <4>3, <4>4, <4>5
    <3>2. Cardinality(Old \cup {d}) = Cardinality(Old) + 1
      <4> HIDE DEF Old, d
      <4> QED
        BY <2>2, <2>3, FS_AddElement
    <3>3. counts'[r] = counts[r] + 1
      BY <1>8, <2>4
    <3> QED
      BY <2>1, <3>1, <3>2, <3>3
  <2>5. CASE ~\E h \in produced : h.rule = r
    <3>1. New = Old
      BY <1>6, <2>5
    <3>2. counts'[r] = counts[r]
      <4>1. counts[r] \in Nat
        BY <1>1 DEF EngineTypeOK
      <4>2. counts'[r] = counts[r] + 0
        BY <1>8, <2>5
      <4> QED
        BY <4>1, <4>2
    <3> QED
      BY <2>1, <3>1, <3>2
  <2> QED
    BY <2>4, <2>5
<1>11. bad \in SUBSET {place.document} /\ bad = {}
  OBVIOUS
<1>12. new = IF bad # {} THEN {} ELSE FindingsOn(d, Matching(d))
  BY <1>5, <1>11
<1>13. bad # {} <=> \E q \in Matching(d) : Run(d, q[1], q[2]).threw
  BY <1>5, <1>11
<1> HIDE DEF new, bad
<1> QED
  BY <1>2, <1>6, <1>7, <1>9, <1>10, <1>11, <1>12, <1>13, DocumentEnds

LEMMA EngineStarts == EngineInit => EngineInv
<1> SUFFICES ASSUME EngineInit PROVE EngineInv
  OBVIOUS
<1>1. /\ ruleSet \in UNION {LoadRuleSet(draft) : draft \in Drafts}
      /\ documents \in UNION {[1..n -> Invoices] : n \in 1..MaxDocuments}
      /\ place = [document |-> 1, rule |-> 1, entry |-> 1]
      /\ produced = {} /\ hits = {} /\ errors = {}
      /\ counts = [r \in RuleIds |-> 0]
  BY DEF EngineInit
<1>2. \E draft \in Drafts : ruleSet \in LoadRuleSet(draft)
  BY <1>1
<1>3. documents \in Seq(Invoices)
  <2>1. PICK n \in 1..MaxDocuments : documents \in [1..n -> Invoices]
    BY <1>1
  <2>2. n \in Nat
    BY <2>1, DocumentsAssumption
  <2> QED
    BY <2>1, <2>2
<1>4. Len(ruleSet.rules) \in Nat
  BY <1>2, RulesOfDraft
<1>5. EngineTypeOK
  <2>1. Len(documents) \in Nat
    BY <1>3
  <2>2. place \in [document : 1..(Len(documents) + 1), rule : 1..(Len(ruleSet.rules) + 1),
                   entry : Nat \ {0}]
    BY <1>1, <1>4, <2>1
  <2>3. counts \in [RuleIds -> Nat]
    BY <1>1
  <2> QED
    BY <1>1, <1>2, <1>3, <2>2, <2>3 DEF EngineTypeOK
<1>6. Producing
  <2>1. \A d : Judged(d, 1, 1) = {}
    BY <1>5, FirstEntry
  <2>2. place.rule = 1 /\ place.entry = 1
    BY <1>1
  <2> QED
    BY <1>1, <2>1, <2>2 DEF Producing, FindingsOn
<1>7. Reported
  <2>1. 1..(place.document - 1) = {}
    BY <1>1
  <2> QED
    BY <2>1 DEF Reported
<1>8. Counted
  <2>1. ASSUME NEW r \in RuleIds
        PROVE  {h.document : h \in {g \in hits : g.rule = r}} = {}
    BY <1>1
  <2>2. Cardinality({}) = 0
    BY FS_EmptySet
  <2> QED
    BY <1>1, <2>1, <2>2 DEF Counted
<1> QED
  BY <1>5, <1>6, <1>7, <1>8 DEF EngineInv

LEMMA EngineStep == EngineInv /\ [EngineNext]_engineVars => EngineInv'
<1> SUFFICES ASSUME EngineInv, [EngineNext]_engineVars PROVE EngineInv'
  OBVIOUS
<1>1. CASE NextRule
  BY <1>1, NextRuleKeeps
<1>2. CASE NoMatch
  BY <1>2, NoMatchKeeps
<1>3. CASE Match
  BY <1>3, MatchKeeps
<1>4. CASE Throw
  BY <1>4, ThrowKeeps
<1>5. CASE Done
  BY <1>5, DoneKeeps
<1>6. CASE UNCHANGED engineVars
  <2>1. UNCHANGED <<ruleSet, documents>> /\ UNCHANGED <<place, produced, hits, counts, errors>>
    BY <1>6 DEF engineVars
  <2>2. RuleIds' = RuleIds
    BY <2>1 DEF RuleIds
  <2>3. ASSUME NEW d, NEW R, NEW E
        PROVE  /\ Matching(d)' = Matching(d) /\ Judged(d, R, E)' = Judged(d, R, E)
               /\ FindingsOn(d, Matching(d))' = FindingsOn(d, Matching(d))
               /\ FindingsOn(d, Judged(d, R, E))' = FindingsOn(d, Judged(d, R, E))
               /\ Run(d, R, E)' = Run(d, R, E)
    <3>1. \A q : Run(d, q[1], q[2])' = Run(d, q[1], q[2])
      BY <2>1, SameRules
    <3>2. Matching(d)' = Matching(d) /\ Judged(d, R, E)' = Judged(d, R, E)
      BY <2>1, SameMatching
    <3>3. /\ FindingsOn(d, Matching(d))' = FindingsOn(d, Matching(d))
          /\ FindingsOn(d, Judged(d, R, E))' = FindingsOn(d, Judged(d, R, E))
      BY <3>1, <3>2 DEF FindingsOn
    <3> QED
      BY <2>1, <3>2, <3>3, SameRules
  <2>4. EngineTypeOK'
    BY <2>1, <2>2 DEF EngineInv, EngineTypeOK
  <2>5. Producing'
    BY <2>1, <2>3 DEF EngineInv, Producing
  <2>6. Reported'
    BY <2>1, <2>3 DEF EngineInv, Reported
  <2>7. Counted'
    BY <2>1, <2>2 DEF EngineInv, Counted
  <2> QED
    BY <2>4, <2>5, <2>6, <2>7 DEF EngineInv
<1> QED
  BY <1>1, <1>2, <1>3, <1>4, <1>5, <1>6 DEF EngineNext

\* Wherever dryRun and evaluateRuleSet stand, what they have produced and what
\* they have reported is what the entries they have come to give.
THEOREM EngineInvariant == EngineSpec => []EngineInv
<1> QED
  BY EngineStarts, EngineStep, PTL DEF EngineSpec

\* The property speaks of the runs, the invariant of the entries.
LEMMA ReportFollows == EngineInv => ReportIsPerDocument
<1> SUFFICES ASSUME EngineInv PROVE ReportIsPerDocument
  OBVIOUS
<1>1. Reported /\ Counted
  BY DEF EngineInv
<1>2. ASSUME NEW d \in 1..(place.document - 1)
      PROVE  /\ d \in errors <=> \E x \in Runs(d) : x.run.threw
             /\ {h \in hits : h.document = d} =
                  IF d \in errors THEN {}
                  ELSE UNION {FindingsOf(d, x.rule, x.entry, x.run) : x \in Runs(d)}
  <2> DEFINE RunOf(q) == [rule |-> q[1], entry |-> q[2], run |-> Run(d, q[1], q[2])]
  <2>1. Runs(d) = {RunOf(q) : q \in Matching(d)}
    BY DEF Runs, Matching
  <2>2. \A q : RunOf(q).rule = q[1] /\ RunOf(q).entry = q[2] /\ RunOf(q).run = Run(d, q[1], q[2])
    OBVIOUS
  <2> HIDE DEF RunOf
  <2>3. (\E x \in Runs(d) : x.run.threw) <=> \E q \in Matching(d) : Run(d, q[1], q[2]).threw
    BY <2>1, <2>2
  <2>4. UNION {FindingsOf(d, x.rule, x.entry, x.run) : x \in Runs(d)} = FindingsOn(d, Matching(d))
    BY <2>1, <2>2 DEF FindingsOn
  <2> QED
    BY <1>1, <2>3, <2>4 DEF Reported
<1> QED
  BY <1>1, <1>2 DEF ReportIsPerDocument, Counted

-----------------------------------------------------------------------------
(* Three values. *)

SureSet == {"yes", "no", "unknown"}

\* What is sure of all conditions at once.
AllSure(scope) == CHOOSE f : f = [n \in Nodes |-> NodeIsSure(n, f, scope)]

LEMMA SureOfNode ==
  ASSUME NEW scope, NEW n \in Nodes
  PROVE  /\ Sure(n, scope) = AllSure(scope)[n]
         /\ AllSure(scope)[n] = NodeIsSure(n, AllSure(scope), scope)
<1> DEFINE G == [p \in Nodes \X [Nodes -> SureSet] |-> NodeIsSure(p[1], p[2], scope)]
<1>0. \A m \in Nodes : Group(m) \in {"all", "any", "none", "condition"}
  BY DEF Group
<1>1. G \in [Nodes \X [Nodes -> SureSet] -> SureSet]
  <2>1. \A m \in Nodes : \A f \in [Nodes -> SureSet] : NodeIsSure(m, f, scope) \in SureSet
    BY <1>0 DEF NodeIsSure, SureSet
  <2> QED
    BY <2>1
<1>2. \A m \in Nodes : \A f \in [Nodes -> SureSet] : G[<<m, f>>] = NodeIsSure(m, f, scope)
  OBVIOUS
<1>3. \A m \in Nodes : \A f, g \in [Nodes -> SureSet] :
        (\A l \in Nodes : Height[l] < Height[m] => f[l] = g[l]) => G[<<m, f>>] = G[<<m, g>>]
  <2>1. ASSUME NEW m \in Nodes, NEW f \in [Nodes -> SureSet], NEW g \in [Nodes -> SureSet],
               \A l \in Nodes : Height[l] < Height[m] => f[l] = g[l]
        PROVE  NodeIsSure(m, f, scope) = NodeIsSure(m, g, scope)
    <3>1. \A i \in DOMAIN Children(m) : f[Children(m)[i]] = g[Children(m)[i]]
      BY <2>1, ChildrenAreLower
    <3>2. {f[Children(m)[i]] : i \in DOMAIN Children(m)} = {g[Children(m)[i]] : i \in DOMAIN Children(m)}
      BY <3>1
    <3> QED
      BY <3>2 DEF NodeIsSure
  <2> HIDE DEF G
  <2> QED
    BY <1>2, <2>1
<1>4. PICK f \in [Nodes -> SureSet] : \A m \in Nodes : f[m] = G[<<m, f>>]
  <2>1. "no" \in SureSet
    BY DEF SureSet
  <2>2. IsBody(G, SureSet)
    <3> HIDE DEF G
    <3> QED
      BY <1>1, <1>3 DEF IsBody
  <2> HIDE DEF G
  <2> QED
    BY <2>1, <2>2, Recursion
<1>5. f = [m \in Nodes |-> NodeIsSure(m, f, scope)]
  <2> HIDE DEF G
  <2> QED
    BY <1>2, <1>4
<1>6. AllSure(scope) = [m \in Nodes |-> NodeIsSure(m, AllSure(scope), scope)]
  BY <1>5 DEF AllSure
<1>7. AllSure(scope)[n] = NodeIsSure(n, AllSure(scope), scope)
  BY <1>6, Zenon
<1> QED
  BY <1>7 DEF Sure, AllSure

\* A condition with an answer of its own.
LEMMA AnswerOfCondition ==
  ASSUME NEW scope, NEW n \in Nodes, Group(n) = "condition",
         Said(scope, ruleSet.lexicons)[n] \in {"yes", "no"}
  PROVE  /\ Said(scope, ruleSet.lexicons)[n] = "yes" <=> ApplyOperator(n, scope, ruleSet.lexicons)
         /\ AllSure(scope)[n] = IF Abstained(n, scope) THEN "unknown"
                                ELSE Said(scope, ruleSet.lexicons)[n]
<1> DEFINE s == Said(scope, ruleSet.lexicons)
<1>1. s[n] = NodeSays(n, s, scope, ruleSet.lexicons)
  BY SaidOfNode
<1>2. s[n] = IF OperatorThrows(n, ruleSet.lexicons) THEN "throws"
             ELSE IF ApplyOperator(n, scope, ruleSet.lexicons) THEN "yes" ELSE "no"
  BY <1>1 DEF NodeSays
<1>3. s[n] = IF ApplyOperator(n, scope, ruleSet.lexicons) THEN "yes" ELSE "no"
  BY <1>2
<1>4. AllSure(scope)[n] = IF Abstained(n, scope) THEN "unknown"
                          ELSE IF ApplyOperator(n, scope, ruleSet.lexicons) THEN "yes" ELSE "no"
  BY SureOfNode DEF NodeIsSure
<1> HIDE DEF s
<1>5. /\ s[n] = "yes" <=> ApplyOperator(n, scope, ruleSet.lexicons)
      /\ AllSure(scope)[n] = IF Abstained(n, scope) THEN "unknown" ELSE s[n]
  BY <1>3, <1>4
<1> QED
  BY <1>5 DEF s

\* A condition loaded, with the lexicons of the ruleset.
Loaded(n) == LoadsCondition[n] /\ Lexicons(n, ruleSet.lexicons)

LEMMA LoadedChildren ==
  ASSUME NEW n \in Nodes, Loaded(n), NEW i \in DOMAIN Children(n)
  PROVE  /\ Children(n)[i] \in Nodes /\ Loaded(Children(n)[i])
         /\ \A scope : Said(scope, ruleSet.lexicons)[Children(n)[i]] \in {"yes", "no"}
<1>1. Children(n)[i] \in Nodes
  BY ChildrenAreLower
<1>2. Group(n) # "condition" /\ Conditions[Children(n)[i]] \subseteq Conditions[n]
  BY ConditionsOfChild
<1>3. LoadsCondition[Children(n)[i]]
  BY <1>2, LoadsConditionOfNode DEF Loaded
<1>4. Lexicons(Children(n)[i], ruleSet.lexicons)
  BY <1>2 DEF Loaded, Lexicons
<1> QED
  BY <1>1, <1>3, <1>4, LoadedNeverThrows DEF Loaded

\* Where nothing can abstain, what the engine says is sure.
LEMMA SureWhereNothingAbstains ==
  ASSUME NEW scope, NEW n \in Nodes, Loaded(n), \A c \in Conditions[n] : ~MayAbstain(c)
  PROVE  AllSure(scope)[n] = Said(scope, ruleSet.lexicons)[n]
<1> DEFINE s == Said(scope, ruleSet.lexicons)
           t == AllSure(scope)
           Firm(m) == Loaded(m) /\ \A c \in Conditions[m] : ~MayAbstain(c)
           P == {m \in Nodes : Firm(m) => t[m] = s[m]}
<1>1. ASSUME NEW m \in Nodes, \A l \in Nodes : Height[l] < Height[m] => l \in P, Firm(m)
      PROVE  t[m] = s[m]
  <2>0. s[m] \in {"yes", "no"}
    BY <1>1, LoadedNeverThrows DEF Loaded
  <2>1. CASE Group(m) = "condition"
    <3>1. ~MayAbstain(m)
      BY <1>1, <2>1, ConditionsOfNode
    <3>2. ~Abstained(m, scope)
      BY <3>1 DEF MayAbstain, Abstained, Comparisons
    <3> QED
      BY <2>0, <2>1, <3>2, AnswerOfCondition
  <2>2. CASE Group(m) # "condition"
    <3>1. ASSUME NEW i \in DOMAIN Children(m)
          PROVE  t[Children(m)[i]] = s[Children(m)[i]] /\ s[Children(m)[i]] \in {"yes", "no"}
      <4>1. Loaded(Children(m)[i]) /\ s[Children(m)[i]] \in {"yes", "no"}
        BY <1>1, LoadedChildren
      <4>2. Firm(Children(m)[i])
        BY <1>1, <4>1, ConditionsOfChild
      <4> QED
        BY <1>1, <4>1, <4>2, ChildrenAreLower
    <3> DEFINE answers == {t[Children(m)[i]] : i \in DOMAIN Children(m)}
    <3>2. /\ "unknown" \notin answers
          /\ \A a : a \in answers <=> \E i \in DOMAIN Children(m) : s[Children(m)[i]] = a
      BY <3>1
    <3>3. t[m] = NodeIsSure(m, t, scope)
      BY SureOfNode
    <3>4. Group(m) \in {"all", "any", "none"}
      BY <2>2 DEF Group
    <3>5. CASE Group(m) = "all"
      <4>1. t[m] = IF "no" \in answers THEN "no" ELSE "yes"
        BY <3>2, <3>3, <3>5 DEF NodeIsSure
      <4>2. s[m] = IF \E i \in DOMAIN Children(m) : s[Children(m)[i]] = "no" THEN "no" ELSE "yes"
        BY <2>2, <3>1, <3>5, SaidOfGroup
      <4> QED
        BY <3>2, <4>1, <4>2
    <3>6. CASE Group(m) = "any"
      <4>1. t[m] = IF "yes" \in answers THEN "yes" ELSE "no"
        BY <3>2, <3>3, <3>6 DEF NodeIsSure
      <4>2. s[m] = IF \E i \in DOMAIN Children(m) : s[Children(m)[i]] = "yes" THEN "yes" ELSE "no"
        BY <2>2, <3>1, <3>6, SaidOfGroup
      <4> QED
        BY <3>2, <4>1, <4>2
    <3>7. CASE Group(m) = "none"
      <4>1. t[m] = IF "yes" \in answers THEN "no" ELSE "yes"
        BY <3>2, <3>3, <3>7 DEF NodeIsSure
      <4>2. s[m] = IF \E i \in DOMAIN Children(m) : s[Children(m)[i]] = "yes" THEN "no" ELSE "yes"
        BY <2>2, <3>1, <3>7, SaidOfGroup
      <4> QED
        BY <3>2, <4>1, <4>2
    <3> QED
      BY <3>4, <3>5, <3>6, <3>7
  <2> QED
    BY <2>1, <2>2
<1>2. \A m \in Nodes : m \in P
  <2>1. \A m \in Nodes : (\A l \in Nodes : Height[l] < Height[m] => l \in P) => m \in P
    BY <1>1
  <2> HIDE DEF P
  <2> QED
    BY <2>1, ByHeight
<1> QED
  BY <1>2

\* What the engine says yes to is sure, unless something under a none abstains.
LEMMA YesIsSure ==
  ASSUME NEW scope, NEW n \in Nodes, Loaded(n), \A c \in Negated[n] : ~MayAbstain(c),
         Said(scope, ruleSet.lexicons)[n] = "yes"
  PROVE  AllSure(scope)[n] = "yes"
<1> DEFINE s == Said(scope, ruleSet.lexicons)
           t == AllSure(scope)
           Yes(m) == Loaded(m) /\ (\A c \in Negated[m] : ~MayAbstain(c)) /\ s[m] = "yes"
           P == {m \in Nodes : Yes(m) => t[m] = "yes"}
<1>1. ASSUME NEW m \in Nodes, \A l \in Nodes : Height[l] < Height[m] => l \in P, Yes(m)
      PROVE  t[m] = "yes"
  <2>1. CASE Group(m) = "condition"
    <3>1. ApplyOperator(m, scope, ruleSet.lexicons)
      BY <1>1, <2>1, AnswerOfCondition
    <3>2. ~Abstained(m, scope)
      BY <3>1 DEF ApplyOperator, Abstained, Comparisons
    <3> QED
      BY <1>1, <2>1, <3>2, AnswerOfCondition
  <2>2. CASE Group(m) # "condition"
    <3> DEFINE answers == {t[Children(m)[i]] : i \in DOMAIN Children(m)}
    <3>1. \A i \in DOMAIN Children(m) :
            Loaded(Children(m)[i]) /\ s[Children(m)[i]] \in {"yes", "no"}
      BY <1>1, LoadedChildren
    <3>2. t[m] = NodeIsSure(m, t, scope)
      BY SureOfNode
    <3>3. Group(m) \in {"all", "any", "none"}
      BY <2>2 DEF Group
    <3>4. ASSUME NEW i \in DOMAIN Children(m), Group(m) # "none", s[Children(m)[i]] = "yes"
          PROVE  t[Children(m)[i]] = "yes"
      <4>1. Negated[m] = OfChildren(m, Negated)
        BY <2>2, <3>4, NegatedOfNode
      <4>2. Negated[Children(m)[i]] \subseteq OfChildren(m, Negated)
        BY DEF OfChildren
      <4>3. Yes(Children(m)[i])
        BY <1>1, <3>1, <3>4, <4>1, <4>2
      <4> QED
        BY <1>1, <4>3, ChildrenAreLower
    <3>5. CASE Group(m) = "all"
      <4>1. \A i \in DOMAIN Children(m) : s[Children(m)[i]] = "yes"
        BY <1>1, <2>2, <3>1, <3>5, SaidOfGroup
      <4>2. \A a \in answers : a = "yes"
        BY <3>4, <3>5, <4>1
      <4> QED
        BY <3>2, <3>5, <4>2 DEF NodeIsSure
    <3>6. CASE Group(m) = "any"
      <4>1. PICK i \in DOMAIN Children(m) : s[Children(m)[i]] = "yes"
        BY <1>1, <2>2, <3>1, <3>6, SaidOfGroup
      <4>2. t[Children(m)[i]] = "yes"
        BY <3>4, <3>6, <4>1
      <4>3. "yes" \in answers
        BY <4>2
      <4> QED
        BY <3>2, <3>6, <4>3 DEF NodeIsSure
    <3>7. CASE Group(m) = "none"
      <4>1. \A i \in DOMAIN Children(m) : s[Children(m)[i]] = "no"
        BY <1>1, <2>2, <3>1, <3>7, SaidOfGroup
      <4>2. Negated[m] = Conditions[m]
        BY <3>7, NegatedOfNode
      <4>3. ASSUME NEW i \in DOMAIN Children(m) PROVE t[Children(m)[i]] = "no"
        <5>1. \A c \in Conditions[Children(m)[i]] : ~MayAbstain(c)
          BY <1>1, <4>2, ConditionsOfChild
        <5>2. Children(m)[i] \in Nodes /\ Loaded(Children(m)[i])
          BY <3>1, ChildrenAreLower
        <5>3. t[Children(m)[i]] = s[Children(m)[i]]
          BY <5>1, <5>2, SureWhereNothingAbstains
        <5> QED
          BY <4>1, <5>3
      <4>4. \A a \in answers : a = "no"
        BY <4>3
      <4> QED
        BY <3>2, <3>7, <4>4 DEF NodeIsSure
    <3> QED
      BY <3>3, <3>5, <3>6, <3>7
  <2> QED
    BY <2>1, <2>2
<1>2. \A m \in Nodes : m \in P
  <2>1. \A m \in Nodes : (\A l \in Nodes : Height[l] < Height[m] => l \in P) => m \in P
    BY <1>1
  <2> HIDE DEF P
  <2> QED
    BY <2>1, ByHeight
<1> QED
  BY <1>2

\* A finding comes from an entry that its rule matched.
LEMMA HitsMatched ==
  ASSUME EngineInv, NEW h \in hits
  PROVE  h.rule \in RuleIds /\ Matches(h.document, h.rule, h.entry)
<1>1. h.document \in 1..(place.document - 1) /\ h.rule \in RuleIds
  BY DEF EngineInv, EngineTypeOK
<1>2. PICK d : d = h.document
  OBVIOUS
<1>3. h \in {g \in hits : g.document = d}
  BY <1>2
<1>4. h \in FindingsOn(d, Matching(d))
  BY <1>1, <1>2, <1>3 DEF EngineInv, Reported
<1>5. PICK q \in Matching(d) : h \in FindingsOf(d, q[1], q[2], Run(d, q[1], q[2]))
  BY <1>4 DEF FindingsOn
<1>6. h.rule = q[1] /\ h.entry = q[2]
  BY <1>5 DEF FindingsOf
<1>7. Matches(d, q[1], q[2])
  BY <1>5 DEF Matching
<1> QED
  BY <1>1, <1>2, <1>6, <1>7

LEMMA AnswersFlag == EngineInv => OnlyAnswersFlag
<1> SUFFICES ASSUME EngineInv, NEW h \in hits,
                    \A c \in Negated[ruleSet.rules[h.rule].when] : ~MayAbstain(c)
             PROVE  Sure(ruleSet.rules[h.rule].when,
                         Scope(ruleSet.rules[h.rule], documents[h.document], h.entry)) = "yes"
  BY DEF OnlyAnswersFlag
<1> DEFINE when == ruleSet.rules[h.rule].when
           scope == Scope(ruleSet.rules[h.rule], documents[h.document], h.entry)
<1>1. h.rule \in RuleIds /\ Matches(h.document, h.rule, h.entry)
  BY HitsMatched
<1>2. when \in Nodes /\ Loaded(when)
  BY <1>1, LoadedRule DEF EngineInv, Loaded
<1>3. EvaluateNode(when, scope, ruleSet.lexicons) = "yes"
  BY <1>1 DEF Matches
<1>4. \A c \in Negated[when] : ~MayAbstain(c)
  OBVIOUS
<1> HIDE DEF when, scope
<1>5. Said(scope, ruleSet.lexicons)[when] = "yes"
  BY <1>3, EvaluateIsSaid
<1>6. AllSure(scope)[when] = "yes"
  BY <1>2, <1>4, <1>5, YesIsSure
<1>7. Sure(when, scope) = "yes"
  BY <1>2, <1>6, SureOfNode
<1> QED
  BY <1>7 DEF when, scope

\* The report says of each document what it alone gives, of every dry run.
THEOREM ReportPerDocument == EngineSpec => []ReportIsPerDocument
<1> QED
  BY EngineInvariant, ReportFollows, PTL

\* Rules that follow one another leave each dated invoice exactly one version.
THEOREM VersionsFollowOnAnother == EngineSpec => []ExactlyOneVersion
<1>1. EngineInv => ExactlyOneVersion
  BY OneVersionAtATime DEF EngineInv
<1> QED
  BY <1>1, EngineInvariant, PTL

\* A finding needs a condition that is sure, whatever the rules.
THEOREM FindingsHaveAnswers == EngineSpec => []OnlyAnswersFlag
<1> QED
  BY EngineInvariant, AnswersFlag, PTL
=============================================================================
