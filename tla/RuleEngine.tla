----------------------------- MODULE RuleEngine -----------------------------
(***************************************************************************)
(* Tenant rules over documents: evaluateRuleSet, and dryRun around it      *)
(* (packages/rules-engine).  A ruleset that does not load stops the        *)
(* program; dryRun takes the documents one by one; evaluateRuleSet takes   *)
(* the rules one by one and, for each, the document, its lines or its VAT  *)
(* breakdown.  One entry of that loop is a step.  Where the source throws, *)
(* dryRun reports the document as an error and drops what it had produced. *)
(***************************************************************************)
EXTENDS Rules

CONSTANTS
  Drafts,        \* rulesets as they are written
  Invoices,      \* the invoices that documents are taken from
  MaxDocuments   \* bound on the documents of one dry run

ASSUME DocumentsAssumption == MaxDocuments \in Nat

\* A date that may be missing: {} or {the day}.
IsOptionalDay(days) == days \subseteq Int /\ \A d, e \in days : d = e

ASSUME InvoicesAssumption ==
  \A invoice \in Invoices :
    /\ invoice.line \in Seq(Range(invoice.line))
    /\ invoice.tax \in Seq(Range(invoice.tax))
    /\ IsOptionalDay(invoice.issued)

ASSUME DraftsAssumption ==
  \A draft \in Drafts :
    /\ draft.rules \in Seq(Range(draft.rules))
    /\ \A rule \in Range(draft.rules) :
         /\ {"scope", "from", "to", "when"} \subseteq DOMAIN rule
         /\ rule.when \in Nodes /\ IsOptionalDay(rule.from) /\ IsOptionalDay(rule.to)

VARIABLES
  ruleSet,    \* the ruleset that was loaded
  documents,  \* the sequence of invoices
  place,      \* indices of the document, the rule and its next entry
  produced,   \* findings of the document so far
  hits,       \* findings of the documents that are done
  counts,     \* countsByRule
  errors      \* documents that threw

engineVars == <<ruleSet, documents, place, produced, hits, counts, errors>>

RuleIds == 1..Len(ruleSet.rules)

-----------------------------------------------------------------------------
(* The loop. *)

Running == place.document <= Len(documents)
Invoice == documents[place.document]
Rule == ruleSet.rules[place.rule]
HasRule == Running /\ place.rule <= Len(ruleSet.rules)
HasEntry == HasRule /\ RuleApplies(Rule, Invoice) /\ place.entry <= Entries(Rule, Invoice)
CurrentScope == Scope(Rule, Invoice, place.entry)
Answer == EvaluateNode(Rule.when, CurrentScope, ruleSet.lexicons)

Throws ==
  \/ Answer = "throws"
  \/ Answer = "yes" /\ RunActions(Rule, CurrentScope).threw

FindingsOf(d, r, i, run) ==
  {[document |-> d, rule |-> r, entry |-> i, action |-> a, missing |-> run.missing] :
     a \in run.flagged}

\* The rule is outside its scope or dates, or all of its entries are done.
NextRule ==
  /\ HasRule
  /\ ~HasEntry
  /\ place' = [place EXCEPT !.rule = @ + 1, !.entry = 1]
  /\ UNCHANGED <<ruleSet, documents, produced, hits, counts, errors>>

NoMatch ==
  /\ HasEntry
  /\ Answer = "no"
  /\ place' = [place EXCEPT !.entry = @ + 1]
  /\ UNCHANGED <<ruleSet, documents, produced, hits, counts, errors>>

Match ==
  /\ HasEntry
  /\ Answer = "yes"
  /\ LET run == RunActions(Rule, CurrentScope)
     IN  /\ ~run.threw
         /\ produced' = produced \cup FindingsOf(place.document, place.rule, place.entry, run)
  /\ place' = [place EXCEPT !.entry = @ + 1]
  /\ UNCHANGED <<ruleSet, documents, hits, counts, errors>>

NextDocument == place' = [document |-> place.document + 1, rule |-> 1, entry |-> 1]

\* "One malformed document must not hide what the rule does to the other
\* eighty-nine days."
Throw ==
  /\ HasEntry
  /\ Throws
  /\ errors' = errors \cup {place.document}
  /\ produced' = {}
  /\ NextDocument
  /\ UNCHANGED <<ruleSet, documents, hits, counts>>

Done ==
  /\ Running
  /\ ~HasRule
  /\ hits' = hits \cup produced
  /\ counts' = [r \in RuleIds |->
                  counts[r] + (IF \E h \in produced : h.rule = r THEN 1 ELSE 0)]
  /\ produced' = {}
  /\ NextDocument
  /\ UNCHANGED <<ruleSet, documents, errors>>

\* "A broken ruleset must stop the run."
EngineInit ==
  /\ ruleSet \in UNION {LoadRuleSet(draft) : draft \in Drafts}
  /\ documents \in UNION {[1..n -> Invoices] : n \in 1..MaxDocuments}
  /\ place = [document |-> 1, rule |-> 1, entry |-> 1]
  /\ produced = {}
  /\ hits = {}
  /\ counts = [r \in RuleIds |-> 0]
  /\ errors = {}

EngineNext == NextRule \/ NoMatch \/ Match \/ Throw \/ Done

EngineSpec == EngineInit /\ [][EngineNext]_engineVars

-----------------------------------------------------------------------------
(* Properties. *)

Matches(d, r, i) ==
  LET rule == ruleSet.rules[r] IN
  /\ RuleApplies(rule, documents[d])
  /\ i <= Entries(rule, documents[d])
  /\ EvaluateNode(rule.when, Scope(rule, documents[d], i), ruleSet.lexicons) = "yes"

MaxEntries(d) == Len(documents[d].line) + Len(documents[d].tax) + 1

Run(d, r, i) ==
  RunActions(ruleSet.rules[r], Scope(ruleSet.rules[r], documents[d], i))

Runs(d) ==
  {[rule |-> p[1], entry |-> p[2], run |-> Run(d, p[1], p[2])] :
     p \in {q \in RuleIds \X (1..MaxEntries(d)) : Matches(d, q[1], q[2])}}

\* The report is what each document alone says of each rule.  A document is an
\* error only where a matching rule computes with a value that is missing or
\* divides by zero: a condition of a ruleset that loads never throws (load.ts,
\* "cannot fail for structural reasons").  An error leaves no hit behind, and
\* changes nothing that another document shows (dry-run.ts).  countsByRule is
\* "would flag 7 documents": an invoice with nine bad lines counts once.
ReportIsPerDocument ==
  /\ \A d \in 1..(place.document - 1) :
       LET runs == Runs(d)
       IN  /\ d \in errors <=> \E x \in runs : x.run.threw
           /\ {h \in hits : h.document = d} =
                IF d \in errors THEN {}
                ELSE UNION {FindingsOf(d, x.rule, x.entry, x.run) : x \in runs}
  /\ \A r \in RuleIds :
       counts[r] = Cardinality({h.document : h \in {g \in hits : g.rule = r}})

\* A rule that is replaced from a day on leaves no dated invoice without a
\* version, and judges none by both.
Replaces(new, old) ==
  /\ old.to # {} /\ old.to = new.from
  /\ old.from = {} /\ new.to = {}
  /\ old.scope = "both" /\ new.scope = "both"

ExactlyOneVersion ==
  \A r, s \in RuleIds :
    Replaces(ruleSet.rules[s], ruleSet.rules[r]) =>
      \A d \in DOMAIN documents :
        documents[d].issued # {} =>
          RuleApplies(ruleSet.rules[r], documents[d])
            # RuleApplies(ruleSet.rules[s], documents[d])

\* What a condition tree says, in three values: a group is sure when one child
\* decides it, or when all of them have an answer.
NodeIsSure(node, sure, scope) ==
  LET answers == {sure[Children(node)[i]] : i \in DOMAIN Children(node)}
      unless(answer) == IF "unknown" \in answers THEN "unknown" ELSE answer
  IN  CASE Group(node) = "all" -> IF "no" \in answers THEN "no" ELSE unless("yes")
        [] Group(node) = "any" -> IF "yes" \in answers THEN "yes" ELSE unless("no")
        [] Group(node) = "none" -> IF "yes" \in answers THEN "no" ELSE unless("yes")
        [] Group(node) = "condition" ->
             IF Abstained(node, scope) THEN "unknown"
             ELSE IF ApplyOperator(node, scope, ruleSet.lexicons) THEN "yes" ELSE "no"

Sure(node, scope) ==
  LET sure[n \in Nodes] == NodeIsSure(n, sure, scope)
  IN  sure[node]

\* The conditions under a none.
Negated[node \in Nodes] ==
  CASE Group(node) = "condition" -> {}
    [] Group(node) = "none" -> Conditions[node]
    [] OTHER -> OfChildren(node, Negated)

MayAbstain(c) == c.op \in Comparisons \cup {"vies_valid"}

\* README.md: "A rule that cannot reach an answer abstains": a finding needs a
\* condition whose answer is yes, not one that could not be answered
\* (operators.ts, abstained).  This is so except under none, where the engine
\* takes an abstaining condition for one that does not match.
OnlyAnswersFlag ==
  \A h \in hits :
    LET rule == ruleSet.rules[h.rule]
    IN  (\A c \in Negated[rule.when] : ~MayAbstain(c)) =>
          Sure(rule.when, Scope(rule, documents[h.document], h.entry)) = "yes"
=============================================================================
