-------------------------------- MODULE Rules --------------------------------
(***************************************************************************)
(* The language of tenant rules: what a ruleset file has to be to load     *)
(* (load.ts), what a condition says of a document (operators.ts,           *)
(* evaluate.ts) and what the actions of a rule do (expr.ts, evaluate.ts).  *)
(* Nothing here has a state.                                               *)
(*                                                                         *)
(* A draft is a ruleset as somebody wrote it.  Of a value in it there is   *)
(* its kind, as typeof tells it, and the value; of a text that may be      *)
(* missing, {} or {t}; "shaped" says that ids, versions and dates look as  *)
(* they must.  A draft that loads is {the ruleset}, any other {}.          *)
(*                                                                         *)
(* Numbers are in hundredths, the cent tolerance of a comparison being     *)
(* equality then.  A lexicon is the set of the texts it finds something    *)
(* in, a regular expression the one text it matches, and an expression has *)
(* one operator.                                                           *)
(***************************************************************************)
EXTENDS Integers, Sequences, FiniteSets, SequencesExt

CONSTANTS
  DocFields, LineFields, TaxFields, VarFields,
  NumberFields,  \* the fields whose values are numbers
  Builtin,       \* the lexicons that every ruleset has, by name
  BadPatterns,   \* regular expressions that compilePattern refuses
  Nodes,         \* the conditions that the drafts are made of, at every depth
  Height         \* how deep a condition is

ASSUME FieldsAssumption == VarFields \subseteq NumberFields

\* The first of all, any and none that a mapping has makes it a group, for the
\* loader (load.ts) and for every reader (evaluate.ts); what stands beside it is
\* not read.
Group(node) == IF "all" \in DOMAIN node THEN "all"
               ELSE IF "any" \in DOMAIN node THEN "any"
               ELSE IF "none" \in DOMAIN node THEN "none" ELSE "condition"

Children(node) == IF Group(node) = "condition" THEN <<>> ELSE node[Group(node)]

\* A ruleset is a text, so its conditions are finite trees.
ASSUME NodesAssumption ==
  /\ Height \in [Nodes -> Nat]
  /\ \A node \in Nodes :
       /\ Children(node) \in Seq(Nodes)
       /\ \A i \in DOMAIN Children(node) : Height[Children(node)[i]] < Height[node]

-----------------------------------------------------------------------------
(* Fields.  A scope is an invoice with the kind and the index of the entry *)
(* that a rule looks at.                                                   *)

NoVars == [v \in VarFields |-> {}]

IsKnownField(field) == field \in DocFields \cup LineFields \cup TaxFields \cup VarFields

\* A line field outside a line iteration is missing.
ResolveField(field, scope, values) ==
  CASE field \in VarFields -> values[field]
    [] field \in DocFields -> scope.invoice.doc[field]
    [] field \in LineFields /\ scope.kind = "line" ->
         scope.invoice.line[scope.index][field]
    [] field \in TaxFields /\ scope.kind = "tax" ->
         scope.invoice.tax[scope.index][field]
    [] OTHER -> {}

ToNumber(field, scope, values) ==
  IF field \in NumberFields THEN ResolveField(field, scope, values) ELSE {}

-----------------------------------------------------------------------------
(* Conditions. *)

Comparisons == {"gt", "lt", "gte", "lte", "between"}

Operators == Comparisons \cup
  {"equals", "not_equals", "in", "matches_regex", "matches_lexicon",
   "is_empty", "is_present", "vies_valid"}

\* The ruleset's own lexicons come before the built-in ones.
ResolveLexicon(name, lexicons) ==
  CASE name \in DOMAIN lexicons -> {lexicons[name]}
    [] name \notin DOMAIN lexicons /\ name \in DOMAIN Builtin -> {Builtin[name]}
    [] OTHER -> {}

\* What applyOperator throws on, whatever the document says.
OperatorThrows(c, lexicons) ==
  CASE c.op = "in" -> c.kind \notin {"list", "pair"}
    [] c.op = "matches_regex" -> c.kind # "text" \/ c.value \in BadPatterns
    [] c.op = "matches_lexicon" ->
         c.kind # "text" \/ ResolveLexicon(c.value, lexicons) = {}
    [] OTHER -> c.op \notin Operators

\* The answer of VIES, if the field has an id to ask for and it did answer; a
\* condition without a value wants a valid one.
ViesResult(c, scope) ==
  IF ResolveField(c.field, scope, NoVars) = {} THEN {} ELSE scope.invoice.vies

Wanted(c) == IF c.kind = "boolean" THEN c.value ELSE TRUE

\* The operator cannot reach an answer.
Abstained(c, scope) ==
  \/ c.op \in Comparisons /\ ToNumber(c.field, scope, NoVars) = {}
  \/ c.op \in Comparisons \ {"between"} /\ c.kind # "number"
  \/ c.op = "between" /\ c.kind # "pair"
  \/ c.op = "vies_valid" /\ ViesResult(c, scope) = {}

\* Two missing values are equal.
LooseEquals(actual, c) == actual = (IF c.kind = "nothing" THEN {} ELSE {c.value})

MatchesLexicon(v, terms) == v \in terms

\* What an operator says of a value that is there.
Holds(c, v, lexicons) ==
  CASE c.op = "gt" -> v > c.value
    [] c.op = "lt" -> v < c.value
    [] c.op = "gte" -> v >= c.value
    [] c.op = "lte" -> v <= c.value
    [] c.op = "between" -> c.value[1] <= v /\ v <= c.value[2]
    [] c.op = "in" -> \E i \in DOMAIN c.value : c.value[i] = v
    [] c.op = "matches_regex" -> v = c.value
    [] c.op = "matches_lexicon" ->
         \E terms \in ResolveLexicon(c.value, lexicons) : MatchesLexicon(v, terms)

\* Variant: a missing value matches whatever it is compared with.
MissingMatches(c, scope, lexicons) ==
  LET actual == ResolveField(c.field, scope, NoVars)
  IN  CASE c.op = "is_empty" -> actual = {}
        [] c.op = "is_present" -> actual # {}
        [] c.op = "vies_valid" -> ViesResult(c, scope) = {Wanted(c)}
        [] c.op = "equals" -> LooseEquals(actual, c)
        [] c.op = "not_equals" -> ~LooseEquals(actual, c)
        [] OTHER -> \A v \in actual : Holds(c, v, lexicons)

\* applyOperator(...).matched: an operator that abstains does not match, and a
\* missing value is different from every value.
ApplyOperator(c, scope, lexicons) ==
  LET actual == ResolveField(c.field, scope, NoVars)
  IN  CASE c.op = "is_empty" -> actual = {}
        [] c.op = "is_present" -> actual # {}
        [] c.op = "vies_valid" -> ViesResult(c, scope) = {Wanted(c)}
        [] c.op = "equals" -> LooseEquals(actual, c)
        [] c.op = "not_equals" -> ~LooseEquals(actual, c)
        [] OTHER -> ~Abstained(c, scope) /\ \E v \in actual : Holds(c, v, lexicons)

\* "yes", "no", or "throws".  The children of a group are asked in their order,
\* and only until one decides: a "no" under all, a "yes" under any and none.
NodeSays(node, said, scope, lexicons) ==
  LET deciding == IF Group(node) = "all" THEN "no" ELSE "yes"
      decision == IF Group(node) = "any" THEN "yes" ELSE "no"
      deciders == {i \in DOMAIN Children(node) :
                     said[Children(node)[i]] \in {deciding, "throws"}}
  IN  IF Group(node) = "condition"
      THEN IF OperatorThrows(node, lexicons) THEN "throws"
           ELSE IF ApplyOperator(node, scope, lexicons) THEN "yes" ELSE "no"
      ELSE IF deciders = {} THEN IF decision = "no" THEN "yes" ELSE "no"
      ELSE IF said[Children(node)[Min(deciders)]] = "throws" THEN "throws" ELSE decision

EvaluateNode(node, scope, lexicons) ==
  LET said[n \in Nodes] == NodeSays(n, said, scope, lexicons)
  IN  said[node]

\* What is said of the children, together.
OfChildren(node, of) == UNION {of[Children(node)[i]] : i \in DOMAIN Children(node)}

Conditions[node \in Nodes] ==
  IF Group(node) = "condition" THEN {node} ELSE OfChildren(node, Conditions)

ConditionFields(node) == {c.field : c \in Conditions[node]}

\* The collections that the conditions force the rule to go through.
Iterations(rule) ==
  (IF ConditionFields(rule.when) \cap LineFields # {} THEN {"line"} ELSE {})
  \cup (IF ConditionFields(rule.when) \cap TaxFields # {} THEN {"tax"} ELSE {})

IterationScope(rule) ==
  IF Iterations(rule) = {} THEN "document" ELSE CHOOSE s \in Iterations(rule) : TRUE

Entries(rule, invoice) ==
  CASE IterationScope(rule) = "line" -> Len(invoice.line)
    [] IterationScope(rule) = "tax" -> Len(invoice.tax)
    [] OTHER -> 1

Scope(rule, invoice, i) ==
  [invoice |-> invoice, kind |-> IterationScope(rule), index |-> i]

\* Variant: the last day of a rule still belongs to it.
AppliesThroughEnd(rule, invoice) ==
  /\ rule.scope \in {"both", invoice.direction}
  /\ IF invoice.issued = {} THEN rule.from = {} /\ rule.to = {}
     ELSE \A on \in invoice.issued :
            (\A d \in rule.from : d <= on) /\ (\A d \in rule.to : on <= d)

\* By the issue date, never by the clock; without one, only rules without
\* dates apply.
RuleApplies(rule, invoice) ==
  /\ rule.scope \in {"both", invoice.direction}
  /\ IF invoice.issued = {} THEN rule.from = {} /\ rule.to = {}
     ELSE \A on \in invoice.issued :
            (\A d \in rule.from : d <= on) /\ (\A d \in rule.to : on < d)

-----------------------------------------------------------------------------
(* Actions. *)

\* Math.round of n/d
Round(n, d) == LET sign == IF d > 0 THEN 1 ELSE -1
               IN  (2 * n * sign + d * sign) \div (2 * d * sign)

\* {} where the source throws: a field that is missing or no number, and a
\* division by zero.
Operand(o, scope, values) ==
  IF o[1] = "number" THEN {o[2]} ELSE ToNumber(o[2], scope, values)

EvaluateExpression(e, scope, values) ==
  {CASE e.op = "+" -> l + r
     [] e.op = "-" -> l - r
     [] e.op = "*" -> Round(l * r, 100)
     [] e.op = "/" -> Round(100 * l, r) :
   l \in Operand(e.left, scope, values),
   r \in {n \in Operand(e.right, scope, values) : e.op # "/" \/ n # 0}}

\* What the actions have done so far: computed values, the actions that
\* flagged, the required fields that are missing, and whether one threw.
Nothing == [values |-> NoVars, flagged |-> {}, missing |-> {}, threw |-> FALSE]

RunAction(then, scope, done, i) ==
  LET a == then[i] IN
  IF done.threw THEN done ELSE
  CASE a.action = "compute" ->
         LET result == EvaluateExpression(a.expr, scope, done.values)
         IN  [done EXCEPT !.values[a.var] = result, !.threw = result = {}]
    [] a.action = "flag" -> [done EXCEPT !.flagged = @ \cup {i}]
    [] a.action = "require_field" ->
         IF ResolveField(a.field, scope, done.values) # {} THEN done
         ELSE [done EXCEPT !.missing = @ \cup {a.field},
                           !.flagged = @ \cup (IF a.explain THEN {i} ELSE {})]
    [] OTHER -> done

RunActions(rule, scope) ==
  FoldLeft(LAMBDA done, i : RunAction(rule.then, scope, done, i), Nothing,
           [i \in 1..Len(rule.then) |-> i])

-----------------------------------------------------------------------------
(* Loading. *)

\* validateConditionValue: the kind of value that the operator needs.
ValueFits(c) ==
  /\ c.op \in {"matches_lexicon", "matches_regex"} => c.kind = "text"
  /\ c.op = "in" => c.kind \in {"list", "pair"}
  /\ c.op = "between" => c.kind = "pair"
  /\ c.op \in Comparisons \ {"between"} => c.kind = "number"
  /\ c.op = "matches_regex" => c.value \notin BadPatterns

\* loadCondition does not throw.  What it returns is the condition without what
\* nobody reads.
LoadsCondition[node \in Nodes] ==
  IF Group(node) = "condition"
  THEN node.op \in Operators /\ IsKnownField(node.field) /\ ValueFits(node)
  ELSE /\ Children(node) # <<>>
       /\ \A i \in DOMAIN Children(node) : LoadsCondition[Children(node)[i]]

ExpressionFields(e) == {o[2] : o \in {p \in {e.left, e.right} : p[1] = "field"}}

ActionLoads(a) ==
  CASE a.action = "flag" -> a.explain
    [] a.action \in {"tag", "notify"} -> a.named
    [] a.action = "compute" -> \A field \in ExpressionFields(a.expr) : IsKnownField(field)
    [] a.action = "require_field" -> IsKnownField(a.field)
    [] OTHER -> FALSE

\* What loadRule asks of a rule alone: it never claims a form error, and applies
\* to lines or to the VAT breakdown, not to both.
LoadsAlone(raw) ==
  /\ raw.shaped
  /\ raw.severity \in {"content_error", "warning", "info"}
  /\ raw.scope \in {"missing", "incoming", "outgoing", "both"}
  /\ \A from \in raw.from, to \in raw.to : from < to
  /\ LoadsCondition[raw.when]
  /\ raw.then # <<>> /\ \A i \in DOMAIN raw.then : ActionLoads(raw.then[i])
  /\ Cardinality(Iterations(raw)) <= 1

\* Variant: the lexicons that the conditions name are not looked up.
LoadsRuleLoosely(raw, lexicons) == LoadsAlone(raw)

\* loadRule does not throw.
LoadsRule(raw, lexicons) ==
  /\ LoadsAlone(raw)
  /\ \A c \in Conditions[raw.when] :
       c.op = "matches_lexicon" => ResolveLexicon(c.value, lexicons) # {}

LoadRule(raw) == [raw EXCEPT !.scope = IF @ = "missing" THEN "both" ELSE @]

\* Every rule loads, and no id is given twice.
LoadRuleSet(draft) ==
  IF /\ draft.shaped
     /\ \A i \in DOMAIN draft.rules : LoadsRule(draft.rules[i], draft.lexicons)
     /\ \A i, j \in DOMAIN draft.rules : draft.rules[i].id = draft.rules[j].id => i = j
  THEN {[lexicons |-> draft.lexicons,
         rules |-> [i \in DOMAIN draft.rules |-> LoadRule(draft.rules[i])]]}
  ELSE {}
=============================================================================
