---------------------------- MODULE MCRuleEngine ----------------------------
(***************************************************************************)
(* Rules in the manner of rulesets/gastro-de.yaml, drafts with one mistake *)
(* each, and small invoices.                                               *)
(***************************************************************************)
EXTENDS RuleEngine

CONSTANTS payable, lineCount, reference, vatId, net, rate, text, reason, share, twice,
          milk, cola, soup, drinks, dairy, nowhere, nested

MCDocFields == {payable, lineCount, reference, vatId}
MCLineFields == {net, rate, text}
MCTaxFields == {reason}
MCVarFields == {share, twice}
MCNumberFields == {payable, lineCount, net, rate, share, twice}
MCBuiltin == [name \in {drinks, dairy} |-> IF name = drinks THEN {cola, milk} ELSE {}]
MCBadPatterns == {nested}

Leaf(field, op, kind, value) == [field |-> field, op |-> op, kind |-> kind, value |-> value]
Flag == [action |-> "flag", explain |-> TRUE]
Compute(v, op, l, r) ==
  [action |-> "compute", var |-> v, expr |-> [op |-> op, left |-> l, right |-> r]]

Rule0 == [id |-> "r", shaped |-> TRUE, severity |-> "warning", scope |-> "missing",
          from |-> {}, to |-> {}, when |-> Leaf(reference, "is_empty", "nothing", 0),
          then |-> <<Flag>>]

\* Drinks at 7 %, except milk: the gap needs the line's net amount.
BeverageRate(id, from, to) ==
  [Rule0 EXCEPT
     !.id = id, !.from = from, !.to = to,
     !.when = [all |-> <<Leaf(text, "matches_lexicon", "text", drinks),
                         Leaf(rate, "lte", "number", 700),
                         [none |-> <<Leaf(text, "matches_lexicon", "text", dairy)>>]>>],
     !.then = <<Compute(share, "*", <<"field", net>>, <<"number", 12>>), Flag>>]

\* The amount for each line, twice: two computations, the second from the first.
AmountPerLine ==
  [Rule0 EXCEPT
     !.id = "amount", !.scope = "incoming",
     !.when = [any |-> <<Leaf(payable, "gt", "number", 0),
                         Leaf(payable, "is_empty", "nothing", 0)>>],
     !.then = <<[action |-> "require_field", field |-> reference, explain |-> TRUE],
                Compute(share, "/", <<"field", payable>>, <<"field", lineCount>>),
                Compute(twice, "+", <<"field", share>>, <<"field", share>>), Flag>>]

MissingReason ==
  [Rule0 EXCEPT
     !.id = "reason", !.when = Leaf(reason, "equals", "nothing", 0),
     !.then = <<[action |-> "tag", named |-> TRUE],
                [action |-> "require_field", field |-> reason, explain |-> FALSE], Flag>>]

\* An unknown VAT id, where it is worth a look; and the same thought with none.
UnknownVatId ==
  [Rule0 EXCEPT !.id = "vies",
                !.when = [all |-> <<Leaf(vatId, "vies_valid", "boolean", FALSE),
                                    Leaf(payable, "between", "pair", <<100, 1000>>)>>]]
NotAValidVatId ==
  [Rule0 EXCEPT !.id = "none", !.when = [none |-> <<Leaf(vatId, "vies_valid", "nothing", 0)>>]]

\* Soup or cola, which no tax rate puts together.
Menu ==
  [Rule0 EXCEPT !.id = "menu",
                !.when = [any |-> <<Leaf(text, "matches_regex", "text", soup),
                                    Leaf(text, "in", "list", <<soup, cola, milk>>)>>],
                !.then = <<[action |-> "notify", named |-> TRUE], Flag>>]

Draft(rules) == [shaped |-> TRUE, rules |-> rules,
                 lexicons |-> [name \in {dairy} |-> {milk}]]

Gastro == Draft(<<BeverageRate("until", {}, {2}), BeverageRate("from", {2}, {}),
                  AmountPerLine, MissingReason, UnknownVatId>>)
Small == Draft(<<Menu, NotAValidVatId>>)

Condition(c) == [Rule0 EXCEPT !.when = c]
Action(a) == [Rule0 EXCEPT !.then = <<a>>]

\* One mistake in each.
Mistaken ==
  {Condition(Leaf(text, "matches_lexicon", "text", nowhere)),
   Condition(Leaf(text, "matches_lexicon", "number", 7)),
   Condition(Leaf(text, "matches_regex", "text", nested)),
   Condition(Leaf(text, "in", "text", cola)),
   Condition(Leaf(payable, "between", "list", <<1, 2, 3>>)),
   Condition(Leaf(payable, "gt", "text", soup)),
   Condition(Leaf(nowhere, "is_empty", "nothing", 0)),
   Condition(Leaf(text, "near", "text", soup)),
   Condition([all |-> <<>>]),
   Condition([all |-> <<Leaf(rate, "lt", "number", 700),
                        Leaf(reason, "is_empty", "nothing", 0)>>]),
   Action([Flag EXCEPT !.explain = FALSE]),
   Action(Compute(share, "*", <<"field", nowhere>>, <<"number", 12>>)),
   Action([action |-> "require_field", field |-> nowhere, explain |-> TRUE]),
   Action([action |-> "delete"]),
   [Rule0 EXCEPT !.severity = "form_error"],
   [Rule0 EXCEPT !.from = {2}, !.to = {2}]}

MCDrafts == {Gastro, Small, Draft(<<Menu, Menu>>)} \cup {Draft(<<r>>) : r \in Mistaken}

\* The conditions of the drafts, the inner ones too.
RECURSIVE Within(_)
Within(node) == {node} \cup UNION {Within(child) : child \in Range(Children(node))}

RECURSIVE HeightOf(_)
HeightOf(node) ==
  IF Children(node) = <<>> THEN 0
  ELSE 1 + Max({HeightOf(child) : child \in Range(Children(node))})

MCNodes == UNION {Within(rule.when) : rule \in UNION {Range(d.rules) : d \in MCDrafts}}
MCHeight == [node \in MCNodes |-> HeightOf(node)]

Line(n, t) == [f \in MCLineFields |-> CASE f = net -> n [] f = rate -> {700} [] OTHER -> {t}]

MCInvoices ==
  {[issued |-> issued, direction |-> direction, vies |-> vies, line |-> lines, tax |-> taxes,
    doc |-> [f \in MCDocFields |->
               CASE f = payable -> due [] f = lineCount -> {100 * Len(lines)}
                 [] f = vatId -> {cola} [] OTHER -> {}]] :
     issued \in {{}, {1}, {2}}, direction \in {"incoming", "outgoing"},
     vies \in {{}, {FALSE}}, due \in {{}, {900}},
     lines \in {<<>>, <<Line({500}, milk), Line({500}, cola)>>,
                <<Line({500}, cola), Line({}, cola)>>},
     taxes \in {<<[f \in MCTaxFields |-> {}]>>}}
=============================================================================
