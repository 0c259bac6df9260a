------------------------------ MODULE MCBooks ------------------------------
(* Two documents with one name, a third whose name is theirs with the       *)
(* counter, and one of the year after, whose texts hold the characters the  *)
(* formats give a meaning; account numbers right, mistyped and swapped.     *)
EXTENDS Books

MCDocs == 1..5
Right == <<13, 14, 0, 9, 0, 1>>
Mistyped == <<13, 14, 0, 9, 0, 2>>
Swapped == <<13, 14, 9, 0, 0, 1>>
Doc(issued, gross, category, number, supplier, iban) ==
  [issued |-> issued, gross |-> gross, payable |-> gross, category |-> category, rate |-> 19,
   status |-> "accepted", incoming |-> TRUE, pdf |-> FALSE, number |-> number,
   supplier |-> supplier, iban |-> iban]
MCRow ==
  << Doc(3, 119004, "S", <<"a">>, <<"b", FOLDED>>, Right),
     Doc(3, 7, "AE", <<"a">>, <<"b", "a", GREEK>>, Mistyped),
     Doc(3, NoAmount, "K", <<"a", GREEK>>, <<"b", "a", "_", "2">>, <<>>),
     [Doc(14, -50, "E", <<>>, <<NL, QUOTE, SEMI, ALIEN, GREEK, "b">>, Right)
        EXCEPT !.payable = 990, !.pdf = TRUE],
     [Doc(14, 990, "S", <<"2">>, <<"b">>, Swapped) EXCEPT !.incoming = FALSE] >>

\* The numbers <<"2">>, <<"a">>, <<"a", GREEK>>, and none at the end.
MCCollation == <<2, 2, 3, 4, 1>>

MCRequests == {"q1", "q2"}
Order1(kind, to, ids) ==
  [kind |-> kind, from |-> 1, to |-> to, fiscal |-> 1, chart |-> "SKR04", ids |-> ids,
   addressed |-> TRUE, debtor |-> "right"]
Pair(a, b) == [q \in MCRequests |-> IF q = "q1" THEN a ELSE b]
MCJobs ==
  { Pair(Order1("datev", 14, <<>>), Order1("belege", 14, <<>>)),
    Pair([Order1("datev", 10, <<>>) EXCEPT !.chart = "SKR99"], Order1("belege", 10, <<>>)),
    Pair([Order1("datev", 20, <<>>) EXCEPT !.fiscal = 25], Order1("sepa", 1, <<1, 3, 1>>)),
    Pair([Order1("datev", 20, <<>>) EXCEPT !.addressed = FALSE], Order1("sepa", 1, <<1, 2>>)),
    Pair([Order1("sepa", 1, <<1>>) EXCEPT !.debtor = "wrong"],
         [Order1("sepa", 1, <<1>>) EXCEPT !.debtor = "none"]),
    Pair(Order1("girocode", 1, <<1>>), Order1("sepa", 1, <<1, 3, 1, 3>>)),
    Pair(Order1("belege", 0, <<>>), Order1("sepa", 1, <<4, 5>>)),
    Pair(Order1("girocode", 1, <<5>>), Order1("sepa", 1, <<3>>)),
    Pair(Order1("girocode", 1, <<4>>), Order1("girocode", 1, <<2>>)),
    Pair(Order1("girocode", 1, <<3>>), Order1("sepa", 1, <<>>)) }
=============================================================================
