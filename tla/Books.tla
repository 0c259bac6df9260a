------------------------------- MODULE Books -------------------------------
(***************************************************************************)
(* The month-end hand-over of one tenant: the Buchungsstapel               *)
(* (packages/datev, apps/api/src/datev.ts), the bundle of originals        *)
(* (packages/beleg-export, apps/api/src/belege.ts) and the payment data    *)
(* (packages/payments, apps/api/src/payments.ts), made by requests that    *)
(* run beside the worker that inserts documents and an object store whose  *)
(* objects fail, go or change.                                             *)
(*                                                                         *)
(* A text is a sequence of tokens: letters, the characters a format gives  *)
(* a meaning (line break, semicolon, quote), a character Windows-1252      *)
(* lacks, one that no folding helps, and one that is folded to a semicolon *)
(* (U+037E).  Days are numbers, of which YearLength make a year; money is  *)
(* in tenths of a cent.                                                    *)
(***************************************************************************)
EXTENDS Integers, Sequences, FiniteSets, SequencesExt, FiniteSetsExt, TLC

CONSTANTS
  Docs,          \* document ids, numbers: their order is that of the ids
  Row,           \* [Docs -> Document]: the row of `documents`, parsed included
  Requests,      \* export requests
  Collation,     \* [Docs -> Nat]: where the invoice number stands in an ORDER BY
  Jobs,          \* a set of [Requests -> Order]: the bodies they may have
  Late,          \* the documents that come while the requests run
  Fragile,       \* the documents whose object may fail
  YearLength,    \* days of a year
  TextLimit,     \* 60 in DATEV's Buchungstext, 70 in a payment's name
  MaxEntries,    \* 0xffff in a ZIP without Zip64
  MinIban,       \* 15, the shortest account number
  MaxIban,       \* 34, the longest
  MaxAmount,     \* 999999999.99 in a GiroCode, in cents
  MaxTransfers,  \* 500 documents in a payment file
  MaxPayload     \* 331, bytes of a GiroCode

NL == "nl"    SEMI == ";"    QUOTE == "quote"    FOLDED == "s-cedilla"    ALIEN == "alien"
GREEK == "greek question mark"
Letters == {"a", "b", "_", "2"}
Text == Seq(Letters \cup {NL, SEMI, QUOTE, FOLDED, ALIEN, GREEK})
NoAmount == -1000000           \* total_gross, or the payable amount, is NULL
NoDay == 0                     \* issued_at is NULL

Document ==
  [issued : Nat, gross : Int, payable : Int, category : STRING, rate : Int,
   status : {"accepted", "rejected", "not_einvoice"}, incoming : BOOLEAN,
   pdf : BOOLEAN, number : Text, supplier : Text, iban : Seq(0..35)]
Order ==
  [kind : {"datev", "belege", "sepa", "girocode"}, from : Nat, to : Nat,
   fiscal : Nat, chart : STRING, ids : Seq(Docs), addressed : BOOLEAN,
   debtor : {"none", "wrong", "right"}]

ASSUME RowAssumption == Row \in [Docs -> Document] /\ Jobs \subseteq [Requests -> Order]
ASSUME CollationAssumption == Collation \in [Docs -> Nat]
ASSUME BoundAssumption ==
  /\ {YearLength, TextLimit, MaxEntries, MinIban, MaxIban, MaxAmount, MaxTransfers, MaxPayload} \subseteq Nat \ {0}
  /\ MinIban >= 4             \* the country and the check digits are always there
  /\ Docs \subseteq Nat \ {0} /\ IsFiniteSet(Docs)
\* Two counters of a name are written differently.
ASSUME CounterAssumption ==
  \A m, n \in 1..(Cardinality(Docs) + 2) : ToString(m) = ToString(n) => m = n

\* A number is written with digits.
ASSUME NumeralAssumption ==
  \A n \in 1..(Cardinality(Docs) + 2) \cup Docs \cup {Row[d].issued : d \in Docs} :
    ToString(n) \notin {NL, SEMI, QUOTE, GREEK}

VARIABLES
  documents,     \* the inserted documents
  object,        \* what a read of a document's raw_object_key finds
  req,           \* the export requests
  job            \* the body of each
vars == <<documents, object, req, job>>

---------------------------------------------------------------------------
(* Text *)

Replace(s, bad, by) == [i \in 1..Len(s) |-> IF s[i] \in bad THEN by ELSE s[i]]
Cut(s, max) == SubSeq(s, 1, IF Len(s) < max THEN Len(s) ELSE max)
Concat(parts) == FoldLeft(LAMBDA a, b : a \o b, <<>>, parts)
Join(parts, by) ==
  IF parts = <<>> THEN <<>>
  ELSE FoldLeft(LAMBDA a, b : a \o <<by>> \o b, Head(parts), Tail(parts))

\* cp1252.ts: a character Windows-1252 lacks is folded to what ASCII has of its
\* decomposition, and to a question mark where that is nothing.  Of a letter it
\* is the letter; of U+037E it is the semicolon.
EncodeCp1252(s) ==
  [i \in 1..Len(s) |-> CASE s[i] = FOLDED -> "a" [] s[i] = ALIEN -> "?"
                         [] s[i] = GREEK -> SEMI [] OTHER -> s[i]]

\* Variant: the quotes inside are kept.
QuotedAsIs(s) ==
  <<QUOTE>> \o Cut(Replace(Replace(s, {NL}, " "), {SEMI}, ","), TextLimit) \o <<QUOTE>>

\* extf.ts, text: always quoted, and nothing inside can end field or line.
Quoted(s) ==
  <<QUOTE>>
    \o Cut(Replace(Replace(Replace(s, {NL}, " "), {QUOTE}, "'"), {SEMI}, ","), TextLimit)
    \o <<QUOTE>>

\* manifest.ts, field: quoted only where needed, the quotes inside doubled.
Field(s) ==
  IF ToSet(s) \cap {QUOTE, SEMI, NL} = {} THEN s
  ELSE <<QUOTE>>
         \o Concat([i \in 1..Len(s) |-> IF s[i] = QUOTE THEN <<QUOTE, QUOTE>> ELSE <<s[i]>>])
         \o <<QUOTE>>

\* What stands at the given positions of a text, in their order.
At(s, positions) ==
  [k \in 1..Cardinality(positions) |->
     s[CHOOSE i \in positions : Cardinality({j \in positions : j < i}) = k - 1]]

\* names.ts, slug: an allowlist; a run of anything else is one hyphen, and
\* none is left at either end.
Slug(s) ==
  LET folded == Replace(Replace(s, {FOLDED}, "a"), {NL, SEMI, QUOTE, ALIEN, GREEK}, "-")
      kept == {i \in 1..Len(s) :
                 folded[i] = "-" => /\ i > 1 /\ folded[i - 1] # "-"
                                    /\ \E j \in i..Len(s) : folded[j] # "-"}
  IN Cut(At(folded, kept), TextLimit)

\* girocode.ts, clean: a line break would shift every element after it.
Clean(s) == Cut(Replace(s, {NL}, " "), TextLimit)

\* sepa.ts, sepaText: the Latin subset, everything else a space.
SepaText(s) ==
  Cut(Replace(Replace(s, {FOLDED}, "a"), {NL, SEMI, QUOTE, ALIEN, GREEK}, " "), TextLimit)

---------------------------------------------------------------------------
(* The listings *)

InPeriod(d, o) == Row[d].issued # NoDay /\ Row[d].issued \in o.from..o.to /\ Row[d].incoming

Sooner(a, b) == \/ Row[a].issued < Row[b].issued
                \/ Row[a].issued = Row[b].issued /\ Collation[a] < Collation[b]

\* documents.ts, the bundle: ORDER BY issued_at, invoice_number, id.
Before(a, b) == Sooner(a, b) \/ (~Sooner(b, a) /\ a < b)
InOrder(S) ==
  [k \in 1..Cardinality(S) |-> CHOOSE d \in S : Cardinality({e \in S : Before(e, d)}) = k - 1]
ListBelegeForBundle(o) == InOrder({d \in documents : InPeriod(d, o)})

\* documents.ts, the Buchungsstapel: the same range, but ORDER BY issued_at,
\* invoice_number: rows that agree in both come in any order.
InSomeOrder(S) ==
  {s \in [1..Cardinality(S) -> S] :
     ToSet(s) = S /\ \A i, j \in 1..Cardinality(S) : i < j => ~Sooner(s[j], s[i])}
ListDocumentsForExport(o) == {d \in documents : InPeriod(d, o)}

---------------------------------------------------------------------------
(* DATEV *)

Year(day) == (day - 1) \div YearLength
DayOfYear(day) == (day - 1) % YearLength
Abs(n) == IF n < 0 THEN -n ELSE n
RoundCents(mills) == (mills + 5) \div 10

\* accounts.ts: the charts, and the tenant's chart with SKR03 as the fallback.
Charts ==
  [SKR03 |-> [rates |-> (19 :> 3400 @@ 7 :> 3300 @@ 0 :> 3200), default |-> 3200,
              payables |-> 1600, reverseCharge |-> 3120, intraCommunity |-> 3425,
              exempt |-> 3100],
   SKR04 |-> [rates |-> (19 :> 5400 @@ 7 :> 5300 @@ 0 :> 5200), default |-> 5200,
              payables |-> 3300, reverseCharge |-> 5120, intraCommunity |-> 5425,
              exempt |-> 5100]]
ChartFor(name) == IF name \in DOMAIN Charts THEN name ELSE "SKR03"

\* accounts.ts: the VAT category decides before the rate.
ChooseAccounts(chart, d) ==
  LET choice(account, key) ==
        [account |-> account, contra |-> chart.payables, key |-> key]
  IN CASE Row[d].category = "AE" -> choice(chart.reverseCharge, "94")
       [] Row[d].category = "K" -> choice(chart.intraCommunity, "91")
       [] Row[d].category \in {"E", "G", "Z", "O"} -> choice(chart.exempt, "")
       [] OTHER -> choice(IF Row[d].rate \in DOMAIN chart.rates THEN chart.rates[Row[d].rate]
                          ELSE chart.default, "")

\* datev.ts: what is a posting, and why the others are not.
Postable(d) == Row[d].gross # NoAmount /\ Row[d].issued # NoDay /\ Row[d].status # "not_einvoice"

\* extf.ts: the posting of a document; the columns the text fields could shift
\* stand for the 125.
BookingOf(d, chart) ==
  [doc |-> d, amount |-> Abs(RoundCents(Row[d].gross)), flag |-> "S",
   accounts |-> ChooseAccounts(Charts[chart], d), ddmm |-> DayOfYear(Row[d].issued),
   line |-> EncodeCp1252(Join(<<<<"amount">>, <<"S">>, <<"account">>, Quoted(Row[d].number),
                                Quoted(Row[d].supplier), <<"locked">>>>, SEMI))]
Width == 6

\* extf.ts: a posting of a year the header does not imply fails the whole file.
InFiscalYears(d, o) == Year(Row[d].issued) \in {Year(o.fiscal), Year(o.fiscal) + 1}

---------------------------------------------------------------------------
(* The bundle *)

\* names.ts: the date, then number and supplier; the id where there is neither.
Stem[d \in Docs] ==
  LET number == Slug(Row[d].number)
      supplier == Slug(Row[d].supplier)
      joined == IF number = <<>> \/ supplier = <<>> THEN <<>> ELSE <<"_">>
  IN <<ToString(Row[d].issued), "_">>
       \o (IF number = <<>> /\ supplier = <<>> THEN <<"id", ToString(d)>>
           ELSE number \o joined \o supplier)
ExtensionFor(d) == IF Row[d].pdf THEN <<".pdf">> ELSE <<".xml">>

\* names.ts: a counter from 2 until nothing in the bundle has the name.
EntryName(d, taken) ==
  LET candidate(n) ==
        Stem[d] \o (IF n = 1 THEN <<>> ELSE <<"_", ToString(n)>>) \o ExtensionFor(d)
      free == {n \in 1..(1 + Cardinality(taken)) : candidate(n) \notin taken}
  IN candidate(Min(free))

ManifestName == <<"00_Belegverzeichnis", ".csv">>

\* manifest.ts: one line for every document, in the bundle or not.
ManifestLine(row) ==
  EncodeCp1252(Join(<<row.name, Field(Row[row.doc].number), Field(Row[row.doc].supplier),
                      <<ToString(Row[row.doc].issued)>>, <<row.note>>>>, SEMI))
ManifestWidth == 5

---------------------------------------------------------------------------
(* Payments *)

\* iban.ts: digit by digit, because a number of 34 characters is not exact; a
\* letter counts for two digits.
IbanChecksum(iban) ==
  FoldLeft(LAMBDA rest, v : IF v > 9 THEN (rest * 100 + v) % 97 ELSE (rest * 10 + v) % 97,
           0, SubSeq(iban, 5, Len(iban)) \o SubSeq(iban, 1, 4))

IsValidIban(iban) ==
  /\ Len(iban) \in MinIban..MaxIban
  /\ iban[1] > 9 /\ iban[2] > 9 /\ iban[3] <= 9 /\ iban[4] <= 9
  /\ IbanChecksum(iban) = 1

\* payments.ts, paymentSource: everything from the parsed invoice.
HasPaymentDetails(d) == Row[d].iban # <<>> /\ Row[d].payable # NoAmount

\* girocode.ts: the elements, one to a line; the empty ones at the end go.
GiroCode[d \in Docs] ==
  LET elements == <<<<"BCD">>, <<"002">>, <<"1">>, <<"SCT">>, <<>>, Clean(Row[d].supplier),
                    <<"iban">>, <<"amount">>, <<>>, <<>>, Clean(Row[d].number)>>
  IN Join(SubSeq(elements, 1, Max({i \in DOMAIN elements : elements[i] # <<>>})), NL)
Encodable[d \in Docs] ==
  /\ IsValidIban(Row[d].iban) /\ Row[d].supplier # <<>>
  /\ RoundCents(Row[d].payable) \in 1..MaxAmount
  /\ Len(GiroCode[d]) <= MaxPayload

\* sepa.ts: an instruction, with its amount rounded to the cent.
Transfer[d \in Docs] ==
  [doc |-> d, valid |-> IsValidIban(Row[d].iban),
   amount |-> RoundCents(Row[d].payable),
   name |-> SepaText(Row[d].supplier)]

---------------------------------------------------------------------------
(* The requests *)

Fresh == [at |-> "idle", seen |-> {}, todo |-> <<>>, out |-> <<>>, rows |-> <<>>,
          skipped |-> {}, code |-> 0]
Answer(q, code) == req' = [req EXCEPT ![q].at = "done", ![q].code = code]
Step(q, at, kind) == req[q].at = at /\ job[q].kind = kind
Period(o) == o.from <= o.to
UnchangedWorld == UNCHANGED <<documents, object, job>>

\* datev.ts: the listing and the file are one transaction; a posting that
\* cannot be built refuses the whole file.  What the accounts depend on is the
\* first entry of the parsed tax breakdown.
DatevExport(q) ==
  LET o == job[q]
      listing == ListDocumentsForExport(o)
      postings == {d \in listing : Postable(d)}
  IN /\ Step(q, "idle", "datev")
     /\ \/ /\ ~Period(o) \/ ~o.addressed
           /\ Answer(q, 400)
        \/ /\ Period(o) /\ o.addressed
           /\ \E d \in postings : ~InFiscalYears(d, o)
           /\ Answer(q, 422)
        \/ /\ Period(o) /\ o.addressed
           /\ \A d \in postings : InFiscalYears(d, o)
           /\ \E rows \in InSomeOrder(postings) :
                req' = [req EXCEPT ![q] =
                  [@ EXCEPT !.at = "done", !.code = 200, !.seen = documents,
                     !.out = [i \in 1..Len(rows) |-> BookingOf(rows[i], ChartFor(o.chart))],
                     !.skipped = listing \ postings]]
     /\ UnchangedWorld

\* belege.ts: the listing is a transaction of its own, over before any object
\* is read.
BundleList(q) ==
  LET o == job[q]
      listing == ListBelegeForBundle(o)
  IN /\ Step(q, "idle", "belege")
     /\ \/ ~Period(o) /\ Answer(q, 400)
        \/ Period(o) /\ listing = <<>> /\ Answer(q, 404)
        \/ /\ Period(o) /\ listing # <<>>
           /\ req' = [req EXCEPT ![q] =
                        [@ EXCEPT !.at = "reading", !.seen = documents, !.todo = listing]]
     /\ UnchangedWorld

\* Variant: what could be read is an original.
ReasonUnhashed(found) ==
  CASE found = "gone" -> "not_in_storage" [] found = "down" -> "read_failed" [] OTHER -> ""

\* bundle.ts: why a document is left out.
SkipReason(found) ==
  CASE found = "gone" -> "not_in_storage"
    [] found = "down" -> "read_failed"
    [] found = "changed" -> "hash_mismatch"
    [] OTHER -> ""

\* Variant: what is taken is the name without its counter.
StemsTaken(q) ==
  {Stem[req[q].out[i].doc] \o ExtensionFor(req[q].out[i].doc) : i \in DOMAIN req[q].out}
    \cup {ManifestName}

Taken(q) == {req[q].out[i].name : i \in DOMAIN req[q].out} \cup {ManifestName}

\* Variant: a document that is not in storage is passed over.
BundleReadSilently(q) ==
  LET r == req[q]
      d == Head(r.todo)
      found == SkipReason(object[d])
      row == [doc |-> d, note |-> "", name |-> EntryName(d, Taken(q))]
  IN /\ Step(q, "reading", "belege") /\ req[q].todo # <<>>
     /\ req' = [req EXCEPT ![q] =
          [@ EXCEPT !.todo = Tail(r.todo),
             !.rows = IF found = "" THEN Append(r.rows, row) ELSE r.rows,
             !.out = IF found = "" THEN Append(r.out, [doc |-> d, name |-> row.name])
                     ELSE r.out]]
     /\ UnchangedWorld

\* bundle.ts: one document of the loop, read, hashed, and put in or named.
BundleRead(q) ==
  LET r == req[q]
      d == Head(r.todo)
      reason == SkipReason(object[d])
      name == EntryName(d, Taken(q))
      row == [doc |-> d, note |-> reason, name |-> IF reason = "" THEN name ELSE <<>>]
  IN /\ Step(q, "reading", "belege") /\ req[q].todo # <<>>
     /\ req' = [req EXCEPT ![q] =
          [@ EXCEPT !.todo = Tail(r.todo), !.rows = Append(r.rows, row),
             !.out = IF reason = "" THEN Append(r.out, [doc |-> d, name |-> name]) ELSE r.out]]
     /\ UnchangedWorld

\* zip.ts: the manifest counts too; a ZipError is not a BundleError, and leaves
\* the handler as a 500.
Packed(q) == <<[doc |-> 0, name |-> ManifestName]>> \o req[q].out

Fits(entries) == Len(entries) <= MaxEntries
BundlePack(q) ==
  /\ Step(q, "reading", "belege") /\ req[q].todo = <<>>
  /\ IF ~Fits(Packed(q)) THEN Answer(q, 500)
     ELSE req' = [req EXCEPT ![q] = [@ EXCEPT !.at = "done", !.code = 200, !.out = Packed(q)]]
  /\ UnchangedWorld

\* payments.ts: a list that is not too long and the debtor's account are asked
\* for; the documents are read one statement at a time.
SepaStart(q) ==
  /\ Step(q, "idle", "sepa")
  /\ IF Len(job[q].ids) \notin 1..MaxTransfers \/ job[q].debtor = "none" THEN Answer(q, 400)
     ELSE req' = [req EXCEPT ![q].at = "paying", ![q].todo = job[q].ids]
  /\ UnchangedWorld

SepaTake(q) ==
  LET r == req[q]
      d == Head(r.todo)
      payable == d \in documents /\ HasPaymentDetails(d)
  IN /\ Step(q, "paying", "sepa") /\ req[q].todo # <<>>
     /\ req' = [req EXCEPT ![q] =
          [@ EXCEPT !.todo = Tail(r.todo),
             !.out = IF payable THEN Append(r.out, Transfer[d]) ELSE r.out,
             !.skipped = IF payable THEN r.skipped ELSE r.skipped \cup {d}]]
     /\ UnchangedWorld

\* sepa.ts: the debtor's account, one bad account number, or an amount that is
\* not positive, refuses the whole file.
Unbuildable(debtor, transfers) ==
  debtor = "wrong" \/ \E t \in ToSet(transfers) : ~t.valid \/ t.amount <= 0

SepaBuild(q) ==
  /\ Step(q, "paying", "sepa") /\ req[q].todo = <<>>
  /\ Answer(q, CASE req[q].out = <<>> -> 409
                 [] req[q].out # <<>> /\ Unbuildable(job[q].debtor, req[q].out) -> 422
                 [] OTHER -> 200)
  /\ UnchangedWorld

GiroCodeExport(q) ==
  LET d == job[q].ids[1]
  IN /\ Step(q, "idle", "girocode")
     /\ \/ d \notin documents /\ Answer(q, 404)
        \/ d \in documents /\ ~HasPaymentDetails(d) /\ Answer(q, 409)
        \/ d \in documents /\ HasPaymentDetails(d) /\ ~Encodable[d] /\ Answer(q, 422)
        \/ /\ d \in documents /\ HasPaymentDetails(d) /\ Encodable[d]
           /\ req' = [req EXCEPT ![q] = [@ EXCEPT !.at = "done", !.code = 200,
                                                  !.out = <<Transfer[d]>>]]
     /\ UnchangedWorld

Export(q) ==
  \/ DatevExport(q) \/ BundleList(q) \/ BundleRead(q) \/ BundlePack(q)
  \/ SepaStart(q) \/ SepaTake(q) \/ SepaBuild(q) \/ GiroCodeExport(q)

---------------------------------------------------------------------------
(* Beside them *)

\* The worker's commit; the row and the bytes of a document never change.
Insert(d) ==
  /\ d \notin documents
  /\ documents' = documents \cup {d}
  /\ UNCHANGED <<object, req, job>>

\* What can happen to an object: lost, changed, or out of reach for a while.
ObjectFails(d) ==
  /\ d \in documents \cap Fragile /\ object[d] = "same"
  /\ \E found \in {"gone", "changed", "down"} : object' = [object EXCEPT ![d] = found]
  /\ UNCHANGED <<documents, req, job>>
ObjectReturns(d) ==
  /\ object[d] = "down"
  /\ object' = [object EXCEPT ![d] = "same"]
  /\ UNCHANGED <<documents, req, job>>

Init ==
  /\ documents = Docs \ Late
  /\ object = [d \in Docs |-> "same"]
  /\ req = [q \in Requests |-> Fresh]
  /\ job \in Jobs

Finished == /\ \A q \in Requests : req[q].at = "done"
            /\ UNCHANGED vars
Next ==
  \/ \E q \in Requests : Export(q)
  \/ \E d \in Docs : Insert(d) \/ ObjectFails(d) \/ ObjectReturns(d)
  \/ Finished

\* Node runs a handler to its answer: the reads of the database and the store
\* return or throw.
Spec == Init /\ [][Next]_vars

---------------------------------------------------------------------------
(* Properties *)

Delivered(q, kind) == job[q].kind = kind /\ req[q].code = 200
DocsOf(s) == {s[i].doc : i \in DOMAIN s}

\* types.ts: "Nothing goes missing quietly": a Buchungsstapel books or names
\* every document of the period its snapshot had, and a bundle's manifest has a
\* line for each, of which exactly the ones without a note are in the ZIP.  So what
\* is booked has its Beleg in each bundle of the period that was listed later.
NothingGoesMissing ==
  \A q \in Requests :
    LET expected == {d \in req[q].seen : InPeriod(d, job[q])} IN
    /\ Delivered(q, "datev") => DocsOf(req[q].out) \cup req[q].skipped = expected
    /\ Delivered(q, "belege") =>
         /\ DocsOf(req[q].rows) = expected /\ Len(req[q].rows) = Cardinality(expected)
         /\ DocsOf(Tail(req[q].out)) = {r.doc : r \in {x \in ToSet(req[q].rows) : x.note = ""}}

\* names.ts: no two entries have one name, and none has the manifest's, though
\* a counter can meet a supplier whose name ends in it.
EntriesHaveTheirOwnNames ==
  \A q \in Requests :
    Delivered(q, "belege") =>
      \A i, j \in DOMAIN req[q].out :
        i # j => req[q].out[i].name # req[q].out[j].name

\* types.ts: "The bytes are the archived originals, unchanged": a document goes
\* into a ZIP in a step that finds its archived bytes.
OnlyOriginalsAreHandedOver ==
  [][\A q \in Requests :
       job[q].kind = "belege" =>
         \A d \in DocsOf(req'[q].out) \ DocsOf(req[q].out) : d = 0 \/ object[d] = "same"]_vars

\* extf.ts: "a short row fails the whole file": whatever a supplier's name holds,
\* a reader that minds the quotes finds the columns of a posting where they were
\* put.  manifest.ts:55 means the same of its own lines, but asks for separators
\* before the text is encoded: each U+037E of a field that was left unquoted is
\* a column too many there, and nothing else is.
Separators(line) ==
  {i \in DOMAIN line :
     line[i] = SEMI /\ Cardinality({j \in 1..i : line[j] = QUOTE}) % 2 = 0}
Splits(text) ==
  IF ToSet(text) \cap {QUOTE, SEMI, NL} = {}
  THEN Cardinality({i \in 1..Len(text) : text[i] = GREEK}) ELSE 0
LinesKeepTheirColumns ==
  \A q \in Requests :
    /\ Delivered(q, "datev") =>
         \A i \in DOMAIN req[q].out : Cardinality(Separators(req[q].out[i].line)) = Width - 1
    /\ Delivered(q, "belege") =>
         \A i \in DOMAIN req[q].rows :
           LET row == req[q].rows[i] IN
           Cardinality(Separators(ManifestLine(row))) =
             ManifestWidth - 1 + Splits(Row[row.doc].number) + Splits(Row[row.doc].supplier)

\* girocode.ts: "the amount would be read as the IBAN": by lines, the account
\* number is the seventh element and the amount the eighth.
ScannedAsMeant ==
  \A q \in Requests :
    Delivered(q, "girocode") =>
      LET code == GiroCode[job[q].ids[1]]
          lineOf(token) == 1 + Cardinality({j \in 1..SelectInSeq(code, LAMBDA x : x = token) :
                                              code[j] = NL})
      IN lineOf("iban") = 7 /\ lineOf("amount") = 8

\* iban.ts: the checksum is that of the whole number: an account number in a
\* file or a code is one of which no digit was mistyped and no two were swapped.
Whole(iban) ==
  FoldLeft(LAMBDA n, v : IF v > 9 THEN n * 100 + v ELSE n * 10 + v, 0,
           SubSeq(iban, 5, Len(iban)) \o SubSeq(iban, 1, 4))
PaysOnlyToRealAccounts ==
  \A q \in Requests :
    Delivered(q, "sepa") \/ Delivered(q, "girocode") =>
      \A t \in ToSet(req[q].out) : Whole(Row[t.doc].iban) % 97 = 1 /\ t.amount > 0

\* zip.ts: "A bundle that would need Zip64 is refused": the count that is written
\* is one that 16 bits hold, the manifest included.
EntryCountFits ==
  \A q \in Requests : Delivered(q, "belege") => Len(req[q].out) <= MaxEntries

\* What is handed over is read by another program as what it was written for:
\* the columns of a posting, the elements of a code, the account numbers and the
\* number of entries survive whatever a supplier or a user wrote, and so do the
\* columns of a manifest but for the character that becomes a semicolon.
ReadAsWritten ==
  LinesKeepTheirColumns /\ ScannedAsMeant /\ PaysOnlyToRealAccounts /\ EntryCountFits
=============================================================================
