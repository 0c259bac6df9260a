----------------------------- MODULE DokuProofs -----------------------------
(* Theorems about Doku: the chain of fassungen, for any number of requests,  *)
(* documents, days and configurations.                                       *)
EXTENDS Doku, SequenceTheorems, TLAPS

-----------------------------------------------------------------------------
(* The inductive invariant *)

Places == {"started", "probed", "gathering", "inserted", "answered", "over", "lost"}

\* The records, for the hashes H that were taken so far.
InputOf(H) ==
  [version : Nat, previousHash : SUBSET H, health : Nat, documents : Nat,
   versionsInArchive : SUBSET Nat, checked : Nat, sealedDays : Nat, latestRoot : SUBSET Nat]
Rows(H) == [version : Nat, contentHash : H, prevHash : SUBSET H, facts : InputOf(H)]
Request(H) == [at : Places, next : 1..6, input : InputOf(H), reply : {0, 201, 500}]

Shape(H) == req \in [Requests -> Request(H)] /\ fassungen \in Seq(Rows(H))
World ==
  /\ documents \in 0..MaxDocuments /\ checked \in 0..MaxDocuments
  /\ judged \subseteq Configs \cup {Unavailable}
  /\ sealed \in 0..MaxDays
  /\ sidecar \in Configs \cup {Unreachable}

N == Len(fassungen)
USE DEF N

\* What is on record was stated by a system that has only grown since.
OfThisSystem(stated) ==
  /\ stated.documents <= documents /\ stated.sealedDays <= sealed
  /\ stated.versionsInArchive \subseteq judged
  /\ stated.checked <= checked

Later(before, after) ==
  /\ before.documents <= after.documents
  /\ before.sealedDays <= after.sealedDays
  /\ before.versionsInArchive \subseteq after.versionsInArchive
  /\ before.checked <= after.checked

RootFits(stated) ==
  /\ stated.sealedDays > 0 => stated.latestRoot # {}
  /\ \A root \in stated.latestRoot : root >= stated.sealedDays

\* What the request has gathered so far is no less than the fassung it follows
\* states.
GatheredLater(before, r) ==
  /\ r.next > 1 => before.documents <= r.input.documents
  /\ r.next > 2 => before.versionsInArchive \subseteq r.input.versionsInArchive
  /\ r.next > 3 => before.checked <= r.input.checked
  /\ r.next > 4 => before.sealedDays <= r.input.sealedDays

Numbered(r) == r.at \in {"gathering", "inserted", "answered"}
Holding(r) == r.at \in {"inserted", "answered"}

RowInv(i) ==
  /\ fassungen[i].version = i
  /\ OfThisSystem(fassungen[i].facts)
  /\ RootFits(fassungen[i].facts)
  /\ fassungen[i].prevHash = IF i = 1 THEN {} ELSE {fassungen[i - 1].contentHash}

ReqInv(q) ==
  /\ OfThisSystem(req[q].input)
  /\ req[q].input.version \in 0..N + 1
  /\ req[q].at \in {"started", "probed"} => req[q].next = 1
  /\ req[q].at \in {"started", "probed", "gathering", "inserted"} => req[q].reply = 0
  /\ req[q].reply = 500 /\ req[q].at = "over" => Taken(req[q].input.version)
  /\ req[q].reply = 201 =>
       \/ req[q].at \in {"answered", "lost"}
       \/ \E i \in 1..N : fassungen[i].facts = req[q].input
  /\ req[q].next > 5 => RootFits(req[q].input)
  /\ Numbered(req[q]) =>
       /\ req[q].input.version >= 1
       /\ (req[q].input.version = 1) <=> (req[q].input.previousHash = {})
       /\ req[q].input.version > 1 =>
            req[q].input.previousHash = {fassungen[req[q].input.version - 1].contentHash}
       /\ \A i \in 1..N : i < req[q].input.version => GatheredLater(fassungen[i].facts, req[q])
  /\ Holding(req[q]) => req[q].input.version = N + 1 /\ req[q].next = 6

IInv ==
  /\ World
  /\ \E H : Shape(H)
  /\ \A i \in 1..N : RowInv(i)
  /\ \A i, j \in 1..N : i < j => Later(fassungen[i].facts, fassungen[j].facts)
  /\ \A q \in Requests : ReqInv(q)
  /\ \A p, q \in Requests : Holding(req[p]) /\ Holding(req[q]) => p = q

-----------------------------------------------------------------------------
(* What the text of the documentation is made of *)

LEMMA BodyOfSection ==
  ASSUME NEW id, NEW coverage, NEW body, NEW facts, NEW open
  PROVE  Section(id, coverage, body, facts, open).body = body
BY DEF Section

\* sections.ts: no paragraph has a word of the author's that the lint refuses.
LEMMA NothingFound == Findings = {}
<1>. DEFINE Clean(body) == \A i \in 1..Len(body) : body[i].authored = {}
<1>a. \A data : Prose(data).authored = {}
  BY DEF Prose
<1>b. Plain.authored = {}
  BY DEF Plain
<1>1. Clean(AllgemeineBeschreibung(NoInput).body)
  <2>1. AllgemeineBeschreibung(NoInput).body = <<Prose(Tenant.name), Plain, Plain>>
    BY BodyOfSection DEF AllgemeineBeschreibung
  <2>2. Clean(<<Prose(Tenant.name), Plain, Plain>>)
    BY <1>a, <1>b
  <2>3. QED
    BY <2>1, <2>2
<1>2. Clean(Belegeingang(NoInput).body)
  <2>1. Belegeingang(NoInput).body = <<Prose(Address), Plain, Plain, Plain>>
    BY BodyOfSection DEF Belegeingang
  <2>2. Clean(<<Prose(Address), Plain, Plain, Plain>>)
    BY <1>a, <1>b
  <2>3. QED
    BY <2>1, <2>2
<1>3. Clean(PruefungDesBelegs(NoInput).body)
  <2>1. PruefungDesBelegs(NoInput).body = <<Plain, Plain, Plain, Plain, Plain>>
    BY BodyOfSection DEF PruefungDesBelegs
  <2>2. Clean(<<Plain, Plain, Plain, Plain, Plain>>)
    BY <1>a, <1>b
  <2>3. QED
    BY <2>1, <2>2
<1>4. Clean(Zugriffsrechte(NoInput).body)
  <2>1. Zugriffsrechte(NoInput).body = <<Plain, Plain, Plain>>
    BY BodyOfSection DEF Zugriffsrechte
  <2>2. Clean(<<Plain, Plain, Plain>>)
    BY <1>a, <1>b
  <2>3. QED
    BY <2>1, <2>2
<1>5. Clean(Aufbewahrung(NoInput).body)
  <2>1. Aufbewahrung(NoInput).body = <<Plain, Prose(Storage.objectLockMode), Plain, Plain>>
    BY BodyOfSection DEF Aufbewahrung
  <2>2. Clean(<<Plain, Prose(Storage.objectLockMode), Plain, Plain>>)
    BY <1>a, <1>b
  <2>3. QED
    BY <2>1, <2>2
<1>6. Clean(Systemdokumentation(NoInput).body)
  <2>1. Systemdokumentation(NoInput).body = <<Plain, Plain>>
    BY BodyOfSection DEF Systemdokumentation
  <2>2. Clean(<<Plain, Plain>>)
    BY <1>a, <1>b
  <2>3. QED
    BY <2>1, <2>2
<1>7. Clean(HistorySection(NoInput).body)
  <2>1. HistorySection(NoInput).body = <<Plain, Plain, Prose({})>>
    BY BodyOfSection DEF HistorySection
  <2>2. Clean(<<Plain, Plain, Prose({})>>)
    BY <1>a, <1>b
  <2>3. QED
    BY <2>1, <2>2
<1>8. Len(Sections(NoInput)) = 7 /\ \A s \in 1..7 : Clean(Sections(NoInput)[s].body)
  BY <1>1, <1>2, <1>3, <1>4, <1>5, <1>6, <1>7 DEF Sections
<1>9. QED
  BY <1>8 DEF Findings, LintDocument

-----------------------------------------------------------------------------
(* The initial states *)

LEMMA RowShape ==
  ASSUME NEW H, NEW input \in InputOf(H)
  PROVE  /\ RowOf(input) \in Rows(H \cup {Canonicalise(input)})
         /\ RowOf(input).version = input.version /\ RowOf(input).facts = input
         /\ RowOf(input).prevHash = input.previousHash
         /\ RowOf(input).contentHash = Canonicalise(input)
<1>. DEFINE hash == Canonicalise(input)
<1>1. input.version \in Nat /\ input.previousHash \in SUBSET H
  BY DEF InputOf
<1>2. input \in InputOf(H \cup {hash})
  <2>. HIDE DEF hash
  <2>1. QED
    BY DEF InputOf
<1>3. RowOf(input) = [version |-> input.version, contentHash |-> hash,
                      prevHash |-> input.previousHash, facts |-> input]
  BY DEF RowOf
<1>. HIDE DEF hash
<1>4. QED
  BY <1>1, <1>2, <1>3 DEF Rows, hash

LEMMA WiderShape ==
  ASSUME NEW H, NEW K, H \subseteq K, Shape(H)
  PROVE  Shape(K)
<1>1. InputOf(H) \subseteq InputOf(K)
  BY DEF InputOf
<1>2. Rows(H) \subseteq Rows(K)
  BY <1>1 DEF Rows
<1>3. Request(H) \subseteq Request(K)
  BY <1>1 DEF Request
<1>4. QED
  BY <1>2, <1>3 DEF Shape

LEMMA NoInputShape == ASSUME NEW H PROVE NoInput \in InputOf(H)
BY DEF NoInput, InputOf, Unreachable

LEMMA StartedShape ==
  ASSUME NEW H
  PROVE  /\ Started \in Request(H) /\ Started.at = "started" /\ Started.next = 1
         /\ Started.reply = 0 /\ Started.input = NoInput
BY NoInputShape DEF Started, Request, Places

LEMMA InitInv == Init => IInv
<1>. SUFFICES ASSUME Init PROVE IInv
  OBVIOUS
<1>1. World
  <2>1. /\ documents = 0 /\ checked = 0 /\ judged = {} /\ sealed = 0
        /\ sidecar \in Configs \cup {Unreachable}
    BY Zenon DEF Init
  <2>2. QED
    BY <2>1, DokuBoundAssumption DEF World
<1>2. /\ FirstInput \in InputOf({}) /\ FirstInput.version = 1 /\ FirstInput.previousHash = {}
      /\ FirstInput.documents = 0 /\ FirstInput.sealedDays = 0 /\ FirstInput.versionsInArchive = {}
      /\ FirstInput.latestRoot = {} /\ FirstInput.checked = 0
  BY DEF FirstInput, NoInput, InputOf, Unreachable
<1>3. fassungen = <<>> \/ fassungen = <<RowOf(FirstInput)>>
  BY DEF Init
<1>. DEFINE H == {Canonicalise(FirstInput)}
<1>4. RowOf(FirstInput) \in Rows(H) /\ RowOf(FirstInput).version = 1 /\ RowOf(FirstInput).facts = FirstInput
      /\ RowOf(FirstInput).prevHash = {}
  <2>1. H = {} \cup {Canonicalise(FirstInput)}
    OBVIOUS
  <2>2. QED
    BY <1>2, <2>1, RowShape
<1>. HIDE DEF H
<1>5. Shape(H)
  <2>1. req = [q \in Requests |-> Started]
    BY DEF Init
  <2>2. fassungen \in Seq(Rows(H))
    <3>1. <<>> \in Seq(Rows(H))
      OBVIOUS
    <3>2. RowOf(FirstInput) \in Rows(H)
      BY <1>4
    <3>3. <<RowOf(FirstInput)>> \in Seq(Rows(H))
      BY <3>2
    <3>4. QED
      BY <1>3, <3>1, <3>3
  <2>3. QED
    BY <2>1, <2>2, StartedShape DEF Shape
<1>6. N \in {0, 1} /\ \A i \in 1..N : i = 1 /\ fassungen[i] = RowOf(FirstInput)
  BY <1>3
<1>7. \A i \in 1..N : RowInv(i)
  <2>. SUFFICES ASSUME NEW i \in 1..N PROVE RowInv(i)
    OBVIOUS
  <2>1. i = 1 /\ fassungen[i].version = 1 /\ fassungen[i].facts = FirstInput /\ fassungen[i].prevHash = {}
    BY <1>4, <1>6
  <2>2. OfThisSystem(FirstInput) /\ RootFits(FirstInput)
    BY <1>1, <1>2 DEF OfThisSystem, RootFits, World
  <2>3. QED
    BY <2>1, <2>2 DEF RowInv
<1>8. \A q \in Requests : ReqInv(q) /\ ~Holding(req[q])
  <2>. SUFFICES ASSUME NEW q \in Requests PROVE ReqInv(q) /\ ~Holding(req[q])
    OBVIOUS
  <2>1. req[q] = Started
    BY DEF Init
  <2>2. /\ req[q].at = "started" /\ req[q].next = 1 /\ req[q].reply = 0
        /\ req[q].input = NoInput
    BY <2>1, StartedShape
  <2>3. OfThisSystem(NoInput) /\ NoInput.version = 0
    BY <1>1 DEF NoInput, OfThisSystem, World
  <2>4. ~Numbered(req[q]) /\ ~Holding(req[q])
    BY <2>2 DEF Numbered, Holding
  <2>5. QED
    BY <1>6, <2>2, <2>3, <2>4 DEF ReqInv
<1>10. \A i, j \in 1..N : ~(i < j)
  BY <1>6
<1>11. QED
  BY <1>1, <1>5, <1>7, <1>8, <1>10 DEF IInv

-----------------------------------------------------------------------------
(* What stays as it was *)

Grown ==
  /\ documents <= documents' /\ sealed <= sealed'
  /\ judged \subseteq judged'
  /\ checked <= checked'

LEMMA GrownFits ==
  ASSUME NEW H, NEW stated \in InputOf(H), World, World', Grown, OfThisSystem(stated)
  PROVE  OfThisSystem(stated)'
BY DEF World, Grown, OfThisSystem, InputOf

LEMMA RowFields ==
  ASSUME NEW H, Shape(H), NEW i \in 1..N
  PROVE  fassungen[i] \in Rows(H) /\ fassungen[i].facts \in InputOf(H)
<1>1. fassungen[i] \in Rows(H)
  BY DEF Shape
<1>2. QED
  BY <1>1 DEF Rows

LEMMA RequestFields ==
  ASSUME NEW H, Shape(H), NEW q \in Requests
  PROVE  req[q] \in Request(H) /\ req[q].input \in InputOf(H)
<1>1. req[q] \in Request(H)
  BY DEF Shape
<1>2. QED
  BY <1>1 DEF Request

LEMMA RowsStay ==
  ASSUME IInv, World', Grown, UNCHANGED fassungen
  PROVE  /\ \A i \in 1..N' : RowInv(i)'
         /\ \A i, j \in 1..N' : i < j => Later(fassungen[i].facts, fassungen[j].facts)'
<1>1. PICK H : Shape(H)
  BY DEF IInv
<1>2. \A i \in 1..N : fassungen[i].facts \in InputOf(H)
  BY <1>1, RowFields
<1>3. ASSUME NEW i \in 1..N PROVE RowInv(i)'
  <2>1. OfThisSystem(fassungen[i].facts)'
    BY <1>2, GrownFits DEF IInv, RowInv
  <2>2. QED
    BY <2>1 DEF IInv, RowInv, RootFits
<1>4. QED
  BY <1>3 DEF IInv, Later

LEMMA RequestStays ==
  ASSUME IInv, World', Grown, UNCHANGED fassungen,
         NEW p \in Requests, req'[p] = req[p]
  PROVE  ReqInv(p)'
<1>1. PICK H : Shape(H)
  BY DEF IInv
<1>2. req[p].input \in InputOf(H)
  BY <1>1, RequestFields
<1>3. OfThisSystem(req[p].input)'
  BY <1>2, GrownFits DEF IInv, ReqInv
<1>4. QED
  BY <1>3 DEF IInv, ReqInv, Taken, RootFits, Numbered, Holding, GatheredLater

LEMMA StepOfOne ==
  ASSUME IInv, World', Grown, UNCHANGED fassungen,
         NEW q \in Requests, NEW K, Shape(K)',
         \A p \in Requests \ {q} : req'[p] = req[p],
         ReqInv(q)',
         Holding(req'[q]) => Holding(req[q]) \/ \A p \in Requests \ {q} : ~Holding(req[p])
  PROVE  IInv'
<1>1. \A p \in Requests : ReqInv(p)'
  BY RequestStays
<1>2. \A a, b \in Requests : Holding(req'[a]) /\ Holding(req'[b]) => a = b
  BY DEF IInv
<1>3. QED
  BY <1>1, <1>2, RowsStay DEF IInv

-----------------------------------------------------------------------------
(* The steps of a request *)

LEMMA ProbePreserves ==
  ASSUME IInv, NEW q \in Requests, ProbeValidator(q)
  PROVE  IInv'
<1>1. PICK H : Shape(H)
  BY DEF IInv
<1>2. req[q] \in Request(H) /\ req[q].input \in InputOf(H)
  BY <1>1, RequestFields
<1>0. PICK stated : stated = [req[q].input EXCEPT !.health = sidecar]
  OBVIOUS
<1>3. sidecar \in Nat
  BY ConfigAssumption DEF IInv, World, Unreachable
<1>4. /\ stated \in InputOf(H) /\ stated.version = req[q].input.version
      /\ stated.documents = req[q].input.documents /\ stated.sealedDays = req[q].input.sealedDays
      /\ stated.versionsInArchive = req[q].input.versionsInArchive
      /\ stated.checked = req[q].input.checked
  BY <1>0, <1>2, <1>3 DEF InputOf
<1>5. req'[q] = [req[q] EXCEPT !.at = "probed", !.input = stated]
  BY <1>0, <1>1 DEF ProbeValidator, Shape
<1>6. /\ req'[q] \in Request(H) /\ req'[q].at = "probed" /\ req'[q].input = stated
      /\ req'[q].next = req[q].next /\ req'[q].reply = req[q].reply
  <2>1. "probed" \in Places /\ stated \in InputOf(H) /\ req[q] \in Request(H)
    BY <1>2, <1>4 DEF Places
  <2>2. PICK r : r = req[q]
    OBVIOUS
  <2>3. PICK s : s = req'[q]
    OBVIOUS
  <2>4. r \in Request(H) /\ s = [r EXCEPT !.at = "probed", !.input = stated]
    BY <1>5, <2>1, <2>2, <2>3
  <2>5. /\ s \in Request(H) /\ s.at = "probed" /\ s.input = stated
        /\ s.next = r.next /\ s.reply = r.reply
    BY <2>1, <2>4 DEF Request
  <2>6. QED
    BY <2>2, <2>3, <2>5
<1>7. Shape(H)' /\ \A p \in Requests \ {q} : req'[p] = req[p]
  BY <1>1, <1>6 DEF ProbeValidator, Shape
<1>8. World' /\ Grown
  BY DEF IInv, ProbeValidator, World, Grown, world
<1>9. req[q].at = "started" /\ UNCHANGED <<fassungen, world>>
  BY DEF ProbeValidator
<1>10. ReqInv(q) /\ ~Numbered(req'[q]) /\ ~Holding(req'[q])
  BY <1>6 DEF IInv, Numbered, Holding
<1>11. OfThisSystem(stated)'
  BY <1>4, <1>9, <1>10 DEF ReqInv, OfThisSystem, world
<1>12. ReqInv(q)'
  BY <1>4, <1>6, <1>9, <1>10, <1>11 DEF ReqInv
<1>13. QED
  BY <1>7, <1>8, <1>9, <1>10, <1>12, StepOfOne

\* The greatest version is the last one's.
LEMMA LatestIsLast ==
  ASSUME IInv, fassungen # <<>>
  PROVE  N \in Nat \ {0} /\ Latest = fassungen[N]
<1>1. PICK H : fassungen \in Seq(Rows(H))
  BY DEF IInv, Shape
<1>2. N \in Nat \ {0}
  BY <1>1
<1>3. \A i \in 1..N : fassungen[i].version = i
  BY DEF IInv, RowInv
<1>4. \A i \in 1..N : (\A j \in 1..N : fassungen[j].version <= fassungen[i].version) <=> i = N
  BY <1>2, <1>3
<1>5. QED
  BY <1>2, <1>4 DEF Latest

LEMMA LatestPreserves ==
  ASSUME IInv, NEW q \in Requests, LatestDoku(q)
  PROVE  IInv'
<1>1. PICK H : Shape(H)
  BY DEF IInv
<1>2. req[q] \in Request(H) /\ req[q].input \in InputOf(H)
  BY <1>1, RequestFields
<1>0. PICK stated : stated = [req[q].input EXCEPT !.version = NextVersion, !.previousHash = PreviousHash]
  OBVIOUS
<1>3. /\ NextVersion = N + 1 /\ N \in Nat
      /\ PreviousHash = IF N = 0 THEN {} ELSE {fassungen[N].contentHash}
      /\ PreviousHash \in SUBSET H
  <2>1. CASE fassungen = <<>>
    BY <2>1 DEF NextVersion, PreviousHash
  <2>2. CASE fassungen # <<>>
    <3>1. N \in Nat \ {0} /\ Latest = fassungen[N]
      BY <2>2, LatestIsLast
    <3>b. \A i \in 1..N : fassungen[i].version = i
      BY DEF IInv, RowInv
    <3>a. fassungen[N].version = N
      BY <3>1, <3>b
    <3>2. fassungen[N] \in Rows(H)
      BY <1>1, <3>1, RowFields
    <3>3. QED
      BY <2>2, <3>1, <3>a, <3>2 DEF Rows, NextVersion, PreviousHash
  <2>3. QED
    BY <2>1, <2>2
<1>4. req'[q] = [req[q] EXCEPT !.at = "gathering", !.input = stated]
  BY <1>0, <1>1 DEF LatestDoku, Shape
<1>5. /\ stated \in InputOf(H) /\ stated.version = N + 1 /\ stated.previousHash = PreviousHash
      /\ stated.documents = req[q].input.documents /\ stated.sealedDays = req[q].input.sealedDays
      /\ stated.versionsInArchive = req[q].input.versionsInArchive
      /\ stated.checked = req[q].input.checked
  <2>1. NextVersion \in Nat /\ PreviousHash \in SUBSET H
    BY <1>3
  <2>2. PICK i : i = req[q].input
    OBVIOUS
  <2>3. PICK v, h : v = NextVersion /\ h = PreviousHash
    OBVIOUS
  <2>4. i \in InputOf(H) /\ v \in Nat /\ h \in SUBSET H /\ stated = [i EXCEPT !.version = v, !.previousHash = h]
    BY <1>0, <1>2, <2>1, <2>2, <2>3
  <2>5. /\ stated \in InputOf(H) /\ stated.version = v /\ stated.previousHash = h
        /\ stated.documents = i.documents /\ stated.sealedDays = i.sealedDays
        /\ stated.versionsInArchive = i.versionsInArchive
        /\ stated.checked = i.checked
    BY <2>4 DEF InputOf
  <2>6. QED
    BY <1>3, <2>2, <2>3, <2>5
<1>6. /\ req'[q] \in Request(H) /\ req'[q].at = "gathering" /\ req'[q].input = stated
      /\ req'[q].next = req[q].next /\ req'[q].reply = req[q].reply
  <2>1. "gathering" \in Places /\ stated \in InputOf(H) /\ req[q] \in Request(H)
    BY <1>2, <1>5 DEF Places
  <2>2. PICK r : r = req[q]
    OBVIOUS
  <2>3. PICK s : s = req'[q]
    OBVIOUS
  <2>4. r \in Request(H) /\ s = [r EXCEPT !.at = "gathering", !.input = stated]
    BY <1>4, <2>1, <2>2, <2>3
  <2>5. /\ s \in Request(H) /\ s.at = "gathering" /\ s.input = stated
        /\ s.next = r.next /\ s.reply = r.reply
    BY <2>1, <2>4 DEF Request
  <2>6. QED
    BY <2>2, <2>3, <2>5
<1>7. req' \in [Requests -> Request(H)] /\ \A p \in Requests \ {q} : req'[p] = req[p]
  BY <1>1, <1>6 DEF LatestDoku, Shape
<1>8. UNCHANGED <<fassungen, world>> /\ req[q].at = "probed"
  BY DEF LatestDoku
<1>9. Shape(H)'
  BY <1>1, <1>7, <1>8 DEF Shape
<1>10. World' /\ Grown
  BY <1>8 DEF IInv, World, Grown, world
<1>11. ReqInv(q) /\ ~Holding(req'[q]) /\ req'[q].next = 1 /\ req'[q].reply = 0
  BY <1>6, <1>8 DEF IInv, Holding, ReqInv
<1>12. OfThisSystem(stated)'
  BY <1>5, <1>8, <1>11 DEF ReqInv, OfThisSystem, world
<1>13. ReqInv(q)'
  <2>1. /\ stated.version >= 1
        /\ (stated.version = 1) <=> (stated.previousHash = {})
        /\ stated.version > 1 => stated.previousHash = {fassungen[stated.version - 1].contentHash}
        /\ stated.version \in 0..N + 1
    <3>1. stated.version = N + 1 /\ N \in Nat
      BY <1>3, <1>5
    <3>2. stated.previousHash = IF N = 0 THEN {} ELSE {fassungen[N].contentHash}
      BY <1>3, <1>5
    <3>3. (N + 1) - 1 = N
      BY <3>1
    <3>4. QED
      BY <3>1, <3>2, <3>3
  <2>2. ~Holding(req'[q]) /\ req'[q].at = "gathering" /\ req'[q].next = 1 /\ req'[q].reply = 0
    BY <1>6, <1>11
  <2>3. req'[q].input = stated /\ N' = N /\ fassungen' = fassungen
    BY <1>6, <1>8
  <2>4. OfThisSystem(req[q].input)'
    BY <1>12, <2>3 DEF OfThisSystem
  <2>5. req'[q].input.version \in 0..N' + 1
    BY <2>1, <2>3
  <2>6. req'[q].input.version > 1 =>
          req'[q].input.previousHash = {fassungen'[req'[q].input.version - 1].contentHash}
    BY <2>1, <2>3
  <2>7. req'[q].input.version >= 1 /\ ((req'[q].input.version = 1) <=> (req'[q].input.previousHash = {}))
    BY <2>1, <2>3
  <2>8. QED
    BY <2>2, <2>4, <2>5, <2>6, <2>7 DEF ReqInv, GatheredLater, Holding, Numbered
<1>14. QED
  BY <1>7, <1>8, <1>9, <1>10, <1>11, <1>13, StepOfOne

\* What the n-th statement of the gathering adds.
Adds(n, i, g) ==
  /\ g.version = i.version /\ g.previousHash = i.previousHash
  /\ g.documents = IF n = 1 THEN documents ELSE i.documents
  /\ g.versionsInArchive = IF n = 2 THEN judged ELSE i.versionsInArchive
  /\ g.checked = IF n = 3 THEN checked ELSE i.checked
  /\ g.sealedDays = IF n = 4 THEN sealed ELSE i.sealedDays
  /\ g.latestRoot = IF n = 5 THEN (IF sealed = 0 THEN {} ELSE {sealed}) ELSE i.latestRoot

LEMMA GatheredEffect ==
  ASSUME NEW H, World, NEW i \in InputOf(H), NEW n \in 1..5,
         NEW g, g = Gathered(i, Statements[n])
  PROVE  g \in InputOf(H) /\ Adds(n, i, g)
<1>0. /\ documents \in Nat /\ checked \in Nat /\ judged \in SUBSET Nat /\ sealed \in Nat
  BY ConfigAssumption, DokuBoundAssumption DEF World, Unavailable
<1>1. CASE n = 1
  <2>1. g = [i EXCEPT !.documents = documents]
    BY <1>1 DEF Gathered, Statements
  <2>2. QED
    BY <1>0, <1>1, <2>1 DEF InputOf, Adds
<1>2. CASE n = 2
  <2>1. g = [i EXCEPT !.versionsInArchive = judged]
    BY <1>2 DEF Gathered, Statements
  <2>2. QED
    BY <1>0, <1>2, <2>1 DEF InputOf, Adds
<1>3. CASE n = 3
  <2>1. g = [i EXCEPT !.checked = checked]
    BY <1>3 DEF Gathered, Statements
  <2>2. QED
    BY <1>0, <1>3, <2>1 DEF InputOf, Adds
<1>4. CASE n = 4
  <2>1. g = [i EXCEPT !.sealedDays = sealed]
    BY <1>4 DEF Gathered, Statements
  <2>2. QED
    BY <1>0, <1>4, <2>1 DEF InputOf, Adds
<1>5. CASE n = 5
  <2>1. PICK root : root = IF sealed = 0 THEN {} ELSE {sealed}
    OBVIOUS
  <2>2. g = [i EXCEPT !.latestRoot = root]
    BY <1>5, <2>1 DEF Gathered, Statements
  <2>3. root \in SUBSET Nat
    BY <1>0, <2>1
  <2>4. QED
    BY <1>5, <2>1, <2>2, <2>3 DEF InputOf, Adds
<1>6. QED
  BY <1>1, <1>2, <1>3, <1>4, <1>5

LEMMA GatherPreserves ==
  ASSUME IInv, NEW q \in Requests, GatherFacts(q)
  PROVE  IInv'
<1>1. PICK H : Shape(H)
  BY DEF IInv
<1>2. req[q] \in Request(H) /\ req[q].input \in InputOf(H) /\ req[q].next \in 1..5
  <2>1. req[q] \in Request(H) /\ req[q].input \in InputOf(H)
    BY <1>1, RequestFields
  <2>2. req[q].next \in 1..6 /\ req[q].next <= 5
    BY <2>1 DEF Request, GatherFacts, Statements
  <2>3. QED
    BY <2>1, <2>2
<1>3. PICK r, i, n : r = req[q] /\ i = req[q].input /\ n = req[q].next
  OBVIOUS
<1>4. PICK g : g = Gathered(i, Statements[n])
  OBVIOUS
<1>5. r \in Request(H) /\ i \in InputOf(H) /\ n \in 1..5 /\ r.input = i /\ r.next = n
  BY <1>2, <1>3
<1>6. World
  BY DEF IInv
<1>7. g \in InputOf(H) /\ Adds(n, i, g)
  BY <1>4, <1>5, <1>6, GatheredEffect
<1>8. PICK s : s = req'[q]
  OBVIOUS
<1>9. s = [r EXCEPT !.input = g, !.next = n + 1]
  BY <1>1, <1>3, <1>4, <1>8 DEF GatherFacts, Shape
<1>10. n + 1 \in 1..6
  BY <1>5
<1>11. /\ s \in Request(H) /\ s.input = g /\ s.next = n + 1
       /\ s.at = r.at /\ s.reply = r.reply
  BY <1>5, <1>7, <1>9, <1>10 DEF Request
<1>12. req[q].at = "gathering" /\ UNCHANGED <<fassungen, world>>
  BY DEF GatherFacts
<1>13. Shape(H)' /\ \A p \in Requests \ {q} : req'[p] = req[p]
  BY <1>1, <1>8, <1>11, <1>12 DEF GatherFacts, Shape
<1>14. World' /\ Grown
  BY <1>12 DEF IInv, World, Grown, world
<1>15. /\ ReqInv(q) /\ ~Holding(req'[q]) /\ r.at = "gathering" /\ r.reply = 0
       /\ s.at = "gathering" /\ s.reply = 0
  BY <1>3, <1>8, <1>11, <1>12 DEF IInv, Holding, ReqInv
<1>16. OfThisSystem(i) /\ i.documents \in Nat /\ i.checked \in Nat /\ i.sealedDays \in Nat
  BY <1>3, <1>5, <1>15 DEF ReqInv, InputOf
<1>17. /\ g.documents <= documents /\ g.checked <= checked /\ g.sealedDays <= sealed
       /\ g.versionsInArchive \subseteq judged
  <2>1. documents \in Nat /\ checked \in Nat /\ sealed \in Nat
    BY <1>6, DokuBoundAssumption DEF World
  <2>2. QED
    BY <1>7, <1>16, <2>1 DEF OfThisSystem, Adds
<1>18. OfThisSystem(req[q].input)'
  BY <1>8, <1>11, <1>12, <1>17 DEF OfThisSystem, world
<1>19. n + 1 > 5 => RootFits(g)
  <2>. SUFFICES ASSUME n = 5 PROVE RootFits(g)
    BY <1>5
  <2>1. g.latestRoot = (IF sealed = 0 THEN {} ELSE {sealed}) /\ g.sealedDays = i.sealedDays
    BY <1>7 DEF Adds
  <2>2. sealed \in Nat /\ i.sealedDays <= sealed
    BY <1>6, <1>16, DokuBoundAssumption DEF World, OfThisSystem
  <2>3. QED
    BY <1>16, <2>1, <2>2 DEF RootFits
<1>20. \A k \in 1..N : k < i.version => GatheredLater(fassungen[k].facts, s)
  <2>. SUFFICES ASSUME NEW k \in 1..N, k < i.version PROVE GatheredLater(fassungen[k].facts, s)
    OBVIOUS
  <2>1. GatheredLater(fassungen[k].facts, r)
    BY <1>3, <1>12, <1>15 DEF ReqInv, Numbered
  <2>2. OfThisSystem(fassungen[k].facts)
    BY DEF IInv, RowInv
  <2>3. PICK before : before = fassungen[k].facts
    OBVIOUS
  <2>4. /\ n > 1 => before.documents <= i.documents
        /\ n > 2 => before.versionsInArchive \subseteq i.versionsInArchive
        /\ n > 3 => before.checked <= i.checked
        /\ n > 4 => before.sealedDays <= i.sealedDays
    BY <1>5, <2>1, <2>3 DEF GatheredLater
  <2>5. /\ before.documents <= documents /\ before.sealedDays <= sealed
        /\ before.versionsInArchive \subseteq judged /\ before.checked <= checked
    BY <2>2, <2>3 DEF OfThisSystem
  <2>6. n = 1 \/ n = 2 \/ n = 3 \/ n = 4 \/ n = 5
    BY <1>5
  <2>7. /\ n + 1 > 1 => before.documents <= g.documents
        /\ n + 1 > 2 => before.versionsInArchive \subseteq g.versionsInArchive
        /\ n + 1 > 3 => before.checked <= g.checked
        /\ n + 1 > 4 => before.sealedDays <= g.sealedDays
    BY <1>7, <2>4, <2>5, <2>6 DEF Adds
  <2>8. QED
    BY <1>11, <2>3, <2>7 DEF GatheredLater
<1>21. ReqInv(q)'
  <2>1. /\ req'[q].at = "gathering" /\ req'[q].reply = 0 /\ req'[q].next = n + 1
        /\ req'[q].input.version = req[q].input.version
        /\ req'[q].input.previousHash = req[q].input.previousHash
    BY <1>3, <1>7, <1>8, <1>11, <1>15 DEF Adds
  <2>2. N' = N /\ fassungen' = fassungen
    BY <1>12
  <2>3. /\ req[q].input.version \in 0..N + 1 /\ req[q].input.version >= 1
        /\ (req[q].input.version = 1) <=> (req[q].input.previousHash = {})
        /\ req[q].input.version > 1 =>
             req[q].input.previousHash = {fassungen[req[q].input.version - 1].contentHash}
    BY <1>3, <1>15 DEF ReqInv, Numbered
  <2>4. (req[q].next > 5 => RootFits(req[q].input))'
    BY <1>8, <1>11, <1>19 DEF RootFits
  <2>5. (\A k \in 1..N : k < req[q].input.version => GatheredLater(fassungen[k].facts, req[q]))'
    BY <1>3, <1>8, <1>20, <2>1, <2>2 DEF GatheredLater
  <2>6. ~Holding(req[q])'
    BY <1>15 DEF Holding
  <2>7. QED
    BY <1>18, <2>1, <2>2, <2>3, <2>4, <2>5, <2>6 DEF ReqInv
<1>22. QED
  BY <1>12, <1>13, <1>14, <1>15, <1>21, StepOfOne

\* The place of a request alone.
LEMMA PlaceEffect ==
  ASSUME NEW H, Shape(H), NEW q \in Requests, NEW at \in Places,
         req' = [req EXCEPT ![q].at = at]
  PROVE  /\ req' \in [Requests -> Request(H)]
         /\ req'[q].at = at /\ req'[q].reply = req[q].reply
         /\ req'[q].next = req[q].next /\ req'[q].input = req[q].input
         /\ \A p \in Requests \ {q} : req'[p] = req[p]
<1>1. req[q] \in Request(H)
  BY RequestFields
<1>2. req'[q] = [req[q] EXCEPT !.at = at]
  BY DEF Shape
<1>3. [req[q] EXCEPT !.at = at] \in Request(H)
  BY <1>1 DEF Request
<1>4. QED
  BY <1>1, <1>2, <1>3 DEF Shape, Request

\* A request whose fassung is numbered is never refused: the lint finds
\* nothing, and the chain has no hole.
LEMMA GenerateNeverRefuses ==
  ASSUME IInv, NEW q \in Requests, req[q].at = "gathering"
  PROVE  ~Refuses(req[q].input)
<1>1. PICK H : Shape(H)
  BY DEF IInv
<1>2. req[q].input.version \in Nat
  BY <1>1, RequestFields DEF InputOf
<1>3. ReqInv(q) /\ Numbered(req[q])
  BY DEF IInv, Numbered
<1>4. /\ req[q].input.version >= 1
      /\ req[q].input.version > 1 => req[q].input.previousHash # {}
  BY <1>2, <1>3 DEF ReqInv
<1>5. QED
  BY <1>2, <1>4, NothingFound DEF Refuses

LEMMA VersionsAreOneToN ==
  ASSUME IInv, NEW version \in 1..N + 1, ~Taken(version)
  PROVE  version = N + 1
<1>1. N \in Nat
  BY DEF IInv, Shape
<1>2. \A i \in 1..N : fassungen[i].version = i
  BY DEF IInv, RowInv
<1>3. version \notin 1..N
  BY <1>2 DEF Taken
<1>4. QED
  BY <1>1, <1>3

LEMMA InsertPreserves ==
  ASSUME IInv, NEW q \in Requests, InsertDoku(q)
  PROVE  IInv'
<1>1. PICK H : Shape(H)
  BY DEF IInv
<1>2. req[q] \in Request(H) /\ req[q].input \in InputOf(H)
  BY <1>1, RequestFields
<1>3. req[q].at = "gathering" /\ req[q].next = 6 /\ UNCHANGED <<fassungen, world>>
  BY <1>2 DEF InsertDoku, GatheredAll, Statements, Request
<1>4. World' /\ Grown
  BY <1>3 DEF IInv, World, Grown, world
<1>5. ReqInv(q) /\ Numbered(req[q]) /\ req[q].reply = 0
  BY <1>3 DEF IInv, Numbered, ReqInv
<1>6. OfThisSystem(req[q].input)
  BY <1>5 DEF ReqInv
<1>0. ~Refuses(req[q].input)
  BY <1>3, GenerateNeverRefuses
<1>7. CASE Taken(req[q].input.version)
  <2>1. req' = [req EXCEPT ![q].at = "over", ![q].reply = 500]
    BY <1>7 DEF InsertDoku, Fail
  <2>2. "over" \in Places /\ 500 \in {0, 201, 500}
    BY DEF Places
  <2>3. /\ req' \in [Requests -> Request(H)]
        /\ req'[q].at = "over" /\ req'[q].reply = 500
        /\ req'[q].next = req[q].next /\ req'[q].input = req[q].input
        /\ \A p \in Requests \ {q} : req'[p] = req[p]
    <3>a. PICK r, s : r = req[q] /\ s = req'[q]
      OBVIOUS
    <3>b. r \in Request(H) /\ s = [r EXCEPT !.at = "over", !.reply = 500]
      BY <1>1, <3>a, RequestFields, <2>1 DEF Shape
    <3>c. /\ s \in Request(H) /\ s.at = "over" /\ s.reply = 500
          /\ s.next = r.next /\ s.input = r.input
      <4>1. s = [at |-> "over", next |-> r.next, input |-> r.input, reply |-> 500]
        BY <3>b DEF Request
      <4>2. r.next \in 1..6 /\ r.input \in InputOf(H)
        BY <3>b DEF Request
      <4>3. QED
        BY <4>1, <4>2, <2>2 DEF Request
    <3>d. QED
      BY <1>1, <3>a, <3>c, <2>1 DEF Shape
  <2>4. Shape(H)'
    BY <1>1, <1>3, <2>3 DEF Shape
  <2>5. ~Holding(req'[q])
    BY <2>3 DEF Holding
  <2>6. OfThisSystem(req[q].input)'
    BY <1>3, <1>6, <2>3 DEF OfThisSystem, world
  <2>7. ReqInv(q)'
    BY <1>3, <1>5, <1>7, <2>3, <2>6 DEF ReqInv, Taken, RootFits, Numbered, Holding
  <2>8. QED
    BY <1>3, <1>4, <2>3, <2>4, <2>5, <2>7, StepOfOne
<1>8. CASE ~Taken(req[q].input.version)
  <2>1. req' = [req EXCEPT ![q].at = "inserted"]
    BY <1>0, <1>8 DEF InsertDoku
  <2>2. "inserted" \in Places
    BY DEF Places
  <2>3. /\ req' \in [Requests -> Request(H)]
        /\ req'[q].at = "inserted" /\ req'[q].reply = req[q].reply
        /\ req'[q].next = req[q].next /\ req'[q].input = req[q].input
        /\ \A p \in Requests \ {q} : req'[p] = req[p]
    BY <1>1, <2>1, <2>2, PlaceEffect
  <2>4. Shape(H)'
    BY <1>1, <1>3, <2>3 DEF Shape
  <2>5. req[q].input.version = N + 1
    <3>1. req[q].input.version \in 1..N + 1
      BY <1>5 DEF ReqInv
    <3>2. QED
      BY <1>8, <3>1, VersionsAreOneToN
  <2>6. \A p \in Requests \ {q} : ~Holding(req[p])
    BY <1>0, <2>5 DEF IInv, ReqInv, InsertDoku, Holds, Holding
  <2>7. OfThisSystem(req[q].input)'
    BY <1>3, <1>6, <2>3 DEF OfThisSystem, world
  <2>8. ReqInv(q)'
    BY <1>3, <1>5, <2>3, <2>5, <2>7 DEF ReqInv, Taken, RootFits, Numbered, Holding, GatheredLater
  <2>9. QED
    BY <1>3, <1>4, <2>3, <2>4, <2>6, <2>8, StepOfOne
<1>9. QED
  BY <1>7, <1>8

LEMMA AnswerPreserves ==
  ASSUME IInv, NEW q \in Requests, Answer(q)
  PROVE  IInv'
<1>1. PICK H : Shape(H)
  BY DEF IInv
<1>2. req[q].at = "inserted" /\ UNCHANGED <<fassungen, world>>
  BY DEF Answer
<1>3. World' /\ Grown
  BY <1>2 DEF IInv, World, Grown, world
<1>4. ReqInv(q) /\ Numbered(req[q]) /\ Holding(req[q]) /\ OfThisSystem(req[q].input)
  BY <1>2 DEF IInv, Numbered, Holding, ReqInv
<1>5. /\ req' \in [Requests -> Request(H)]
      /\ req'[q].at = "answered" /\ req'[q].reply = 201
      /\ req'[q].next = req[q].next /\ req'[q].input = req[q].input
      /\ \A p \in Requests \ {q} : req'[p] = req[p]
  <2>1. "answered" \in Places /\ 201 \in {0, 201, 500}
    BY DEF Places
  <2>2. req' = [req EXCEPT ![q].at = "answered", ![q].reply = 201]
    BY DEF Answer
  <2>a. PICK r, s : r = req[q] /\ s = req'[q]
    OBVIOUS
  <2>b. r \in Request(H) /\ s = [r EXCEPT !.at = "answered", !.reply = 201]
    BY <1>1, <2>a, RequestFields, <2>2 DEF Shape
  <2>c. /\ s \in Request(H) /\ s.at = "answered" /\ s.reply = 201
        /\ s.next = r.next /\ s.input = r.input
    BY <2>b, <2>1 DEF Request
  <2>d. QED
    BY <1>1, <2>a, <2>c, <2>2 DEF Shape
<1>6. Shape(H)'
  BY <1>1, <1>2, <1>5 DEF Shape
<1>7. OfThisSystem(req[q].input)'
  BY <1>2, <1>4, <1>5 DEF OfThisSystem, world
<1>8. ReqInv(q)'
  BY <1>2, <1>4, <1>5, <1>7 DEF ReqInv, Taken, RootFits, Numbered, Holding, GatheredLater
<1>9. QED
  BY <1>2, <1>3, <1>4, <1>5, <1>6, <1>8, StepOfOne

LEMMA LosePreserves ==
  ASSUME IInv, NEW q \in Requests, LoseConnection(q)
  PROVE  IInv'
<1>1. PICK H : Shape(H)
  BY DEF IInv
<1>2. UNCHANGED <<fassungen, world>>
  BY DEF LoseConnection
<1>3. World' /\ Grown
  BY <1>2 DEF IInv, World, Grown, world
<1>4. ReqInv(q) /\ OfThisSystem(req[q].input)
  BY DEF IInv, ReqInv
<1>5. PICK reply : reply = IF req[q].reply = 0 THEN 500 ELSE req[q].reply
  OBVIOUS
<1>6. /\ req' \in [Requests -> Request(H)]
      /\ req'[q].at = "lost" /\ req'[q].reply = reply
      /\ req'[q].next = req[q].next /\ req'[q].input = req[q].input
      /\ \A p \in Requests \ {q} : req'[p] = req[p]
  <2>1. "lost" \in Places
    BY DEF Places
  <2>2. req[q].reply \in {0, 201, 500}
    BY <1>1, RequestFields DEF Request
  <2>3. reply \in {0, 201, 500}
    BY <1>5, <2>2
  <2>4. req' = [req EXCEPT ![q].at = "lost", ![q].reply = reply]
    BY <1>1, <1>5 DEF LoseConnection, Shape, Request
  <2>a. PICK r, s : r = req[q] /\ s = req'[q]
    OBVIOUS
  <2>b. r \in Request(H) /\ s = [r EXCEPT !.at = "lost", !.reply = reply]
    BY <1>1, <2>a, RequestFields, <2>4 DEF Shape
  <2>c. /\ s \in Request(H) /\ s.at = "lost" /\ s.reply = reply
        /\ s.next = r.next /\ s.input = r.input
    BY <2>b, <2>1, <2>3 DEF Request
  <2>d. QED
    BY <1>1, <2>a, <2>c, <2>4 DEF Shape
<1>7. Shape(H)'
  BY <1>1, <1>2, <1>6 DEF Shape
<1>8. OfThisSystem(req[q].input)'
  BY <1>2, <1>4, <1>6 DEF OfThisSystem, world
<1>9. ~Holding(req'[q])
  BY <1>6 DEF Holding
<1>10. ReqInv(q)'
  BY <1>2, <1>4, <1>6, <1>8 DEF ReqInv, RootFits, Numbered, Holding
<1>11. QED
  BY <1>2, <1>3, <1>6, <1>7, <1>9, <1>10, StepOfOne

\* COMMIT puts the fassung behind the last one.
LEMMA CommitPreserves ==
  ASSUME IInv, NEW q \in Requests, Commit(q)
  PROVE  IInv'
<1>1. PICK H : Shape(H)
  BY DEF IInv
<1>2. PICK r, i : r = req[q] /\ i = req[q].input
  OBVIOUS
<1>3. r \in Request(H) /\ i \in InputOf(H) /\ r.input = i
  BY <1>1, <1>2, RequestFields
<1>4. PICK K : K = H \cup {Canonicalise(i)}
  OBVIOUS
<1>5. PICK row : row = RowOf(i)
  OBVIOUS
<1>6. /\ row \in Rows(K) /\ row.version = i.version /\ row.facts = i
      /\ row.prevHash = i.previousHash
  BY <1>3, <1>4, <1>5, RowShape
<1>7. /\ r.at = "answered" /\ UNCHANGED world
      /\ fassungen' = Append(fassungen, row)
  BY <1>2, <1>5 DEF Commit
<1>8. fassungen \in Seq(Rows(H)) /\ N \in Nat
  BY <1>1 DEF Shape
<1>9. /\ N' = N + 1 /\ fassungen'[N + 1] = row
      /\ \A k \in 1..N : fassungen'[k] = fassungen[k]
  BY <1>7, <1>8
<1>10. ReqInv(q) /\ Numbered(r) /\ Holding(r)
  BY <1>2, <1>7 DEF IInv, Numbered, Holding
<1>11. i.version = N + 1 /\ r.next = 6 /\ RootFits(i) /\ OfThisSystem(i)
  BY <1>2, <1>10 DEF ReqInv
<1>12. /\ (i.version = 1) <=> (i.previousHash = {})
       /\ i.version > 1 => i.previousHash = {fassungen[i.version - 1].contentHash}
       /\ \A k \in 1..N : k < i.version => GatheredLater(fassungen[k].facts, r)
  BY <1>2, <1>10 DEF ReqInv
<1>13. Shape(K)'
  <2>1. Shape(K)
    BY <1>1, <1>4, WiderShape
  <2>2. Request(H) \subseteq Request(K)
    <3>1. InputOf(H) \subseteq InputOf(K)
      BY <1>4 DEF InputOf
    <3>2. QED
      BY <3>1 DEF Request
  <2>3. PICK s : s = req'[q]
    OBVIOUS
  <2>4. s = [r EXCEPT !.at = "over"]
    BY <1>1, <1>2, <2>3 DEF Commit, Shape
  <2>5. s \in Request(H)
    BY <1>3, <2>4 DEF Request, Places
  <2>6. req' \in [Requests -> Request(K)]
    BY <2>1, <2>2, <2>3, <2>5 DEF Commit, Shape
  <2>7. fassungen' \in Seq(Rows(K))
    BY <1>6, <1>7, <2>1 DEF Shape
  <2>8. QED
    BY <2>6, <2>7 DEF Shape
<1>14. World' /\ (\A stated : OfThisSystem(stated) => OfThisSystem(stated)')
  BY <1>7 DEF IInv, World, world, OfThisSystem
<1>15. \A k \in 1..N : RowInv(k)'
  <2>. SUFFICES ASSUME NEW k \in 1..N PROVE RowInv(k)'
    OBVIOUS
  <2>1. RowInv(k)
    BY DEF IInv
  <2>2. fassungen'[k] = fassungen[k] /\ (k # 1 => fassungen'[k - 1] = fassungen[k - 1])
    BY <1>8, <1>9
  <2>3. OfThisSystem(fassungen[k].facts)'
    BY <1>7, <2>1, <2>2 DEF RowInv, OfThisSystem, world
  <2>4. QED
    BY <1>7, <2>1, <2>2, <2>3 DEF RowInv, RootFits
<1>16. PICK n : n = N + 1
  OBVIOUS
<1>17. RowInv(n)'
  <2>1. /\ fassungen'[n].version = n /\ fassungen'[n].facts = i
        /\ fassungen'[n].prevHash = i.previousHash
    BY <1>6, <1>9, <1>11, <1>16
  <2>2. i.previousHash = IF n = 1 THEN {} ELSE {fassungen'[n - 1].contentHash}
    <3>1. N # 0 => N \in 1..N /\ n - 1 = N /\ n > 1
      BY <1>8, <1>16
    <3>2. N = 0 => n = 1
      BY <1>16
    <3>3. i.version = n
      BY <1>11, <1>16
    <3>4. QED
      BY <1>7, <1>8, <1>9, <1>12, <3>1, <3>2, <3>3
  <2>3. /\ fassungen'[n].facts.documents <= documents'
        /\ fassungen'[n].facts.sealedDays <= sealed'
        /\ fassungen'[n].facts.versionsInArchive \subseteq judged'
        /\ fassungen'[n].facts.checked <= checked'
    BY <1>7, <1>11, <2>1 DEF OfThisSystem, world
  <2>4. /\ fassungen'[n].facts.sealedDays > 0 => fassungen'[n].facts.latestRoot # {}
        /\ \A root \in fassungen'[n].facts.latestRoot : root >= fassungen'[n].facts.sealedDays
    BY <1>11, <2>1 DEF RootFits
  <2>5. QED
    BY <2>1, <2>2, <2>3, <2>4 DEF RowInv, OfThisSystem, RootFits
<1>18. \A k \in 1..N' : k \in 1..N \/ k = n
  BY <1>8, <1>9, <1>16
<1>19. \A k \in 1..N' : RowInv(k)'
  BY <1>15, <1>17, <1>18
<1>20. \A j, k \in 1..N' : j < k => Later(fassungen[j].facts, fassungen[k].facts)'
  <2>. SUFFICES ASSUME NEW j \in 1..N', NEW k \in 1..N', j < k
                PROVE  Later(fassungen[j].facts, fassungen[k].facts)'
    OBVIOUS
  <2>1. j \in 1..N /\ fassungen'[j] = fassungen[j]
    BY <1>8, <1>9
  <2>2. CASE k \in 1..N
    <3>1. fassungen'[k] = fassungen[k] /\ Later(fassungen[j].facts, fassungen[k].facts)
      BY <1>9, <2>2, <2>1 DEF IInv
    <3>2. QED
      BY <2>1, <3>1 DEF Later
  <2>3. CASE k = n
    <3>1. fassungen'[k].facts = i
      BY <1>6, <1>9, <1>16, <2>3
    <3>2. GatheredLater(fassungen[j].facts, r)
      BY <1>11, <1>12, <2>1, <1>8
    <3>3. QED
      BY <1>3, <1>11, <2>1, <3>1, <3>2 DEF Later, GatheredLater
  <2>4. QED
    BY <1>18, <2>2, <2>3
<1>21. \A p \in Requests \ {q} : req'[p] = req[p]
  BY <1>1 DEF Commit, Shape
<1>22. /\ req'[q].at = "over" /\ req'[q].reply = r.reply /\ req'[q].input = i
       /\ req'[q].next = 6
  BY <1>1, <1>2, <1>3, <1>11 DEF Commit, Shape, Request
<1>23. \A p \in Requests \ {q} : ReqInv(p)'
  <2>. SUFFICES ASSUME NEW p \in Requests \ {q} PROVE ReqInv(p)'
    OBVIOUS
  <2>1. ReqInv(p) /\ req'[p] = req[p] /\ ~Holding(req[p])
    BY <1>2, <1>10, <1>21 DEF IInv
  <2>2. PICK t, v : t = req[p] /\ v = req[p].input.version
    OBVIOUS
  <2>3. OfThisSystem(req[p].input)'
    BY <1>7, <2>1 DEF ReqInv, OfThisSystem, world
  <2>4. v \in 0..N + 1 /\ v \in 0..N' + 1
    BY <1>8, <1>9, <2>1, <2>2 DEF ReqInv
  <2>5. Taken(v) => \E k \in 1..N' : fassungen'[k].version = v
    BY <1>8, <1>9 DEF Taken
  <2>6. (\E k \in 1..N : fassungen[k].facts = t.input) => \E k \in 1..N' : fassungen'[k].facts = t.input
    BY <1>8, <1>9
  <2>7. Numbered(t) => /\ v > 1 => t.input.previousHash = {fassungen'[v - 1].contentHash}
                       /\ \A k \in 1..N' : k < v => GatheredLater(fassungen'[k].facts, t)
    <3>1. v > 1 => v - 1 \in 1..N
      BY <1>8, <2>4
    <3>2. \A k \in 1..N' : k < v => k \in 1..N
      BY <1>8, <2>4
    <3>3. QED
      BY <1>7, <1>9, <2>1, <2>2, <3>1, <3>2 DEF ReqInv
  <2>8. QED
    BY <2>1, <2>2, <2>3, <2>4, <2>5, <2>6, <2>7
       DEF ReqInv, Taken, Numbered, Holding, RootFits, GatheredLater
<1>24. ReqInv(q)'
  <2>1. OfThisSystem(req[q].input)'
    BY <1>7, <1>11, <1>22 DEF OfThisSystem, world
  <2>2. \E k \in 1..N' : fassungen'[k].facts = req'[q].input /\ fassungen'[k].version = req'[q].input.version
    <3>1. n \in 1..N'
      BY <1>8, <1>9, <1>16
    <3>2. QED
      BY <1>6, <1>9, <1>16, <1>22, <3>1
  <2>3. req'[q].input.version \in 0..N' + 1
    BY <1>8, <1>9, <1>11, <1>22
  <2>4. QED
    BY <1>11, <1>22, <2>1, <2>2, <2>3 DEF ReqInv, Taken, Numbered, Holding, RootFits
<1>25. \A a, b \in Requests : Holding(req'[a]) /\ Holding(req'[b]) => a = b
  <2>1. ~Holding(req'[q])
    BY <1>22 DEF Holding
  <2>2. \A p \in Requests \ {q} : Holding(req'[p]) => FALSE
    BY <1>2, <1>10, <1>21 DEF IInv
  <2>3. QED
    BY <2>1, <2>2
<1>27. QED
  BY <1>13, <1>14, <1>19, <1>20, <1>23, <1>24, <1>25 DEF IInv

-----------------------------------------------------------------------------
(* The steps of the rest of the system *)

LEMMA SystemPreserves ==
  ASSUME IInv, Receive \/ SealDay \/ SidecarChanges
  PROVE  IInv'
<1>1. PICK H : Shape(H)
  BY DEF IInv
<1>2. UNCHANGED <<fassungen, req>>
  BY DEF Receive, SealDay, SidecarChanges
<1>3. World
  BY DEF IInv
<1>4. World' /\ Grown
  <2>1. CASE Receive
    <3>1. (IF sidecar = Unreachable THEN Unavailable ELSE sidecar) \in Configs \cup {Unavailable}
      BY <1>3 DEF World
    <3>2. QED
      BY <1>3, <2>1, <3>1, DokuBoundAssumption DEF Receive, World, Grown
  <2>2. CASE SealDay
    BY <1>3, <2>2, DokuBoundAssumption DEF SealDay, World, Grown
  <2>3. CASE SidecarChanges
    BY <1>3, <2>3, DokuBoundAssumption DEF SidecarChanges, World, Grown
  <2>4. QED
    BY <2>1, <2>2, <2>3
<1>5. \A p \in Requests : ReqInv(p)'
  BY <1>2, <1>4, RequestStays
<1>6. Shape(H)'
  BY <1>1, <1>2 DEF Shape
<1>7. QED
  BY <1>2, <1>4, <1>5, <1>6, RowsStay DEF IInv, Holding

LEMMA StutterPreserves ==
  ASSUME IInv, UNCHANGED vars
  PROVE  IInv'
<1>1. PICK H : Shape(H)
  BY DEF IInv
<1>2. UNCHANGED <<fassungen, req, world>>
  BY DEF vars, world
<1>3. World
  BY DEF IInv
<1>4. World' /\ Grown
  BY <1>2, <1>3, DokuBoundAssumption DEF World, Grown, world
<1>5. \A p \in Requests : ReqInv(p)'
  BY <1>2, <1>4, RequestStays
<1>6. Shape(H)'
  BY <1>1, <1>2 DEF Shape
<1>7. QED
  BY <1>2, <1>4, <1>5, <1>6, RowsStay DEF IInv, Holding

-----------------------------------------------------------------------------
(* The theorems *)

LEMMA NextPreserves == IInv /\ [Next]_vars => IInv'
<1>. SUFFICES ASSUME IInv, [Next]_vars PROVE IInv'
  OBVIOUS
<1>1. ASSUME NEW q \in Requests, Step(q) PROVE IInv'
  <2>1. CASE ProbeValidator(q)
    BY <2>1, ProbePreserves
  <2>2. CASE LatestDoku(q)
    BY <2>2, LatestPreserves
  <2>3. CASE GatherFacts(q)
    BY <2>3, GatherPreserves
  <2>5. CASE InsertDoku(q)
    BY <2>5, InsertPreserves
  <2>6. CASE Answer(q)
    BY <2>6, AnswerPreserves
  <2>7. CASE Commit(q)
    BY <2>7, CommitPreserves
  <2>8. QED
    BY <1>1, <2>1, <2>2, <2>3, <2>5, <2>6, <2>7 DEF Step
<1>2. ASSUME NEW q \in Requests, LoseConnection(q) PROVE IInv'
  BY <1>2, LosePreserves
<1>3. CASE Receive \/ SealDay \/ SidecarChanges
  BY <1>3, SystemPreserves
<1>5. CASE UNCHANGED vars
  BY <1>5, StutterPreserves
<1>6. QED
  BY <1>1, <1>2, <1>3, <1>5 DEF Next

LEMMA InvHolds == Spec => []IInv
<1>1. Init => IInv
  BY InitInv
<1>2. IInv /\ [Next]_vars => IInv'
  BY NextPreserves
<1>3. QED
  BY <1>1, <1>2, PTL DEF Spec

\* verfahrensdoku.ts, verfahrensdoku-store.ts: no request states more than the
\* system has come to, and none numbers itself past the next fassung.
THEOREM TypeCorrect == Spec => []TypeOK
<1>1. IInv => TypeOK
  <2>. SUFFICES ASSUME IInv PROVE TypeOK
    OBVIOUS
  <2>1. World
    BY DEF IInv
  <2>2. PICK H : Shape(H)
    BY DEF IInv
  <2>3. ASSUME NEW q \in Requests
        PROVE  /\ req[q].at \in Places /\ req[q].next \in 1..6 /\ req[q].reply \in {0, 201, 500}
               /\ req[q].input.documents <= documents
               /\ req[q].input.versionsInArchive \subseteq judged
               /\ req[q].input.version \in 0..N + 1
    <3>1. req[q] \in Request(H)
      BY <2>2, RequestFields
    <3>2. ReqInv(q)
      BY DEF IInv
    <3>3. QED
      BY <3>1, <3>2 DEF Request, ReqInv, OfThisSystem
  <2>4. QED
    BY <2>1, <2>3 DEF TypeOK, World, Places, Statements
<1>2. QED
  BY <1>1, InvHolds, PTL

\* verfahrensdoku.ts:97: whatever requests run at a time, the fassungen on
\* record are 1, 2, ..., and every one names its predecessor.
THEOREM ChainDoesNotFork == Spec => []FassungenAreOneChain
<1>1. IInv => FassungenAreOneChain
  <2>. SUFFICES ASSUME IInv
                PROVE  /\ \A i \in 1..N : fassungen[i].version = i
                       /\ VerifyDokuChain(fassungen)
    BY DEF FassungenAreOneChain
  <2>1. \A i \in 1..N : RowInv(i)
    BY DEF IInv
  <2>2. QED
    BY <2>1 DEF RowInv, VerifyDokuChain
<1>2. QED
  BY <1>1, InvHolds, PTL

\* GoBD Rz. 154, doku-facts.ts: a later fassung describes the system no earlier
\* than the one it follows, though each statement of its gathering saw a moment
\* of its own, and its root is that of the last day of its span or a younger one.
THEOREM OneHistory == Spec => []FassungenAreOneHistory
<1>1. IInv => LaterFassungKnowsMore
  BY DEF IInv, LaterFassungKnowsMore, Later
<1>2. IInv => RootIsOfTheSpanOrLater
  BY DEF IInv, RowInv, RootFits, RootIsOfTheSpanOrLater
<1>3. QED
  BY <1>1, <1>2, InvHolds, ChainDoesNotFork, PTL DEF FassungenAreOneHistory

\* generate.ts, sections.ts, verfahrensdoku.ts:130: neither a tenant's name nor
\* a hole in the chain ever refuses a fassung, a request fails only where another
\* one was first; and what was answered 201 is on record, or its COMMIT is still
\* to come, or its connection was lost.
THEOREM AnswersTrue == Spec => []AnswersAreTrue
<1>1. IInv => OnlyLosersAreRefused
  BY DEF IInv, ReqInv, OnlyLosersAreRefused
<1>2. IInv => AnsweredIsOnRecord
  BY DEF IInv, ReqInv, AnsweredIsOnRecord
<1>3. QED
  BY <1>1, <1>2, InvHolds, PTL DEF AnswersAreTrue

-----------------------------------------------------------------------------
(* What is handed over *)

\* A fassung bears the hash of what it states, and states its own number.
HashesFit ==
  \A i \in 1..N : /\ fassungen[i].contentHash = Canonicalise(fassungen[i].facts)
                  /\ fassungen[i].version = fassungen[i].facts.version

LEMMA RowOfFields ==
  \A input : /\ RowOf(input).contentHash = Canonicalise(input)
             /\ RowOf(input).facts = input
             /\ RowOf(input).version = input.version
BY DEF RowOf

LEMMA HashesFitFirst == Init => HashesFit
<1>. SUFFICES ASSUME Init PROVE HashesFit
  OBVIOUS
<1>1. PICK row : row = RowOf(FirstInput)
  OBVIOUS
<1>2. row.contentHash = Canonicalise(row.facts) /\ row.version = row.facts.version
  BY <1>1, RowOfFields
<1>3. fassungen = <<>> \/ fassungen = <<row>>
  BY <1>1 DEF Init
<1>4. \A i \in 1..N : fassungen[i] = row
  BY <1>3
<1>5. QED
  BY <1>2, <1>4 DEF HashesFit

LEMMA HashesStayFit == IInv /\ HashesFit /\ [Next]_vars => HashesFit'
<1>. SUFFICES ASSUME IInv, HashesFit, [Next]_vars PROVE HashesFit'
  OBVIOUS
<1>1. CASE UNCHANGED fassungen
  BY <1>1 DEF HashesFit
<1>2. PICK H : Shape(H)
  BY DEF IInv
<1>3. fassungen \in Seq(Rows(H)) /\ N \in Nat
  BY <1>2 DEF Shape
<1>4. ASSUME NEW q \in Requests, Commit(q)
      PROVE  HashesFit'
  <2>1. PICK row : row = RowOf(req[q].input)
    OBVIOUS
  <2>2. row.contentHash = Canonicalise(row.facts) /\ row.version = row.facts.version
    BY <2>1, RowOfFields
  <2>3. fassungen' = Append(fassungen, row)
    BY <1>4, <2>1 DEF Commit
  <2>4. /\ N' = N + 1 /\ fassungen'[N + 1] = row
        /\ \A k \in 1..N : fassungen'[k] = fassungen[k]
    BY <1>3, <2>3
  <2>5. \A i \in 1..N' : i \in 1..N \/ i = N + 1
    BY <1>3, <2>4
  <2>6. QED
    BY <2>2, <2>3, <2>4, <2>5 DEF HashesFit
<1>6. CASE \E q \in Requests : Commit(q)
  BY <1>4, <1>6
<1>8. CASE ~ \E q \in Requests : Commit(q)
  <2>1. UNCHANGED fassungen
    BY <1>8 DEF Next, Step, ProbeValidator, LatestDoku, GatherFacts, InsertDoku, Answer,
                LoseConnection, Receive, SealDay, SidecarChanges, vars
  <2>2. QED
    BY <2>1, <1>1
<1>9. QED
  BY <1>6, <1>8

LEMMA HashesHold == Spec => []HashesFit
<1>1. Init => HashesFit
  BY HashesFitFirst
<1>2. IInv /\ HashesFit /\ [Next]_vars => HashesFit'
  BY HashesStayFit
<1>3. QED
  BY <1>1, <1>2, InvHolds, PTL DEF Spec

-----------------------------------------------------------------------------
(* What the chain of hashes shows of a table that was altered *)

LEMMA HashHasVersion ==
  ASSUME NEW a, NEW b, Canonicalise(a) = Canonicalise(b)
  PROVE  a.version = b.version
BY DEF Canonicalise

\* No two fassungen have the same content hash: each is of its own number.
LEMMA HashesDiffer ==
  ASSUME IInv, HashesFit, NEW i \in 1..N, NEW j \in 1..N,
         fassungen[i].contentHash = fassungen[j].contentHash
  PROVE  i = j
<1>1. fassungen[i].version = i /\ fassungen[j].version = j
  BY DEF IInv, RowInv
<1>2. Canonicalise(fassungen[i].facts) = Canonicalise(fassungen[j].facts)
  BY DEF HashesFit
<1>3. fassungen[i].facts.version = fassungen[j].facts.version
  BY <1>2, HashHasVersion
<1>4. QED
  BY <1>1, <1>3 DEF HashesFit

LEMMA Links ==
  ASSUME IInv
  PROVE  /\ N \in Nat
         /\ \A i \in 1..N : fassungen[i].prevHash = IF i = 1 THEN {} ELSE {fassungen[i - 1].contentHash}
         /\ \E H : fassungen \in Seq(Rows(H))
<1>1. PICK H : fassungen \in Seq(Rows(H))
  BY DEF IInv, Shape
<1>2. N \in Nat
  BY <1>1
<1>3. \A i \in 1..N : RowInv(i)
  BY DEF IInv
<1>4. \A i \in 1..N : fassungen[i].prevHash = IF i = 1 THEN {} ELSE {fassungen[i - 1].contentHash}
  BY <1>3 DEF RowInv
<1>5. QED
  BY <1>1, <1>2, <1>4

\* One row altered: the links of the others are as they were.
LEMMA AlteredRow ==
  ASSUME IInv, NEW i \in 1..N, NEW row
  PROVE  VerifyDokuChain([fassungen EXCEPT ![i] = row]) <=>
           /\ row.prevHash = fassungen[i].prevHash
           /\ i < N => row.contentHash = fassungen[i].contentHash
<1>. DEFINE rows == [fassungen EXCEPT ![i] = row]
<1>1. PICK H : fassungen \in Seq(Rows(H))
  BY Links
<1>2. /\ N \in Nat /\ Len(rows) = N /\ rows[i] = row
      /\ \A j \in 1..N \ {i} : rows[j] = fassungen[j]
  BY <1>1
<1>3. \A j \in 1..N : fassungen[j].prevHash = IF j = 1 THEN {} ELSE {fassungen[j - 1].contentHash}
  BY Links
<1>. HIDE DEF rows
<1>4. ASSUME VerifyDokuChain(rows)
      PROVE  /\ row.prevHash = fassungen[i].prevHash
             /\ i < N => row.contentHash = fassungen[i].contentHash
  <2>1. \A j \in 1..N : rows[j].prevHash = IF j = 1 THEN {} ELSE {rows[j - 1].contentHash}
    BY <1>2, <1>4 DEF VerifyDokuChain
  <2>2. i # 1 => rows[i - 1] = fassungen[i - 1]
    <3>1. i # 1 => i - 1 \in 1..N \ {i}
      BY <1>2
    <3>2. QED
      BY <1>2, <3>1
  <2>3. row.prevHash = fassungen[i].prevHash
    <3>1. rows[i].prevHash = IF i = 1 THEN {} ELSE {rows[i - 1].contentHash}
      BY <2>1
    <3>2. fassungen[i].prevHash = IF i = 1 THEN {} ELSE {fassungen[i - 1].contentHash}
      BY <1>3
    <3>3. QED
      BY <1>2, <2>2, <3>1, <3>2
  <2>4. ASSUME i < N PROVE row.contentHash = fassungen[i].contentHash
    <3>1. i + 1 \in 1..N \ {i} /\ i + 1 # 1 /\ (i + 1) - 1 = i
      BY <1>2, <2>4
    <3>2. {row.contentHash} = {fassungen[i].contentHash}
      BY <1>2, <1>3, <2>1, <3>1
    <3>3. QED
      BY <3>2
  <2>5. QED
    BY <2>3, <2>4
<1>5. ASSUME /\ row.prevHash = fassungen[i].prevHash
             /\ i < N => row.contentHash = fassungen[i].contentHash
      PROVE  VerifyDokuChain(rows)
  <2>. SUFFICES ASSUME NEW j \in 1..N
                PROVE  rows[j].prevHash = IF j = 1 THEN {} ELSE {rows[j - 1].contentHash}
    BY <1>2 DEF VerifyDokuChain
  <2>1. rows[j].prevHash = fassungen[j].prevHash
    BY <1>2, <1>5
  <2>2. ASSUME j # 1 PROVE rows[j - 1].contentHash = fassungen[j - 1].contentHash
    <3>1. j - 1 \in 1..N /\ j - 1 < N
      BY <1>2, <2>2
    <3>2. CASE j - 1 = i
      BY <1>2, <1>5, <3>1, <3>2
    <3>3. CASE j - 1 # i
      BY <1>2, <3>1, <3>3
    <3>4. QED
      BY <3>2, <3>3
  <2>3. QED
    BY <1>3, <2>1, <2>2
<1>6. QED
  BY <1>4, <1>5 DEF rows

LEMMA LeftOver ==
  ASSUME IInv, NEW i \in 1..N
  PROVE  /\ Len(RowsWithout(i)) = N - 1
         /\ \A j \in 1..N - 1 : RowsWithout(i)[j] = fassungen[IF j < i THEN j ELSE j + 1]
<1>1. PICK H : fassungen \in Seq(Rows(H))
  BY Links
<1>2. N \in Nat /\ N - 1 \in Nat
  BY <1>1
<1>3. \A j \in 1..N - 1 : fassungen[IF j < i THEN j ELSE j + 1] \in Rows(H)
  <2>1. \A j \in 1..N - 1 : (IF j < i THEN j ELSE j + 1) \in 1..N
    BY <1>2
  <2>2. \A k \in 1..N : fassungen[k] \in Rows(H)
    BY <1>1
  <2>3. QED
    BY <2>1, <2>2
<1>4. RowsWithout(i) \in Seq(Rows(H))
  BY <1>2, <1>3, IsASeq DEF RowsWithout
<1>5. DOMAIN RowsWithout(i) = 1..N - 1
  BY DEF RowsWithout
<1>6. Len(RowsWithout(i)) = N - 1
  BY <1>2, <1>4, <1>5, LenProperties
<1>7. QED
  BY <1>6 DEF RowsWithout

LEMMA DeletedRow ==
  ASSUME IInv, HashesFit, NEW i \in 1..N
  PROVE  VerifyDokuChain(RowsWithout(i)) <=> i = N
<1>1. PICK rows : rows = RowsWithout(i)
  OBVIOUS
<1>2. N \in Nat /\ Len(rows) = N - 1
  BY <1>1, Links, LeftOver
<1>3. \A j \in 1..N - 1 : rows[j] = fassungen[IF j < i THEN j ELSE j + 1]
  BY <1>1, LeftOver
<1>4. \A j \in 1..N : fassungen[j].prevHash = IF j = 1 THEN {} ELSE {fassungen[j - 1].contentHash}
  BY Links
<1>5. ASSUME i = N PROVE VerifyDokuChain(rows)
  <2>. SUFFICES ASSUME NEW j \in 1..N - 1
                PROVE  rows[j].prevHash = IF j = 1 THEN {} ELSE {rows[j - 1].contentHash}
    BY <1>2 DEF VerifyDokuChain
  <2>1. rows[j] = fassungen[j] /\ j \in 1..N
    BY <1>2, <1>3, <1>5
  <2>2. j # 1 => rows[j - 1] = fassungen[j - 1]
    BY <1>2, <1>3, <1>5
  <2>3. QED
    BY <1>4, <2>1, <2>2
<1>6. ASSUME i # N, VerifyDokuChain(rows) PROVE FALSE
  <2>1. i \in 1..N - 1 /\ i + 1 \in 1..N /\ (i + 1) - 1 = i /\ i + 1 # 1
    BY <1>2, <1>6
  <2>2. rows[i] = fassungen[i + 1]
    BY <1>3, <2>1
  <2>3. fassungen[i + 1].prevHash = {fassungen[i].contentHash}
    BY <1>4, <2>1
  <2>4. rows[i].prevHash = IF i = 1 THEN {} ELSE {rows[i - 1].contentHash}
    BY <1>2, <1>6, <2>1 DEF VerifyDokuChain
  <2>5. i # 1 /\ {rows[i - 1].contentHash} = {fassungen[i].contentHash}
    BY <2>2, <2>3, <2>4
  <2>6. i - 1 \in 1..N - 1 /\ i - 1 \in 1..N /\ i - 1 < i
    BY <1>2, <2>5
  <2>7. fassungen[i - 1].contentHash = fassungen[i].contentHash
    BY <1>3, <2>5, <2>6
  <2>8. QED
    BY <2>6, <2>7, HashesDiffer
<1>7. QED
  BY <1>1, <1>5, <1>6

\* verifyDokuChain: what of an altered table it shows, and that it shows no more:
\* a content hash that a later fassung follows, a link, a fassung missing in the
\* middle.
THEOREM HashesShow == Spec => []ChangedHashesShow
<1>1. IInv /\ HashesFit => ChangedHashesShow
  BY AlteredRow, DeletedRow DEF ChangedHashesShow
<1>2. QED
  BY <1>1, InvHolds, HashesHold, PTL

-----------------------------------------------------------------------------
(* The page *)

\* render.ts: no text reaches the page with its markup.
LEMMA EscapedHasNoMarkup == \A words : MARKUP \notin EscapeHtml(words)
BY DEF EscapeHtml, MARKUP, ESCAPED

LEMMA PageHasNoMarkup == \A doc : MARKUP \notin RenderHtml(doc).words
<1>. SUFFICES ASSUME NEW doc PROVE MARKUP \notin RenderHtml(doc).words
  OBVIOUS
<1>1. \A section : MARKUP \notin RenderSection(section)
  BY EscapedHasNoMarkup DEF RenderSection, FactValue
<1>2. RenderHtml(doc).words = EscapeHtml(Tenant.name)
                              \cup UNION {RenderSection(doc.sections[s]) : s \in 1..Len(doc.sections)}
  BY DEF RenderHtml
<1>3. QED
  BY <1>1, <1>2, EscapedHasNoMarkup

LEMMA GeneratedFields ==
  ASSUME NEW input
  PROVE  LET doc == Generate(input) IN
         /\ doc.complete <=> doc.openItems = {}
         /\ doc.contentHash = Canonicalise(input)
<1>1. PICK sections : sections = Sections(input)
  OBVIOUS
<1>2. PICK items : items = OpenItems(sections)
  OBVIOUS
<1>3. PICK hash : hash = Canonicalise(input)
  OBVIOUS
<1>4. PICK doc : doc = Generate(input)
  OBVIOUS
<1>5. doc = [version |-> input.version, sections |-> sections, openItems |-> items,
             complete |-> items = {}, previousHash |-> input.previousHash, contentHash |-> hash]
  BY <1>1, <1>2, <1>3, <1>4 DEF Generate
<1>6. doc.openItems = items /\ doc.contentHash = hash
  BY ONLY <1>5
<1>7. doc.complete <=> items = {}
  BY ONLY <1>5, Zenon
<1>8. QED
  BY <1>3, <1>4, <1>6, <1>7

\* generate.ts, render.ts: whatever the tenant, the storage and the accounts are
\* called, every fassung that is handed over says that it is a draft as long as
\* something in it is open, bears the hash of what it states,
\* and shows no text of the tenant as markup.
THEOREM HandedOver == Spec => []HandedOverAsWhatItIs
<1>1. HashesFit => HandedOverAsWhatItIs
  <2>. SUFFICES ASSUME HashesFit, NEW i \in 1..N
                PROVE  LET doc == Generate(fassungen[i].facts)
                           html == RenderHtml(doc)
                       IN /\ doc.openItems # {} => ~doc.complete /\ html.status = "draft"
                          /\ html.open = Cardinality(doc.openItems)
                          /\ html.hash = fassungen[i].contentHash
                          /\ MARKUP \notin html.words
    BY DEF HandedOverAsWhatItIs
  <2>1. PICK doc : doc = Generate(fassungen[i].facts)
    OBVIOUS
  <2>2. (doc.complete <=> doc.openItems = {}) /\ doc.contentHash = Canonicalise(fassungen[i].facts)
    BY <2>1, GeneratedFields
  <2>3. /\ RenderHtml(doc).hash = doc.contentHash
        /\ RenderHtml(doc).open = Cardinality(doc.openItems)
    BY DEF RenderHtml
  <2>4. RenderHtml(doc).status = IF doc.complete THEN "done" ELSE "draft"
    BY DEF RenderHtml
  <2>5. MARKUP \notin RenderHtml(doc).words
    BY PageHasNoMarkup
  <2>6. RenderHtml(doc).hash = fassungen[i].contentHash
    BY <2>2, <2>3 DEF HashesFit
  <2>7. doc.openItems # {} => ~doc.complete /\ RenderHtml(doc).status = "draft"
    BY <2>2, <2>4
  <2>8. QED
    BY <2>1, <2>3, <2>5, <2>6, <2>7
<1>2. QED
  BY <1>1, HashesHold, PTL
=============================================================================
