------------------------------ MODULE BooksProofs ------------------------------
(***************************************************************************)
(* What holds of Books for every set of documents, rows and requests.      *)
(*                                                                         *)
(* First what a request owes (IInv): nothing of its period is missing, and *)
(* no name is used twice.  Then what it writes (WInv), as another program  *)
(* reads it: a fold of the community modules is shown to run through its   *)
(* intermediate values (Foldable, JoinSteps), and on these a reader that   *)
(* minds quotes (Reads), one that counts lines (Stands) and the checksum   *)
(* of an account number are followed part by part.                         *)
(***************************************************************************)
EXTENDS Books, FiniteSetTheorems, SequenceTheorems, WellFoundedInduction, TLAPS

-----------------------------------------------------------------------------
(* The invariant.                                                          *)

Fields(r) == r = [at |-> r.at, seen |-> r.seen, todo |-> r.todo, out |-> r.out,
                  rows |-> r.rows, skipped |-> r.skipped, code |-> r.code]

IsList(s) == s \in Seq(ToSet(s))

Expected(r, o) == {d \in r.seen : InPeriod(d, o)}
Handed(rows) == {x.doc : x \in {y \in ToSet(rows) : y.note = ""}}
NamesDiffer(out) == \A i, j \in DOMAIN out : i # j => out[i].name # out[j].name

\* The loop over the documents of a bundle: each is still to be read or has its
\* line, those without a note are in, and no name is used twice.
Bundling(r, o) ==
  /\ r.seen \subseteq Docs /\ r.todo \in Seq(Docs) /\ IsList(r.rows) /\ IsList(r.out)
  /\ Len(r.rows) + Len(r.todo) = Cardinality(Expected(r, o))
  /\ DocsOf(r.rows) \cup ToSet(r.todo) = Expected(r, o)
  /\ DocsOf(r.out) = Handed(r.rows) /\ Len(r.out) <= Len(r.rows)
  /\ NamesDiffer(r.out)
  /\ \A i \in DOMAIN r.out : r.out[i].name # ManifestName

Bundle(r, o) ==
  /\ DocsOf(r.rows) = Expected(r, o) /\ Len(r.rows) = Cardinality(Expected(r, o))
  /\ DocsOf(Tail(r.out)) = Handed(r.rows)
  /\ NamesDiffer(r.out)
  /\ Len(r.out) <= MaxEntries

Stapel(r, o) == DocsOf(r.out) \cup r.skipped = Expected(r, o)

Keeps(r, o) ==
  /\ Fields(r)
  /\ r.at # "done" => r.code = 0
  /\ r.at = "idle" => r = Fresh
  /\ o.kind = "belege" /\ r.at = "reading" => Bundling(r, o)
  /\ o.kind = "belege" /\ r.code = 200 => Bundle(r, o)
  /\ o.kind = "datev" /\ r.code = 200 => Stapel(r, o)

World ==
  /\ documents \subseteq Docs
  /\ object \in [Docs -> {"same", "gone", "changed", "down"}]
  /\ job \in Jobs
  /\ req = [q \in Requests |-> req[q]]

IInv == World /\ \A q \in Requests : Keeps(req[q], job[q])

-----------------------------------------------------------------------------
(* The order of the listings.                                              *)

LEMMA FiniteDocs ==
  ASSUME NEW S \in SUBSET Docs
  PROVE  IsFiniteSet(S) /\ Cardinality(S) \in Nat /\ Cardinality(S) <= Cardinality(Docs)
BY FS_Subset, FS_CardinalityType, BoundAssumption

LEMMA OrderIsTotal ==
  /\ \A a \in Docs : ~ Before(a, a)
  /\ \A a, b, c \in Docs : Before(a, b) /\ Before(b, c) => Before(a, c)
  /\ \A a, b \in Docs : a # b => Before(a, b) \/ Before(b, a)
<1>1. \A d \in Docs : d \in Nat /\ Row[d].issued \in Nat
  BY RowAssumption, BoundAssumption DEF Document
<1>2. \A d \in Docs : Collation[d] \in Nat
  BY CollationAssumption
<1> QED BY <1>1, <1>2 DEF Before, Sooner

LEMMA StrictSubset ==
  ASSUME NEW S, IsFiniteSet(S), NEW T \in SUBSET S, NEW x \in S, x \notin T
  PROVE  Cardinality(T) \in Nat /\ Cardinality(S) \in Nat /\ Cardinality(T) < Cardinality(S)
BY FS_Subset, FS_CardinalityType

Rank(S) == [d \in S |-> Cardinality({e \in S : Before(e, d)}) + 1]

LEMMA RanksDiffer ==
  ASSUME NEW S \in SUBSET Docs, NEW d \in S, NEW e \in S, Before(d, e)
  PROVE  Rank(S)[d] < Rank(S)[e]
<1> DEFINE D == {x \in S : Before(x, d)}
           E == {x \in S : Before(x, e)}
<1>1. D \in SUBSET E /\ d \in E /\ d \notin D
  BY OrderIsTotal
<1>2. IsFiniteSet(E)
  BY FiniteDocs
<1>3. Cardinality(D) \in Nat /\ Cardinality(E) \in Nat /\ Cardinality(D) < Cardinality(E)
  BY ONLY <1>1, <1>2, StrictSubset
<1> QED BY <1>3 DEF Rank

LEMMA RankIsBijection ==
  ASSUME NEW S \in SUBSET Docs
  PROVE  /\ Rank(S) \in [S -> 1..Cardinality(S)]
         /\ \A d, e \in S : Rank(S)[d] = Rank(S)[e] => d = e
         /\ \A k \in 1..Cardinality(S) : \E d \in S : Rank(S)[d] = k
<1> DEFINE N == Cardinality(S)
<1>1. IsFiniteSet(S) /\ N \in Nat
  BY FiniteDocs
<1>2. ASSUME NEW d \in S
      PROVE  Rank(S)[d] \in 1..N
  <2> DEFINE D == {x \in S : Before(x, d)}
  <2>1. D \in SUBSET S /\ d \notin D
    BY OrderIsTotal
  <2>2. Cardinality(D) \in Nat /\ Cardinality(D) < N
    BY <1>1, <2>1, StrictSubset
  <2> QED BY <1>1, <2>2 DEF Rank
<1>3. Rank(S) \in [S -> 1..N]
  BY <1>2 DEF Rank
<1>4. ASSUME NEW d \in S, NEW e \in S, Rank(S)[d] = Rank(S)[e]
      PROVE  d = e
  <2>1. Rank(S)[d] \in Nat /\ Rank(S)[e] \in Nat
    BY <1>1, <1>2
  <2>2. ~ Before(d, e) /\ ~ Before(e, d)
    BY <2>1, <1>4, RanksDiffer
  <2> QED BY <2>2, OrderIsTotal
<1>5. Rank(S) \in Injection(S, 1..N)
  BY <1>3, <1>4 DEF Injection, IsInjective
<1>6. IsFiniteSet(1..N) /\ Cardinality(1..N) = N
  BY <1>1, FS_Interval
<1>7. Rank(S) \in Surjection(S, 1..N)
  BY <1>5, <1>6, FS_Injection
<1> QED BY <1>3, <1>4, <1>7 DEF Surjection

\* A listing has each of its documents once.
LEMMA InOrderIsEnumeration ==
  ASSUME NEW S \in SUBSET Docs
  PROVE  /\ InOrder(S) \in Seq(S) /\ Len(InOrder(S)) = Cardinality(S)
         /\ ToSet(InOrder(S)) = S
<1> DEFINE N == Cardinality(S)
           L == InOrder(S)
           nth(k) == CHOOSE d \in S : Cardinality({e \in S : Before(e, d)}) = k - 1
<1>1. N \in Nat
  BY FiniteDocs
<1>2. ASSUME NEW k \in 1..N, NEW d \in S, Rank(S)[d] = k
      PROVE  nth(k) = d
  <2>1. \A x \in S : Cardinality({e \in S : Before(e, x)}) \in Nat
    BY FiniteDocs
  <2>2. \A x \in S : Rank(S)[x] = k <=> Cardinality({e \in S : Before(e, x)}) = k - 1
    BY <2>1 DEF Rank
  <2>3. \A x \in S : Rank(S)[x] = k => x = d
    BY <1>2, RankIsBijection
  <2> QED BY <1>2, <2>2, <2>3
<1>3. L = [k \in 1..N |-> nth(k)]
  BY DEF InOrder
<1>4. ASSUME NEW k \in 1..N
      PROVE  nth(k) \in S
  <2>1. PICK d \in S : Rank(S)[d] = k
    BY RankIsBijection
  <2> HIDE DEF nth
  <2> QED BY <2>1, <1>2
<1>5. \A d \in S : Rank(S)[d] \in 1..N /\ nth(Rank(S)[d]) = d
  BY <1>2, RankIsBijection
<1> HIDE DEF L, nth
<1>6. L \in [1..N -> S]
  BY <1>3, <1>4
<1>7. L \in Seq(S) /\ Len(L) = N
  BY <1>1, <1>6
<1>8. ToSet(L) = S
  <2>1. DOMAIN L = 1..N
    BY <1>3
  <2>2. \A d \in S : Rank(S)[d] \in DOMAIN L /\ L[Rank(S)[d]] = d
    BY <2>1, <1>3, <1>5
  <2>3. \A k \in DOMAIN L : L[k] \in S
    BY <2>1, <1>6
  <2> QED BY <2>2, <2>3 DEF ToSet
<1> QED BY <1>7, <1>8 DEF L

LEMMA SomeOrderIsEnumeration ==
  ASSUME NEW S \in SUBSET Docs, NEW s \in InSomeOrder(S)
  PROVE  s \in Seq(Docs) /\ ToSet(s) = S
<1>1. Cardinality(S) \in Nat
  BY FiniteDocs
<1>2. s \in [1..Cardinality(S) -> S] /\ ToSet(s) = S
  BY DEF InSomeOrder
<1>3. s \in [1..Cardinality(S) -> Docs]
  BY <1>2
<1> QED BY <1>1, <1>2, <1>3

-----------------------------------------------------------------------------
(* Lists.                                                                  *)

LEMMA ListParts ==
  ASSUME NEW s, IsList(s)
  PROVE  Len(s) \in Nat /\ DOMAIN s = 1..Len(s)
BY DEF IsList

LEMMA EmptyList == IsList(<<>>) /\ Len(<<>>) = 0 /\ DOMAIN <<>> = {} /\ DocsOf(<<>>) = {}
<1>1. DOMAIN <<>> = {}
  OBVIOUS
<1> QED BY <1>1, EmptySeq DEF IsList, DocsOf

LEMMA SeqIsList ==
  ASSUME NEW S, NEW s \in Seq(S)
  PROVE  IsList(s) /\ ToSet(s) \subseteq S
<1>1. Len(s) \in Nat /\ DOMAIN s = 1..Len(s) /\ s \in [1..Len(s) -> S]
  BY LenProperties
<1>2. s \in [1..Len(s) -> ToSet(s)]
  BY <1>1 DEF ToSet
<1>3. s \in Seq(ToSet(s))
  BY <1>1, <1>2, SeqDef
<1>4. ToSet(s) \subseteq S
  BY <1>1 DEF ToSet
<1> QED BY <1>3, <1>4 DEF IsList

LEMMA AppendList ==
  ASSUME NEW s, IsList(s), NEW e
  PROVE  /\ IsList(Append(s, e)) /\ Len(Append(s, e)) = Len(s) + 1
         /\ DOMAIN Append(s, e) = 1..(Len(s) + 1)
         /\ \A i \in 1..Len(s) : Append(s, e)[i] = s[i]
         /\ Append(s, e)[Len(s) + 1] = e
         /\ ToSet(Append(s, e)) = ToSet(s) \cup {e}
         /\ DocsOf(Append(s, e)) = DocsOf(s) \cup {e.doc}
<1> DEFINE S == ToSet(s) \cup {e}
           t == Append(s, e)
<1>1. s \in Seq(S)
  BY SeqMonotonic DEF IsList
<1>2. /\ t \in Seq(S) /\ Len(t) = Len(s) + 1
      /\ \A i \in 1..Len(s) : t[i] = s[i]
      /\ t[Len(s) + 1] = e
  BY <1>1, AppendProperties
<1>3. Len(s) \in Nat /\ DOMAIN s = 1..Len(s)
  BY ListParts
<1>4. IsList(t) /\ DOMAIN t = 1..(Len(s) + 1)
  BY <1>2, SeqIsList, LenProperties
<1> HIDE DEF t
<1>5. ToSet(t) = ToSet(s) \cup {e}
  BY <1>2, <1>3, <1>4 DEF ToSet
<1>6. DocsOf(t) = DocsOf(s) \cup {e.doc}
  BY <1>2, <1>3, <1>4 DEF DocsOf
<1> QED BY <1>2, <1>4, <1>5, <1>6 DEF t

LEMMA PrependList ==
  ASSUME NEW s, IsList(s), NEW e
  PROVE  /\ Len(<<e>> \o s) = Len(s) + 1 /\ DOMAIN (<<e>> \o s) = 1..(Len(s) + 1)
         /\ Tail(<<e>> \o s) = s
         /\ (<<e>> \o s)[1] = e
         /\ \A i \in 1..Len(s) : (<<e>> \o s)[i + 1] = s[i]
<1> DEFINE S == ToSet(s) \cup {e}
           t == <<e>> \o s
<1>1. s \in Seq(S) /\ <<e>> \in Seq(S) /\ Len(<<e>>) = 1 /\ <<e>>[1] = e
  <2>1. s \in Seq(S)
    BY SeqMonotonic DEF IsList
  <2> QED BY <2>1
<1>2. Len(s) \in Nat
  BY <1>1, LenProperties
<1>3. /\ t \in Seq(S) /\ Len(t) = 1 + Len(s)
      /\ \A i \in 1..(1 + Len(s)) : t[i] = IF i <= 1 THEN <<e>>[i] ELSE s[i - 1]
  <2> HIDE DEF S
  <2>1. /\ <<e>> \o s \in Seq(S) /\ Len(<<e>> \o s) = Len(<<e>>) + Len(s)
        /\ \A i \in 1..(Len(<<e>>) + Len(s)) :
             (<<e>> \o s)[i] = IF i <= Len(<<e>>) THEN <<e>>[i] ELSE s[i - Len(<<e>>)]
    BY ONLY <1>1, ConcatProperties
  <2> QED BY <2>1, <1>1
<1> HIDE DEF t, S
<1>4. t[1] = e /\ \A i \in 1..Len(s) : t[i + 1] = s[i]
  BY <1>1, <1>2, <1>3
<1>5. t # <<>>
  BY <1>2, <1>3
<1>6. /\ Tail(t) \in Seq(S) /\ Len(Tail(t)) = Len(s)
      /\ \A i \in 1..Len(s) : Tail(t)[i] = s[i]
  <2>1. /\ Tail(t) \in Seq(S) /\ Len(Tail(t)) = Len(t) - 1
        /\ \A i \in 1..Len(Tail(t)) : Tail(t)[i] = t[i + 1]
    BY <1>3, <1>5, HeadTailProperties
  <2> QED BY <2>1, <1>2, <1>3, <1>4
<1>7. Tail(t) = s
  BY <1>1, <1>6, SeqEqual
<1>8. DOMAIN t = 1..(Len(s) + 1)
  BY <1>2, <1>3, LenProperties
<1> QED BY <1>2, <1>3, <1>4, <1>7, <1>8 DEF t

\* What is read is the head of what is left, and then no longer left.
LEMMA TakeOne ==
  ASSUME NEW S, NEW s \in Seq(S), s # <<>>
  PROVE  /\ Head(s) \in S /\ Head(s) \in ToSet(s) /\ Tail(s) \in Seq(S) /\ Len(s) = Len(Tail(s)) + 1
         /\ ToSet(s) = {Head(s)} \cup ToSet(Tail(s))
<1>1. /\ Head(s) \in S /\ Tail(s) \in Seq(S) /\ Len(Tail(s)) = Len(s) - 1
      /\ \A i \in 1..Len(Tail(s)) : Tail(s)[i] = s[i + 1]
  BY HeadTailProperties
<1>2. Len(s) \in Nat /\ Len(s) # 0 /\ DOMAIN s = 1..Len(s)
  BY EmptySeq, LenProperties
<1>3. Len(Tail(s)) \in Nat /\ DOMAIN Tail(s) = 1..(Len(s) - 1)
  BY <1>1, LenProperties
<1>4. Head(s) = s[1]
  OBVIOUS
<1>5. ToSet(s) = {s[1]} \cup {s[i + 1] : i \in 1..(Len(s) - 1)}
  <2>1. \A i \in 1..Len(s) : i = 1 \/ (i - 1 \in 1..(Len(s) - 1) /\ i = (i - 1) + 1)
    BY <1>2
  <2>2. \A i \in 1..(Len(s) - 1) : i + 1 \in 1..Len(s)
    BY <1>2
  <2>3. 1 \in 1..Len(s)
    BY <1>2
  <2>4. ToSet(s) = {s[i] : i \in 1..Len(s)}
    BY <1>2 DEF ToSet
  <2>5. ToSet(s) \subseteq {s[1]} \cup {s[i + 1] : i \in 1..(Len(s) - 1)}
    BY <2>1, <2>4
  <2> QED BY <2>2, <2>3, <2>4, <2>5
<1>6. ToSet(Tail(s)) = {s[i + 1] : i \in 1..(Len(s) - 1)}
  BY <1>1, <1>3 DEF ToSet
<1> QED BY <1>1, <1>2, <1>4, <1>5, <1>6
-----------------------------------------------------------------------------
(* The names in a bundle.                                                  *)

LEMMA ConcatList ==
  ASSUME NEW s, IsList(s), NEW t, IsList(t)
  PROVE  IsList(s \o t)
<1> DEFINE S == ToSet(s) \cup ToSet(t)
<1>1. s \in Seq(S) /\ t \in Seq(S)
  BY SeqMonotonic DEF IsList
<1>2. s \o t \in Seq(S)
  BY <1>1, ConcatProperties
<1> QED BY <1>2, SeqIsList

LEMMA CutIsList ==
  ASSUME NEW s, IsList(s), NEW max \in Nat
  PROVE  IsList(Cut(s, max))
<1> DEFINE n == IF Len(s) < max THEN Len(s) ELSE max
<1>1. Len(s) \in Nat /\ DOMAIN s = 1..Len(s)
  BY ListParts
<1>2. n \in Nat /\ n <= Len(s)
  BY <1>1
<1>3. \A i \in 1..n : s[i] \in ToSet(s)
  BY <1>1, <1>2 DEF ToSet
<1>4. SubSeq(s, 1, n) \in Seq(ToSet(s))
  <2> HIDE DEF n
  <2> QED BY <1>2, <1>3, SubSeqProperties
<1>5. IsList(SubSeq(s, 1, n))
  BY <1>4, SeqIsList
<1> QED BY <1>5 DEF Cut

LEMMA AtIsList ==
  ASSUME NEW s, NEW P, IsFiniteSet(P)
  PROVE  IsList(At(s, P))
<1> DEFINE nth(k) == s[CHOOSE i \in P : Cardinality({j \in P : j < i}) = k - 1]
           S == {nth(k) : k \in 1..Cardinality(P)}
<1>1. Cardinality(P) \in Nat
  BY FS_CardinalityType
<1>2. At(s, P) = [k \in 1..Cardinality(P) |-> nth(k)]
  BY DEF At
<1>3. \A k \in 1..Cardinality(P) : nth(k) \in S
  OBVIOUS
<1> HIDE DEF nth, S
<1>4. At(s, P) \in [1..Cardinality(P) -> S]
  BY <1>2, <1>3
<1>5. At(s, P) \in Seq(S)
  BY <1>1, <1>4
<1> QED BY <1>5, SeqIsList

LEMMA SlugIsList ==
  ASSUME NEW s \in Text
  PROVE  IsList(Slug(s))
<1> DEFINE folded == Replace(Replace(s, {FOLDED}, "a"), {NL, SEMI, QUOTE, ALIEN, GREEK}, "-")
           kept == {i \in 1..Len(s) :
                      folded[i] = "-" => /\ i > 1 /\ folded[i - 1] # "-"
                                         /\ \E j \in i..Len(s) : folded[j] # "-"}
<1>1. Len(s) \in Nat
  BY LenProperties DEF Text
<1>2. IsFiniteSet(1..Len(s))
  BY <1>1, FS_Interval
<1>3. IsFiniteSet(kept)
  BY <1>2, FS_Subset
<1>4. Slug(s) = Cut(At(folded, kept), TextLimit)
  BY DEF Slug
<1> HIDE DEF folded, kept
<1>5. IsList(At(folded, kept))
  BY <1>3, AtIsList
<1>6. TextLimit \in Nat
  BY BoundAssumption
<1> QED BY <1>4, <1>5, <1>6, CutIsList

LEMMA PairIsList == \A a, b : IsList(<<a, b>>) /\ Len(<<a, b>>) = 2 /\ <<a, b>>[1] = a /\ <<a, b>>[2] = b
<1> TAKE a, b
<1>1. <<a, b>> \in Seq({a, b})
  OBVIOUS
<1> QED BY <1>1, SeqIsList

LEMMA OneIsList == \A a : IsList(<<a>>) /\ Len(<<a>>) = 1 /\ <<a>>[1] = a
<1> TAKE a
<1>1. <<a>> \in Seq({a})
  OBVIOUS
<1> QED BY <1>1, SeqIsList

LEMMA StemIsList ==
  ASSUME NEW d \in Docs
  PROVE  IsList(Stem[d])
<1> DEFINE number == Slug(Row[d].number)
           supplier == Slug(Row[d].supplier)
           joined == IF number = <<>> \/ supplier = <<>> THEN <<>> ELSE <<"_">>
           middle == IF number = <<>> /\ supplier = <<>> THEN <<"id", ToString(d)>>
                     ELSE number \o joined \o supplier
           date == <<ToString(Row[d].issued), "_">>
<1>1. Row[d].number \in Text /\ Row[d].supplier \in Text
  BY RowAssumption DEF Document
<1>2. IsList(number) /\ IsList(supplier)
  BY <1>1, SlugIsList
<1>3. IsList(joined)
  BY EmptyList, OneIsList
<1>4. Stem[d] = date \o middle
  BY DEF Stem
<1> HIDE DEF number, supplier, joined
<1>5. IsList(number \o joined)
  BY <1>2, <1>3, ConcatList
<1>6. IsList(number \o joined \o supplier)
  BY <1>2, <1>5, ConcatList
<1>7. IsList(middle)
  BY <1>6, PairIsList
<1>8. IsList(date)
  BY PairIsList
<1> QED
  <2> HIDE DEF middle, date
  <2> QED BY <1>4, <1>7, <1>8, ConcatList

Suffix(n) == IF n = 1 THEN <<>> ELSE <<"_", ToString(n)>>
Candidate(d, n) == Stem[d] \o Suffix(n) \o ExtensionFor(d)

LEMMA SuffixesDiffer ==
  ASSUME NEW m \in 1..(Cardinality(Docs) + 2), NEW n \in 1..(Cardinality(Docs) + 2),
         Suffix(m) = Suffix(n)
  PROVE  m = n
<1>1. Len(<<>>) = 0
  BY EmptyList
<1>2. \A a, b : Len(<<a, b>>) = 2 /\ <<a, b>>[2] = b
  BY PairIsList
<1>3. CASE m # 1 /\ n # 1
  <2>1. ToString(m) = ToString(n)
    BY <1>2, <1>3 DEF Suffix
  <2> QED BY <2>1, CounterAssumption
<1>4. CASE m = 1 /\ n # 1
  BY <1>1, <1>2, <1>4 DEF Suffix
<1>5. CASE m # 1 /\ n = 1
  BY <1>1, <1>2, <1>5 DEF Suffix
<1> QED BY <1>3, <1>4, <1>5

LEMMA CandidatesDiffer ==
  ASSUME NEW d \in Docs,
         NEW m \in 1..(Cardinality(Docs) + 2), NEW n \in 1..(Cardinality(Docs) + 2),
         Candidate(d, m) = Candidate(d, n)
  PROVE  m = n
<1> DEFINE a == Stem[d]
           b == Suffix(m)
           c == Suffix(n)
           e == ExtensionFor(d)
           S == ToSet(a) \cup ToSet(b) \cup ToSet(c) \cup ToSet(e)
<1>1. IsList(a)
  BY StemIsList
<1>2. IsList(b) /\ IsList(c)
  BY EmptyList, PairIsList DEF Suffix
<1>3. IsList(e)
  BY OneIsList DEF ExtensionFor
<1>4. (a \o b) \o e = (a \o c) \o e
  BY DEF Candidate
<1> HIDE DEF a, b, c, e
<1>5. a \in Seq(S) /\ b \in Seq(S) /\ c \in Seq(S) /\ e \in Seq(S)
  BY <1>1, <1>2, <1>3, SeqMonotonic DEF IsList
<1> HIDE DEF S
<1>6. a \o b \in Seq(S) /\ a \o c \in Seq(S)
  BY <1>5, ConcatProperties
<1>7. a \o b = a \o c
  BY <1>4, <1>5, <1>6, ConcatSimplifications
<1>8. b = c
  BY <1>5, <1>7, ConcatSimplifications
<1> QED BY <1>8, SuffixesDiffer DEF b, c

LEMMA Least ==
  ASSUME NEW indices \in SUBSET Nat, indices # {}
  PROVE  Min(indices) \in indices /\ \A j \in indices : Min(indices) <= j
<1>1. PICK i \in indices : \A j \in indices : ~ (<<j, i>> \in OpToRel(<, Nat))
  BY WFMin, NatLessThanWellFounded
<1>2. \A j \in indices : ~ (j < i)
  BY <1>1 DEF OpToRel
<1>3. \A j \in indices : i <= j
  <2>1. i \in Nat /\ \A j \in indices : j \in Nat
    OBVIOUS
  <2>2. QED
    BY ONLY <1>2, <2>1
<1>4. QED
  BY <1>3 DEF Min

\* A bundle never runs out of names.
LEMMA EntryNameIsFree ==
  ASSUME NEW d \in Docs, NEW taken, IsFiniteSet(taken),
         Cardinality(taken) <= Cardinality(Docs) + 1
  PROVE  /\ EntryName(d, taken) \notin taken
         /\ \E n \in 1..(Cardinality(Docs) + 2) : EntryName(d, taken) = Candidate(d, n)
<1> DEFINE N == 1 + Cardinality(taken)
           free == {n \in 1..N : Candidate(d, n) \notin taken}
<1>1. Cardinality(taken) \in Nat /\ Cardinality(Docs) \in Nat
  BY FS_CardinalityType, FiniteDocs
<1>2. 1..N \subseteq 1..(Cardinality(Docs) + 2)
  BY <1>1
<1>3. free # {}
  <2> SUFFICES ASSUME \A n \in 1..N : Candidate(d, n) \in taken
               PROVE  FALSE
    OBVIOUS
  <2> DEFINE f == [n \in 1..N |-> Candidate(d, n)]
  <2>1. f \in [1..N -> taken]
    <3> HIDE DEF N
    <3> QED OBVIOUS
  <2>2. IsFiniteSet(1..N) /\ Cardinality(1..N) = N
    <3>1. N \in Int /\ ~ (1 > N)
      BY <1>1
    <3> HIDE DEF N
    <3>2. IsFiniteSet(1..N) /\ Cardinality(1..N) = IF 1 > N THEN 0 ELSE N - 1 + 1
      BY <3>1, FS_Interval
    <3> QED BY ONLY <3>1, <3>2
  <2>3. Cardinality(taken) < Cardinality(1..N)
    BY <1>1, <2>2
  <2>4. \A x \in 1..N : f[x] = Candidate(d, x)
    OBVIOUS
  <2> HIDE DEF f, N
  <2>5. PICK x \in 1..N, y \in 1..N : x # y /\ f[x] = f[y]
    BY <2>1, <2>2, <2>3, FS_PigeonHole
  <2>6. Candidate(d, x) = Candidate(d, y)
    BY <2>4, <2>5
  <2> QED BY <1>2, <2>5, <2>6, CandidatesDiffer
<1>4. free \in SUBSET Nat
  BY <1>1
<1>5. Min(free) \in free
  <2> HIDE DEF free
  <2> QED BY <1>3, <1>4, Least
<1>6. EntryName(d, taken) = Candidate(d, Min(free))
  BY DEF EntryName, Candidate, Suffix
<1> QED BY <1>2, <1>5, <1>6

-----------------------------------------------------------------------------
(* The steps.                                                              *)

\* One request moves, to a row that keeps what is asked of it.
Moves(q) == \E s : req' = [req EXCEPT ![q] = s] /\ Keeps(s, job[q])

LEMMA FramePreserves ==
  ASSUME IInv, NEW q \in Requests, Moves(q), UnchangedWorld
  PROVE  IInv'
<1>1. PICK s : req' = [req EXCEPT ![q] = s] /\ Keeps(s, job[q])
  BY DEF Moves
<1>2. req = [p \in Requests |-> req[p]] /\ World
  BY DEF IInv, World
<1>3. req' = [p \in Requests |-> req'[p]] /\ \A p \in Requests : req'[p] = IF p = q THEN s ELSE req[p]
  BY ONLY <1>1, <1>2, q \in Requests
<1>4. World'
  BY <1>2, <1>3 DEF World, UnchangedWorld
<1>5. ASSUME NEW p \in Requests
      PROVE  Keeps(req'[p], job'[p])
  <2>1. job'[p] = job[p]
    BY DEF UnchangedWorld
  <2>2. CASE p = q
    BY <1>1, <1>3, <2>1, <2>2
  <2>3. CASE p # q
    <3>1. req'[p] = req[p]
      BY <1>3, <2>3
    <3> QED BY <2>1, <3>1 DEF IInv
  <2> QED BY <2>2, <2>3
<1> QED BY <1>4, <1>5 DEF IInv

LEMMA AnswerMoves ==
  ASSUME IInv, NEW q \in Requests, NEW code, Answer(q, code),
         code = 200 => job[q].kind \in {"sepa", "girocode"}
  PROVE  Moves(q)
<1> DEFINE r == req[q]
<1>1. Fields(r) /\ req = [p \in Requests |-> req[p]]
  BY DEF IInv, World, Keeps
<1>2. req' = [req EXCEPT ![q].at = "done", ![q].code = code]
  BY DEF Answer
<1>3. PICK s : s = [r EXCEPT !.at = "done", !.code = code]
  OBVIOUS
<1>4. req' = [req EXCEPT ![q] = s]
  BY <1>1, <1>2, <1>3
<1>5. Fields(s) /\ s.at = "done" /\ s.code = code
  BY ONLY <1>1, <1>3 DEF Fields
<1>6. Keeps(s, job[q])
  BY <1>5 DEF Keeps
<1> QED BY <1>4, <1>6 DEF Moves

LEMMA ChartIsKnown == \A name : ChartFor(name) \in {"SKR03", "SKR04"}
BY DEF ChartFor, Charts

LEMMA ListingIsExpected ==
  ASSUME World, NEW o
  PROVE  LET S == {d \in documents : InPeriod(d, o)}
             L == InOrder(S)
         IN  /\ S \subseteq Docs
             /\ L \in Seq(Docs) /\ ToSet(L) = S /\ Len(L) = Cardinality(S)
<1> DEFINE S == {d \in documents : InPeriod(d, o)}
<1>1. S \in SUBSET Docs
  BY DEF World
<1> HIDE DEF S
<1>2. InOrder(S) \in Seq(S) /\ ToSet(InOrder(S)) = S /\ Len(InOrder(S)) = Cardinality(S)
  BY <1>1, InOrderIsEnumeration
<1>3. InOrder(S) \in Seq(Docs)
  BY <1>1, <1>2, SeqMonotonic
<1> QED BY <1>1, <1>2, <1>3 DEF S

LEMMA BookingsOfAll ==
  ASSUME NEW postings \in Seq(Docs), NEW chart \in {"SKR03", "SKR04"}
  PROVE  DocsOf([i \in 1..Len(postings) |-> BookingOf(postings[i], chart)]) = ToSet(postings)
<1> DEFINE out == [i \in 1..Len(postings) |-> BookingOf(postings[i], chart)]
<1>1. Len(postings) \in Nat /\ DOMAIN postings = 1..Len(postings)
      /\ \A i \in 1..Len(postings) : postings[i] \in Docs
  BY LenProperties
<1>2. \A d \in Docs : BookingOf(d, chart).doc = d
  BY DEF BookingOf
<1>3. \A i \in 1..Len(postings) : out[i].doc = postings[i]
  BY <1>1, <1>2
<1>4. DOMAIN out = 1..Len(postings)
  OBVIOUS
<1> HIDE DEF out
<1>5. DocsOf(out) = ToSet(postings)
  BY <1>1, <1>3, <1>4 DEF DocsOf, ToSet
<1> QED BY <1>5 DEF out

LEMMA DatevMoves ==
  ASSUME IInv, NEW q \in Requests, DatevExport(q)
  PROVE  Moves(q)
<1> DEFINE o == job[q]
           S == {d \in documents : InPeriod(d, o)}
           postings == {d \in S : Postable(d)}
           out(rows) == [i \in 1..Len(rows) |-> BookingOf(rows[i], ChartFor(o.chart))]
           left == S \ postings
<1>1. CASE Answer(q, 400) \/ Answer(q, 422)
  BY <1>1, AnswerMoves
<1>2. ASSUME NEW rows \in InSomeOrder(postings),
             req' = [req EXCEPT ![q] =
                [@ EXCEPT !.at = "done", !.code = 200, !.seen = documents,
                   !.out = out(rows), !.skipped = left]]
      PROVE  Moves(q)
  <2>1. Fields(req[q]) /\ World
    BY DEF IInv, Keeps
  <2>2. postings \in SUBSET Docs
    BY <2>1 DEF World
  <2>3. PICK w : w = out(rows)
    OBVIOUS
  <2>4. DocsOf(w) = postings
    <3> HIDE DEF postings
    <3>1. rows \in Seq(Docs) /\ ToSet(rows) = postings
      BY <1>2, <2>2, SomeOrderIsEnumeration
    <3> QED BY <2>3, <3>1, ChartIsKnown, BookingsOfAll
  <2>5. DocsOf(w) \cup left = S
    BY <2>4
  <2> HIDE DEF out, left, postings
  <2>6. PICK s : s = [req[q] EXCEPT !.at = "done", !.code = 200, !.seen = documents,
                                    !.out = w, !.skipped = left]
    OBVIOUS
  <2>7. req' = [req EXCEPT ![q] = s]
    BY <1>2, <2>3, <2>6
  <2>8. /\ Fields(s) /\ s.at = "done" /\ s.code = 200 /\ s.seen = documents
        /\ s.out = w /\ s.skipped = left
    BY ONLY <2>1, <2>6 DEF Fields
  <2>9. Stapel(s, o)
    BY <2>5, <2>8 DEF Stapel, Expected
  <2>10. o.kind = "datev"
    BY DEF DatevExport, Step
  <2> QED BY <2>7, <2>8, <2>9, <2>10 DEF Moves, Keeps
<1> QED BY <1>1, <1>2 DEF DatevExport, ListDocumentsForExport

\* A request in the loop owes what the loop does, and nothing else yet.
LEMMA ReadingKeeps ==
  ASSUME NEW r, NEW o, Fields(r), r.at = "reading", r.code = 0, Bundling(r, o)
  PROVE  Keeps(r, o)
<1>1. r.at # "idle" /\ r.code # 200
  OBVIOUS
<1> QED BY <1>1 DEF Keeps

LEMMA ListMoves ==
  ASSUME IInv, NEW q \in Requests, BundleList(q)
  PROVE  Moves(q)
<1> DEFINE o == job[q]
           S == {d \in documents : InPeriod(d, o)}
           listing == InOrder(S)
<1>1. CASE Answer(q, 400) \/ Answer(q, 404)
  BY <1>1, AnswerMoves
<1>2. CASE req' = [req EXCEPT ![q] =
                        [@ EXCEPT !.at = "reading", !.seen = documents, !.todo = listing]]
  <2>1. Keeps(req[q], o) /\ World /\ req[q].at = "idle" /\ o.kind = "belege"
    BY DEF IInv, BundleList, Step
  <2>2. /\ Fields(req[q]) /\ req[q].out = <<>> /\ req[q].rows = <<>> /\ req[q].code = 0
    BY <2>1 DEF Keeps, Fresh
  <2>3. /\ S \subseteq Docs
        /\ listing \in Seq(Docs) /\ ToSet(listing) = S /\ Len(listing) = Cardinality(S)
    BY <2>1, ListingIsExpected
  <2>4. Cardinality(S) \in Nat
    BY <2>3, FiniteDocs
  <2> HIDE DEF listing
  <2>5. PICK s : s = [req[q] EXCEPT !.at = "reading", !.seen = documents, !.todo = listing]
    OBVIOUS
  <2>6. req' = [req EXCEPT ![q] = s]
    BY <1>2, <2>5
  <2>7. /\ Fields(s) /\ s.at = "reading" /\ s.seen = documents /\ s.todo = listing
        /\ s.out = <<>> /\ s.rows = <<>> /\ s.code = 0
    BY ONLY <2>2, <2>5 DEF Fields
  <2>8. Expected(s, o) = S
    BY <2>7 DEF Expected
  <2>9. Handed(<<>>) = {}
    BY EmptyList DEF Handed, ToSet
  <2>10. Bundling(s, o)
    <3>1. s.seen \subseteq Docs /\ s.todo \in Seq(Docs) /\ IsList(s.rows) /\ IsList(s.out)
      BY <2>1, <2>3, <2>7, EmptyList DEF World
    <3>2. Len(s.rows) + Len(s.todo) = Cardinality(S)
      BY <2>3, <2>4, <2>7, EmptyList
    <3>3. DocsOf(s.rows) \cup ToSet(s.todo) = S /\ DocsOf(s.out) = Handed(s.rows)
      BY <2>3, <2>7, <2>9, EmptyList
    <3>4. Len(s.out) <= Len(s.rows) /\ DOMAIN s.out = {}
      BY <2>7, EmptyList
    <3>5. NamesDiffer(s.out) /\ \A i \in DOMAIN s.out : s.out[i].name # ManifestName
      BY <3>4 DEF NamesDiffer
    <3> HIDE DEF S
    <3>6. Len(s.rows) + Len(s.todo) = Cardinality(Expected(s, o))
      BY ONLY <2>8, <3>2
    <3>7. DocsOf(s.rows) \cup ToSet(s.todo) = Expected(s, o)
      BY ONLY <2>8, <3>3
    <3> QED BY ONLY <3>1, <3>3, <3>4, <3>5, <3>6, <3>7 DEF Bundling
  <2>11. Keeps(s, o)
    BY <2>7, <2>10, ReadingKeeps
  <2> QED BY <2>6, <2>11 DEF Moves
<1> QED BY <1>1, <1>2 DEF BundleList, ListBelegeForBundle

LEMMA NamesAreFew ==
  ASSUME NEW out, IsList(out)
  PROVE  LET T == {out[i].name : i \in DOMAIN out}
         IN  IsFiniteSet(T) /\ Cardinality(T) \in Nat /\ Cardinality(T) <= Len(out)
<1> DEFINE T == {out[i].name : i \in DOMAIN out}
           f == [i \in 1..Len(out) |-> out[i].name]
<1>1. Len(out) \in Nat /\ DOMAIN out = 1..Len(out)
  BY ListParts
<1>2. f \in Surjection(1..Len(out), T)
  BY <1>1 DEF Surjection
<1>3. ExistsSurjection(1..Len(out), T)
  <2> HIDE DEF f, T
  <2> QED BY <1>2 DEF ExistsSurjection
<1> HIDE DEF T
<1>4. IsFiniteSet(T)
  BY <1>1, <1>3, FS_NatSurjection
<1>5. Cardinality(T) <= Len(out)
  BY <1>1, <1>3, FS_SurjCardinalityBound
<1> QED BY <1>4, <1>5, FS_CardinalityType DEF T

LEMMA NameIsFree ==
  ASSUME NEW q \in Requests, NEW d \in Docs, IsList(req[q].out),
         Len(req[q].out) <= Cardinality(Docs)
  PROVE  /\ EntryName(d, Taken(q)) \notin Taken(q)
         /\ \E n \in 1..(Cardinality(Docs) + 2) : EntryName(d, Taken(q)) = Candidate(d, n)
<1> DEFINE T == {req[q].out[i].name : i \in DOMAIN req[q].out}
<1>1. IsFiniteSet(T) /\ Cardinality(T) \in Nat /\ Cardinality(T) <= Len(req[q].out)
  BY NamesAreFew
<1>2. Taken(q) = T \cup {ManifestName}
  BY DEF Taken
<1> HIDE DEF T
<1>3. /\ IsFiniteSet(Taken(q))
      /\ Cardinality(Taken(q)) = IF ManifestName \in T THEN Cardinality(T) ELSE Cardinality(T) + 1
  BY <1>1, <1>2, FS_AddElement
<1>4. Cardinality(Docs) \in Nat /\ Len(req[q].out) \in Nat
  BY FiniteDocs, ListParts
<1>5. Cardinality(Taken(q)) <= Cardinality(Docs) + 1
  BY <1>1, <1>3, <1>4
<1> QED BY <1>3, <1>5, EntryNameIsFree

LEMMA NamesOfPrepend ==
  ASSUME NEW out, IsList(out), NamesDiffer(out), NEW e, NEW t,
         \A i \in DOMAIN out : out[i].name # e.name,
         DOMAIN t = 1..(Len(out) + 1), t[1] = e,
         \A i \in 1..Len(out) : t[i + 1] = out[i]
  PROVE  NamesDiffer(t)
<1>1. Len(out) \in Nat /\ DOMAIN out = 1..Len(out)
  BY ListParts
<1>2. ASSUME NEW i \in DOMAIN t, i # 1
      PROVE  i - 1 \in DOMAIN out /\ t[i] = out[i - 1]
  <2>1. i \in Nat /\ i - 1 \in 1..Len(out) /\ (i - 1) + 1 = i
    BY <1>1, <1>2
  <2> QED BY <1>1, <2>1
<1>3. ASSUME NEW i \in DOMAIN t, NEW j \in DOMAIN t, i # j
      PROVE  t[i].name # t[j].name
  <2>1. CASE i = 1
    BY <1>2, <1>3, <2>1
  <2>2. CASE j = 1
    BY <1>2, <1>3, <2>2
  <2>3. CASE i # 1 /\ j # 1
    <3>1. i - 1 # j - 1
      BY <1>1, <1>3
    <3> QED BY <1>2, <2>3, <3>1 DEF NamesDiffer
  <2> QED BY <2>1, <2>2, <2>3
<1> QED BY <1>3 DEF NamesDiffer

LEMMA HandedOfAppend ==
  ASSUME NEW rows, IsList(rows), NEW row
  PROVE  Handed(Append(rows, row)) = Handed(rows) \cup (IF row.note = "" THEN {row.doc} ELSE {})
<1>1. ToSet(Append(rows, row)) = ToSet(rows) \cup {row}
  BY AppendList
<1> QED BY <1>1 DEF Handed

LEMMA NamesOfAppend ==
  ASSUME NEW out, IsList(out), NamesDiffer(out), NEW e,
         \A i \in DOMAIN out : out[i].name # e.name
  PROVE  NamesDiffer(Append(out, e))
<1>1. /\ DOMAIN Append(out, e) = 1..(Len(out) + 1)
      /\ \A i \in 1..Len(out) : Append(out, e)[i] = out[i]
      /\ Append(out, e)[Len(out) + 1] = e
  BY AppendList
<1>2. Len(out) \in Nat /\ DOMAIN out = 1..Len(out)
  BY ListParts
<1>3. \A i \in 1..(Len(out) + 1) : i \in 1..Len(out) \/ i = Len(out) + 1
  BY <1>2
<1> DEFINE t == Append(out, e)
<1> HIDE DEF t
<1>4. ASSUME NEW i \in DOMAIN t, NEW j \in DOMAIN t, i # j
      PROVE  t[i].name # t[j].name
  <2>1. CASE i \in 1..Len(out) /\ j \in 1..Len(out)
    BY <1>1, <1>2, <1>4, <2>1 DEF NamesDiffer, t
  <2>2. CASE i = Len(out) + 1 /\ j \in 1..Len(out)
    BY <1>1, <1>2, <2>2 DEF t
  <2>3. CASE j = Len(out) + 1 /\ i \in 1..Len(out)
    BY <1>1, <1>2, <2>3 DEF t
  <2> QED BY <1>1, <1>3, <1>4, <2>1, <2>2, <2>3 DEF t
<1> QED BY <1>4 DEF NamesDiffer, t

LEMMA Sums ==
  /\ \A a, b \in Nat : a + 1 + b = a + (b + 1)
  /\ \A a, b, c, d \in Nat : a <= b /\ b <= c /\ c <= d => a <= d
OBVIOUS

\* The loop takes the next document: its line is written, and it is in under a
\* name of its own if it has no note.
LEMMA BundlingGoesOn ==
  ASSUME NEW r, NEW o, Bundling(r, o), NEW d, NEW left \in Seq(Docs),
         Len(r.todo) = Len(left) + 1, ToSet(r.todo) = {d} \cup ToSet(left),
         NEW row, row.doc = d,
         NEW entry, entry.doc = d, entry.name # ManifestName,
         \A i \in DOMAIN r.out : r.out[i].name # entry.name,
         NEW s, s.seen = r.seen, s.todo = left, s.rows = Append(r.rows, row),
         row.note = "" => s.out = Append(r.out, entry),
         row.note # "" => s.out = r.out
  PROVE  Bundling(s, o)
<1>1. r.seen \subseteq Docs /\ IsList(r.rows) /\ IsList(r.out)
  BY DEF Bundling
<1>2. Len(r.rows) + Len(r.todo) = Cardinality(Expected(r, o))
  BY DEF Bundling
<1>3. DocsOf(r.rows) \cup ToSet(r.todo) = Expected(r, o)
  BY DEF Bundling
<1>4. DocsOf(r.out) = Handed(r.rows)
  BY DEF Bundling
<1>5. Len(r.out) <= Len(r.rows)
  BY DEF Bundling
<1>6. NamesDiffer(r.out) /\ \A i \in DOMAIN r.out : r.out[i].name # ManifestName
  BY DEF Bundling
<1>7. Len(r.rows) \in Nat /\ Len(r.out) \in Nat /\ DOMAIN r.out = 1..Len(r.out)
  BY ONLY <1>1, ListParts
<1>8. Len(left) \in Nat
  BY LenProperties
<1>9. Expected(s, o) = Expected(r, o)
  BY ONLY s.seen = r.seen DEF Expected
<1>10. /\ IsList(s.rows) /\ Len(s.rows) = Len(r.rows) + 1
       /\ DocsOf(s.rows) = DocsOf(r.rows) \cup {d}
  <2>1. /\ IsList(Append(r.rows, row)) /\ Len(Append(r.rows, row)) = Len(r.rows) + 1
        /\ DocsOf(Append(r.rows, row)) = DocsOf(r.rows) \cup {row.doc}
    BY ONLY <1>1, AppendList
  <2> QED BY ONLY <2>1, s.rows = Append(r.rows, row), row.doc = d
<1>11. Handed(s.rows) = Handed(r.rows) \cup (IF row.note = "" THEN {d} ELSE {})
  BY <1>1, HandedOfAppend
<1>12. Len(s.rows) + Len(s.todo) = Cardinality(Expected(s, o))
  <2>1. Len(s.rows) + Len(s.todo) = Len(r.rows) + 1 + Len(left)
    BY ONLY <1>10, s.todo = left
  <2>2. Len(r.rows) + 1 + Len(left) = Len(r.rows) + (Len(left) + 1)
    BY ONLY <1>7, <1>8, Sums
  <2>3. Len(r.rows) + (Len(left) + 1) = Cardinality(Expected(r, o))
    BY ONLY <1>2, Len(r.todo) = Len(left) + 1
  <2> QED BY ONLY <2>1, <2>2, <2>3, <1>9
<1>13. DocsOf(s.rows) \cup ToSet(s.todo) = Expected(s, o)
  <2>1. DocsOf(s.rows) \cup ToSet(s.todo) = DocsOf(r.rows) \cup ToSet(r.todo)
    BY ONLY <1>10, s.todo = left, ToSet(r.todo) = {d} \cup ToSet(left)
  <2> QED BY ONLY <2>1, <1>3, <1>9
<1>14. CASE row.note # ""
  <2>1. s.out = r.out
    BY <1>14
  <2>2. IsList(s.out)
    BY ONLY <2>1, <1>1
  <2>3. DocsOf(s.out) = Handed(s.rows)
    BY ONLY <2>1, <1>4, <1>11, <1>14
  <2>4. Len(s.out) <= Len(s.rows)
    BY ONLY <2>1, <1>5, <1>7, <1>10
  <2>5. NamesDiffer(s.out) /\ \A i \in DOMAIN s.out : s.out[i].name # ManifestName
    BY ONLY <2>1, <1>6
  <2> QED BY ONLY <1>1, <1>10, <1>12, <1>13, <2>2, <2>3, <2>4, <2>5,
             s.seen = r.seen, s.todo = left, left \in Seq(Docs) DEF Bundling
<1>15. CASE row.note = ""
  <2>1. s.out = Append(r.out, entry)
    BY <1>15
  <2>2. /\ IsList(s.out) /\ Len(s.out) = Len(r.out) + 1
        /\ DOMAIN s.out = 1..(Len(r.out) + 1)
        /\ \A i \in 1..Len(r.out) : s.out[i] = r.out[i]
        /\ s.out[Len(r.out) + 1] = entry
        /\ DocsOf(s.out) = DocsOf(r.out) \cup {entry.doc}
    BY ONLY <2>1, <1>1, AppendList
  <2>3. DocsOf(s.out) = Handed(s.rows)
    BY ONLY <2>2, <1>4, <1>11, <1>15, entry.doc = d
  <2>4. Len(s.out) <= Len(s.rows)
    BY ONLY <2>2, <1>5, <1>7, <1>10
  <2>5. NamesDiffer(s.out)
    BY <2>1, <1>1, <1>6, NamesOfAppend
  <2>6. \A i \in DOMAIN s.out : s.out[i].name # ManifestName
    <3>1. \A i \in 1..(Len(r.out) + 1) : i \in 1..Len(r.out) \/ i = Len(r.out) + 1
      BY ONLY <1>7
    <3> QED BY ONLY <2>2, <3>1, <1>6, <1>7, entry.name # ManifestName
  <2> QED BY ONLY <1>1, <1>10, <1>12, <1>13, <2>2, <2>3, <2>4, <2>5, <2>6,
             s.seen = r.seen, s.todo = left, left \in Seq(Docs) DEF Bundling
<1> QED BY <1>14, <1>15

\* No more is in the ZIP than there are documents.
LEMMA HandedAreFew ==
  ASSUME NEW r, NEW o, Bundling(r, o)
  PROVE  Len(r.out) <= Cardinality(Docs)
<1>1. Expected(r, o) \in SUBSET Docs
  BY DEF Bundling, Expected
<1>2. Cardinality(Expected(r, o)) <= Cardinality(Docs)
      /\ Cardinality(Expected(r, o)) \in Nat /\ Cardinality(Docs) \in Nat
  BY <1>1, FiniteDocs
<1>3. /\ Len(r.rows) + Len(r.todo) = Cardinality(Expected(r, o))
      /\ Len(r.out) <= Len(r.rows)
  BY DEF Bundling
<1>4. Len(r.rows) \in Nat /\ Len(r.out) \in Nat
  BY ListParts DEF Bundling
<1>5. Len(r.todo) \in Nat
  BY LenProperties DEF Bundling
<1>6. Len(r.rows) <= Cardinality(Expected(r, o))
  <2> DEFINE n == Cardinality(Expected(r, o))
             a == Len(r.rows)
             b == Len(r.todo)
  <2>1. n = a + b
    BY ONLY <1>3
  <2>2. n \in Nat /\ a \in Nat /\ b \in Nat
    BY ONLY <1>2, <1>4, <1>5
  <2> HIDE DEF n, a, b
  <2>3. a <= n
    BY ONLY <2>1, <2>2
  <2> QED BY ONLY <2>3 DEF a, n
<1> QED BY ONLY <1>2, <1>3, <1>4, <1>6, Sums

LEMMA ReadMoves ==
  ASSUME IInv, NEW q \in Requests, BundleRead(q)
  PROVE  Moves(q)
<1> DEFINE d == Head(req[q].todo)
           reason == SkipReason(object[d])
           name == EntryName(d, Taken(q))
           row == [doc |-> d, note |-> reason, name |-> IF reason = "" THEN name ELSE <<>>]
           entry == [doc |-> d, name |-> name]
           out == IF reason = "" THEN Append(req[q].out, entry) ELSE req[q].out
<1>1. /\ Keeps(req[q], job[q]) /\ req[q].at = "reading" /\ job[q].kind = "belege"
      /\ req[q].todo # <<>>
  BY DEF IInv, BundleRead, Step
<1>2. req' = [req EXCEPT ![q] =
           [req[q] EXCEPT !.todo = Tail(req[q].todo), !.rows = Append(req[q].rows, row),
                          !.out = out]]
  BY DEF BundleRead
<1>3. Fields(req[q]) /\ Bundling(req[q], job[q]) /\ req[q].code = 0
  BY ONLY <1>1 DEF Keeps
<1>4. /\ req[q].seen \subseteq Docs /\ req[q].todo \in Seq(Docs) /\ IsList(req[q].rows)
      /\ IsList(req[q].out)
  BY ONLY <1>3 DEF Bundling
<1>5. /\ d \in Docs /\ Tail(req[q].todo) \in Seq(Docs)
      /\ Len(req[q].todo) = Len(Tail(req[q].todo)) + 1
      /\ ToSet(req[q].todo) = {d} \cup ToSet(Tail(req[q].todo))
  BY <1>1, <1>4, TakeOne
<1>6. Len(req[q].out) <= Cardinality(Docs)
  BY <1>3, HandedAreFew
<1>7. name \notin Taken(q)
  BY <1>4, <1>5, <1>6, NameIsFree
<1>8. name # ManifestName /\ \A i \in DOMAIN req[q].out : req[q].out[i].name # name
  BY ONLY <1>7 DEF Taken
<1>9. row.doc = d /\ row.note = reason /\ entry.doc = d /\ entry.name = name
  OBVIOUS
<1> HIDE DEF d, reason, name, row, entry
<1>10. PICK s : s = [req[q] EXCEPT !.todo = Tail(req[q].todo), !.rows = Append(req[q].rows, row),
                                   !.out = out]
  OBVIOUS
<1>11. req' = [req EXCEPT ![q] = s]
  BY ONLY <1>2, <1>10
<1>12. /\ Fields(s) /\ s.at = req[q].at /\ s.code = req[q].code /\ s.seen = req[q].seen
       /\ s.todo = Tail(req[q].todo) /\ s.rows = Append(req[q].rows, row) /\ s.out = out
  BY ONLY <1>3, <1>10 DEF Fields
<1>13. Bundling(s, job[q])
  BY <1>3, <1>5, <1>8, <1>9, <1>12, BundlingGoesOn
<1>14. Keeps(s, job[q])
  <2>1. s.at = "reading" /\ s.code = 0
    BY ONLY <1>1, <1>3, <1>12
  <2> QED BY <1>12, <1>13, <2>1, ReadingKeeps
<1> QED BY ONLY <1>11, <1>14 DEF Moves

LEMMA PackMoves ==
  ASSUME IInv, NEW q \in Requests, BundlePack(q)
  PROVE  Moves(q)
<1> DEFINE head == [doc |-> 0, name |-> ManifestName]
           out == <<head>> \o req[q].out
<1>1. CASE Answer(q, 500)
  BY <1>1, AnswerMoves
<1>2. CASE Fits(out) /\ req' = [req EXCEPT ![q] = [@ EXCEPT !.at = "done", !.code = 200, !.out = out]]
  <2>1. /\ Keeps(req[q], job[q]) /\ req[q].at = "reading" /\ job[q].kind = "belege"
        /\ req[q].todo = <<>>
    BY DEF IInv, BundlePack, Step
  <2>2. Fields(req[q]) /\ Bundling(req[q], job[q])
    BY ONLY <2>1 DEF Keeps
  <2>3. IsList(req[q].rows) /\ IsList(req[q].out)
    BY ONLY <2>2 DEF Bundling
  <2>4. Len(req[q].rows) + Len(req[q].todo) = Cardinality(Expected(req[q], job[q]))
    BY ONLY <2>2 DEF Bundling
  <2>5. DocsOf(req[q].rows) \cup ToSet(req[q].todo) = Expected(req[q], job[q])
    BY ONLY <2>2 DEF Bundling
  <2>6. DocsOf(req[q].out) = Handed(req[q].rows) /\ NamesDiffer(req[q].out)
    BY ONLY <2>2 DEF Bundling
  <2>7. \A i \in DOMAIN req[q].out : req[q].out[i].name # ManifestName
    BY ONLY <2>2 DEF Bundling
  <2>8. /\ DOMAIN out = 1..(Len(req[q].out) + 1) /\ Tail(out) = req[q].out /\ out[1] = head
        /\ \A i \in 1..Len(req[q].out) : out[i + 1] = req[q].out[i]
    BY <2>3, PrependList
  <2>9. head.name = ManifestName
    OBVIOUS
  <2>10. Len(req[q].rows) \in Nat
    BY ONLY <2>3, ListParts
  <2>11. Len(out) <= MaxEntries
    BY ONLY <1>2 DEF Fits
  <2> HIDE DEF out, head
  <2>12. NamesDiffer(out)
    BY ONLY <2>3, <2>6, <2>7, <2>8, <2>9, NamesOfPrepend
  <2>13. ToSet(req[q].todo) = {} /\ Len(req[q].todo) = 0
    BY ONLY <2>1, EmptyList DEF ToSet
  <2>14. PICK s : s = [req[q] EXCEPT !.at = "done", !.code = 200, !.out = out]
    OBVIOUS
  <2>15. req' = [req EXCEPT ![q] = s]
    BY ONLY <1>2, <2>14
  <2>16. /\ Fields(s) /\ s.at = "done" /\ s.code = 200 /\ s.seen = req[q].seen
         /\ s.rows = req[q].rows /\ s.out = out
    BY ONLY <2>2, <2>14 DEF Fields
  <2>17. Expected(s, job[q]) = Expected(req[q], job[q])
    BY ONLY <2>16 DEF Expected
  <2>18. DocsOf(s.rows) = Expected(s, job[q])
    BY ONLY <2>5, <2>13, <2>16, <2>17
  <2>19. Len(s.rows) = Cardinality(Expected(s, job[q]))
    BY ONLY <2>4, <2>10, <2>13, <2>16, <2>17
  <2>20. DocsOf(Tail(s.out)) = Handed(s.rows) /\ NamesDiffer(s.out) /\ Len(s.out) <= MaxEntries
    BY ONLY <2>6, <2>8, <2>11, <2>12, <2>16
  <2>21. Bundle(s, job[q])
    BY ONLY <2>18, <2>19, <2>20 DEF Bundle
  <2>22. Keeps(s, job[q])
    BY ONLY <2>1, <2>16, <2>21 DEF Keeps
  <2> QED BY ONLY <2>15, <2>22 DEF Moves
<1> QED BY <1>1, <1>2 DEF BundlePack, Packed

\* The payment requests owe nothing of this.
LEMMA PaymentKeeps ==
  ASSUME NEW r, NEW o, Fields(r), r.at = "paying", r.code = 0, o.kind = "sepa"
  PROVE  Keeps(r, o)
<1>1. r.at # "idle" /\ r.at # "reading" /\ r.code # 200
  OBVIOUS
<1> QED BY <1>1 DEF Keeps

LEMMA SepaStartMoves ==
  ASSUME IInv, NEW q \in Requests, SepaStart(q)
  PROVE  Moves(q)
<1>1. CASE Answer(q, 400)
  BY <1>1, AnswerMoves
<1>2. CASE req' = [req EXCEPT ![q].at = "paying", ![q].todo = job[q].ids]
  <2>1. /\ Keeps(req[q], job[q]) /\ req[q].at = "idle" /\ job[q].kind = "sepa"
        /\ req = [p \in Requests |-> req[p]]
    BY DEF IInv, World, SepaStart, Step
  <2>2. Fields(req[q]) /\ req[q].code = 0
    BY ONLY <2>1 DEF Keeps
  <2>3. PICK s : s = [req[q] EXCEPT !.at = "paying", !.todo = job[q].ids]
    OBVIOUS
  <2>4. req' = [req EXCEPT ![q] = s]
    BY ONLY <1>2, <2>1, <2>3
  <2>5. Fields(s) /\ s.at = "paying" /\ s.code = req[q].code
    BY ONLY <2>2, <2>3 DEF Fields
  <2>6. Keeps(s, job[q])
    BY <2>1, <2>2, <2>5, PaymentKeeps
  <2> QED BY ONLY <2>4, <2>6 DEF Moves
<1> QED BY <1>1, <1>2 DEF SepaStart

LEMMA SepaTakeMoves ==
  ASSUME IInv, NEW q \in Requests, SepaTake(q)
  PROVE  Moves(q)
<1>1. /\ Keeps(req[q], job[q]) /\ req[q].at = "paying" /\ job[q].kind = "sepa"
  BY DEF IInv, SepaTake, Step
<1>2. Fields(req[q]) /\ req[q].code = 0
  BY ONLY <1>1 DEF Keeps
<1>3. PICK todo, out, skipped :
        req' = [req EXCEPT ![q] = [req[q] EXCEPT !.todo = todo, !.out = out, !.skipped = skipped]]
  BY DEF SepaTake
<1>4. PICK s : s = [req[q] EXCEPT !.todo = todo, !.out = out, !.skipped = skipped]
  OBVIOUS
<1>5. req' = [req EXCEPT ![q] = s]
  BY ONLY <1>3, <1>4
<1>6. Fields(s) /\ s.at = req[q].at /\ s.code = req[q].code
  BY ONLY <1>2, <1>4 DEF Fields
<1>7. Keeps(s, job[q])
  BY <1>1, <1>2, <1>6, PaymentKeeps
<1> QED BY ONLY <1>5, <1>7 DEF Moves

LEMMA SepaBuildMoves ==
  ASSUME IInv, NEW q \in Requests, SepaBuild(q)
  PROVE  Moves(q)
<1>1. job[q].kind = "sepa"
  BY DEF SepaBuild, Step
<1>2. \E code : Answer(q, code)
  BY DEF SepaBuild
<1> QED BY <1>1, <1>2, AnswerMoves

LEMMA GiroCodeMoves ==
  ASSUME IInv, NEW q \in Requests, GiroCodeExport(q)
  PROVE  Moves(q)
<1> DEFINE out == <<Transfer[job[q].ids[1]]>>
<1>1. CASE Answer(q, 404) \/ Answer(q, 409) \/ Answer(q, 422)
  BY <1>1, AnswerMoves
<1>2. CASE req' = [req EXCEPT ![q] = [req[q] EXCEPT !.at = "done", !.code = 200, !.out = out]]
  <2> HIDE DEF out
  <2>1. Fields(req[q])
    BY DEF IInv, Keeps
  <2>2. job[q].kind = "girocode"
    BY DEF GiroCodeExport, Step
  <2>4. PICK s : s = [req[q] EXCEPT !.at = "done", !.code = 200, !.out = out]
    OBVIOUS
  <2>5. req' = [req EXCEPT ![q] = s]
    BY ONLY <1>2, <2>4
  <2>6. Fields(s) /\ s.at = "done"
    BY ONLY <2>1, <2>4 DEF Fields
  <2>7. Keeps(s, job[q])
    BY ONLY <2>2, <2>6 DEF Keeps
  <2> QED BY ONLY <2>5, <2>7 DEF Moves
<1> QED BY <1>1, <1>2 DEF GiroCodeExport

LEMMA ExportPreserves ==
  ASSUME IInv, NEW q \in Requests, Export(q)
  PROVE  Moves(q) /\ UnchangedWorld
<1>1. Moves(q)
  BY DatevMoves, ListMoves, ReadMoves, PackMoves, SepaStartMoves, SepaTakeMoves,
     SepaBuildMoves, GiroCodeMoves DEF Export
<1>2. UnchangedWorld
  BY DEF Export, DatevExport, BundleList, BundleRead, BundlePack, SepaStart, SepaTake,
         SepaBuild, GiroCodeExport
<1> QED BY <1>1, <1>2

\* What was listed stays listed as it was, whatever is inserted or fails after it.
LEMMA WorldPreserves ==
  ASSUME IInv, World', UNCHANGED <<req, job>>
  PROVE  IInv'
BY DEF IInv

LEMMA NextPreserves ==
  ASSUME IInv, [Next]_vars
  PROVE  IInv'
<1>1. ASSUME NEW q \in Requests, Export(q)
      PROVE  IInv'
  BY <1>1, ExportPreserves, FramePreserves
<1>2. ASSUME NEW d \in Docs, Insert(d)
      PROVE  IInv'
  <2>1. World'
    BY <1>2 DEF IInv, World, Insert
  <2> QED BY <1>2, <2>1, WorldPreserves DEF Insert
<1>3. ASSUME NEW d \in Docs, ObjectFails(d)
      PROVE  IInv'
  <2>1. World'
    BY <1>3 DEF IInv, World, ObjectFails
  <2> QED BY <1>3, <2>1, WorldPreserves DEF ObjectFails
<1>4. ASSUME NEW d \in Docs, ObjectReturns(d)
      PROVE  IInv'
  <2>1. World'
    BY <1>4 DEF IInv, World, ObjectReturns
  <2> QED BY <1>4, <2>1, WorldPreserves DEF ObjectReturns
<1>5. CASE Finished
  <2>1. World'
    BY <1>5 DEF IInv, World, Finished, vars
  <2> QED BY <1>5, <2>1, WorldPreserves DEF Finished, vars
<1>6. CASE UNCHANGED vars
  <2>1. World'
    BY <1>6 DEF IInv, World, vars
  <2> QED BY <1>6, <2>1, WorldPreserves DEF vars
<1> QED BY <1>1, <1>2, <1>3, <1>4, <1>5, <1>6 DEF Next

LEMMA InitEstablishes == Init => IInv
<1> SUFFICES ASSUME Init PROVE IInv
  OBVIOUS
<1>1. World
  BY DEF Init, World
<1>2. ASSUME NEW q \in Requests
      PROVE  Keeps(req[q], job[q])
  <2>1. req[q] = Fresh
    BY DEF Init
  <2>2. Fields(Fresh) /\ Fresh.at = "idle" /\ Fresh.code = 0
    BY DEF Fields, Fresh
  <2> QED BY <2>1, <2>2 DEF Keeps
<1> QED BY <1>1, <1>2 DEF IInv

LEMMA Invariant == Spec => []IInv
BY InitEstablishes, NextPreserves, PTL DEF Spec

-----------------------------------------------------------------------------
(* What a step hands over.                                                 *)

LEMMA AnswerIsSilent ==
  ASSUME NEW q \in Requests, req = [p \in Requests |-> req[p]], Fields(req[q]),
         NEW code, Answer(q, code)
  PROVE  req'[q].out = req[q].out
<1>1. req' = [req EXCEPT ![q].at = "done", ![q].code = code]
  BY DEF Answer
<1>2. PICK s : s = [req[q] EXCEPT !.at = "done", !.code = code]
  OBVIOUS
<1>3. req'[q] = s
  BY ONLY <1>1, <1>2, q \in Requests, req = [p \in Requests |-> req[p]]
<1>4. s.out = req[q].out
  BY ONLY <1>2, Fields(req[q]) DEF Fields
<1> QED BY ONLY <1>3, <1>4

\* Of the four things a read may find, one has no reason against it.
LEMMA OnlyTheSameIsUnmarked ==
  ASSUME World, NEW d \in Docs, SkipReason(object[d]) = ""
  PROVE  object[d] = "same"
BY DEF World, SkipReason

LEMMA ReadHandsOver ==
  ASSUME IInv, NEW q \in Requests, BundleRead(q),
         NEW d \in DocsOf(req'[q].out), d \notin DocsOf(req[q].out)
  PROVE  object[d] = "same"
<1> DEFINE h == Head(req[q].todo)
           reason == SkipReason(object[h])
           name == EntryName(h, Taken(q))
           row == [doc |-> h, note |-> reason, name |-> IF reason = "" THEN name ELSE <<>>]
           entry == [doc |-> h, name |-> name]
           out == IF reason = "" THEN Append(req[q].out, entry) ELSE req[q].out
<1>1. /\ World /\ req = [p \in Requests |-> req[p]] /\ Keeps(req[q], job[q])
      /\ req[q].at = "reading" /\ job[q].kind = "belege" /\ req[q].todo # <<>>
  BY DEF IInv, World, BundleRead, Step
<1>2. req' = [req EXCEPT ![q] =
           [req[q] EXCEPT !.todo = Tail(req[q].todo), !.rows = Append(req[q].rows, row),
                          !.out = out]]
  BY DEF BundleRead
<1>3. Fields(req[q]) /\ Bundling(req[q], job[q])
  BY ONLY <1>1 DEF Keeps
<1>4. req[q].todo \in Seq(Docs) /\ IsList(req[q].out)
  BY ONLY <1>3 DEF Bundling
<1>5. h \in Docs
  BY <1>1, <1>4, TakeOne
<1>6. entry.doc = h
  OBVIOUS
<1> HIDE DEF h, reason, name, row, entry
<1>7. PICK s : s = [req[q] EXCEPT !.todo = Tail(req[q].todo), !.rows = Append(req[q].rows, row),
                                  !.out = out]
  OBVIOUS
<1>8. s.out = out
  BY ONLY <1>3, <1>7 DEF Fields
<1>9. req'[q] = s
  BY ONLY <1>1, <1>2, <1>7, q \in Requests
<1>10. reason = ""
  BY <1>8, <1>9
<1>11. DocsOf(Append(req[q].out, entry)) = DocsOf(req[q].out) \cup {entry.doc}
  BY ONLY <1>4, AppendList
<1>12. d = h
  BY <1>6, <1>8, <1>9, <1>10, <1>11
<1> QED BY <1>1, <1>5, <1>10, <1>12, OnlyTheSameIsUnmarked DEF reason

LEMMA PackHandsOver ==
  ASSUME IInv, NEW q \in Requests, BundlePack(q),
         NEW d \in DocsOf(req'[q].out), d \notin DocsOf(req[q].out)
  PROVE  d = 0
<1> DEFINE head == [doc |-> 0, name |-> ManifestName]
           out == <<head>> \o req[q].out
<1>1. /\ req = [p \in Requests |-> req[p]] /\ Keeps(req[q], job[q])
      /\ req[q].at = "reading" /\ job[q].kind = "belege"
  BY DEF IInv, World, BundlePack, Step
<1>2. Fields(req[q]) /\ Bundling(req[q], job[q])
  BY ONLY <1>1 DEF Keeps
<1>3. IsList(req[q].out)
  BY ONLY <1>2 DEF Bundling
<1>4. /\ DOMAIN out = 1..(Len(req[q].out) + 1) /\ out[1] = head
      /\ \A i \in 1..Len(req[q].out) : out[i + 1] = req[q].out[i]
  BY <1>3, PrependList
<1>5. Len(req[q].out) \in Nat /\ DOMAIN req[q].out = 1..Len(req[q].out)
  BY ONLY <1>3, ListParts
<1>6. head.doc = 0
  OBVIOUS
<1>7. CASE Answer(q, 500)
  BY <1>1, <1>2, <1>7, AnswerIsSilent
<1>8. CASE req' = [req EXCEPT ![q] = [req[q] EXCEPT !.at = "done", !.code = 200, !.out = out]]
  <2> HIDE DEF head, out
  <2>1. PICK s : s = [req[q] EXCEPT !.at = "done", !.code = 200, !.out = out]
    OBVIOUS
  <2>2. s.out = out
    BY ONLY <1>2, <2>1 DEF Fields
  <2>3. req'[q] = s
    BY ONLY <1>1, <1>8, <2>1, q \in Requests
  <2>4. PICK i \in DOMAIN out : d = out[i].doc
    BY <2>2, <2>3 DEF DocsOf
  <2>5. CASE i = 1
    BY <1>4, <1>6, <2>4, <2>5
  <2>6. CASE i # 1
    <3>1. i - 1 \in DOMAIN req[q].out /\ out[i] = req[q].out[i - 1]
      <4>1. i \in Nat /\ i - 1 \in 1..Len(req[q].out) /\ (i - 1) + 1 = i
        BY <1>4, <1>5, <2>6
      <4> QED BY <1>4, <1>5, <4>1
    <3> QED BY <2>4, <3>1 DEF DocsOf
  <2> QED BY <2>5, <2>6
<1> QED BY <1>7, <1>8 DEF BundlePack, Packed

-----------------------------------------------------------------------------
(* What a fold from the left runs through.                                 *)

LEMMA EveryNumber ==
  ASSUME NEW S, 0 \in S, \A k \in Nat : k \in S => k + 1 \in S
  PROVE  \A k \in Nat : k \in S
<1> SUFFICES ASSUME Nat \ S # {} PROVE FALSE
  OBVIOUS
<1>1. Nat \ S \in SUBSET Nat
  OBVIOUS
<1>2. Min(Nat \ S) \in Nat \ S /\ \A j \in Nat \ S : Min(Nat \ S) <= j
  BY <1>1, Least
<1>3. PICK k \in Nat \ S : \A j \in Nat \ S : k <= j
  BY <1>2
<1>4. k # 0 /\ k - 1 \in Nat /\ (k - 1) + 1 = k /\ ~(k <= k - 1)
  BY <1>3
<1> QED BY <1>3, <1>4

LEMMA Largest ==
  ASSUME NEW n \in Nat, NEW s \in SUBSET (1..n), s # {}
  PROVE  Max(s) \in s /\ \A x \in s : x <= Max(s)
<1> DEFINE above == {n - x : x \in s}
<1>0. \A x \in s : x \in Nat /\ n - x \in Nat
  OBVIOUS
<1>1. above \in SUBSET Nat /\ above # {}
  BY <1>0
<1> HIDE DEF above
<1>2. Min(above) \in above /\ \A y \in above : Min(above) <= y
  BY <1>1, Least
<1>3. PICK m \in s : Min(above) = n - m
  BY <1>2 DEF above
<1>4. \A x \in s : m >= x
  <2> SUFFICES ASSUME NEW x \in s PROVE m >= x
    OBVIOUS
  <2>1. n - x \in above
    BY DEF above
  <2>2. n - m <= n - x
    BY <1>2, <1>3, <2>1
  <2>3. x \in Int /\ m \in Int
    OBVIOUS
  <2> QED BY <2>2, <2>3
<1>5. \A x, y \in s : x \in Int /\ y \in Int
  OBVIOUS
<1>6. Max(s) \in s /\ \A x \in s : Max(s) >= x
  BY <1>4 DEF Max
<1> QED BY <1>5, <1>6

LEMMA LargestOfFirst ==
  ASSUME NEW k \in Nat, k # 0
  PROVE  1..k # {} /\ Max(1..k) = k /\ (1..k) \ {k} = 1..(k - 1)
<1>1. 1..k # {} /\ k \in 1..k
  OBVIOUS
<1>2. Max(1..k) \in 1..k /\ \A x \in 1..k : x <= Max(1..k)
  BY <1>1, Largest
<1>3. Max(1..k) = k
  <2>1. k <= Max(1..k) /\ Max(1..k) <= k /\ Max(1..k) \in Nat
    BY <1>1, <1>2
  <2> QED BY <2>1
<1> QED BY <1>1, <1>3

\* One step of the community modules' fold, with a function in the place of the operator.
FoldFrom(op, base, seq, f, s) ==
  IF s = {} THEN base ELSE op[f[s \ {Max(s)}]][seq[Max(s)]]

\* What the fold needs, and what it then is.
Foldable(A, V, op, base, n, seq) ==
  n \in Nat /\ base \in A /\ op \in [A -> [V -> A]] /\ \A i \in 1..n : seq[i] \in V
Folded(A, op, base, n, seq) ==
  \E f \in [SUBSET (1..n) -> A] :
    \A s \in SUBSET (1..n) : f[s] = FoldFrom(op, base, seq, f, s)

LEMMA FoldExists ==
  ASSUME NEW A, NEW V, NEW op, NEW base, NEW n, NEW seq, Foldable(A, V, op, base, n, seq)
  PROVE  Folded(A, op, base, n, seq)
<1>0. /\ n \in Nat /\ base \in A /\ op \in [A -> [V -> A]]
      /\ \A i \in 1..n : seq[i] \in V
  BY DEF Foldable
<1> DEFINE D == SUBSET (1..n)
           Upto == {k \in Nat : \E f \in [D -> A] :
                      \A s \in D : s \subseteq 1..k => f[s] = FoldFrom(op, base, seq, f, s)}
<1>1. 0 \in Upto
  <2> DEFINE f == [s \in D |-> base]
  <2>1. f \in [D -> A]
    BY <1>0
  <2>2. \A s \in D : s \subseteq 1..0 => f[s] = FoldFrom(op, base, seq, f, s)
    BY DEF FoldFrom
  <2> HIDE DEF f, D
  <2> QED BY <2>1, <2>2
<1>2. ASSUME NEW k \in Nat, k \in Upto PROVE k + 1 \in Upto
  <2>1. PICK f \in [D -> A] :
          \A s \in D : s \subseteq 1..k => f[s] = FoldFrom(op, base, seq, f, s)
    BY <1>2
  <2> DEFINE g == [s \in D |-> IF s \subseteq 1..k THEN f[s] ELSE FoldFrom(op, base, seq, f, s)]
  <2>2. ASSUME NEW s \in D, s # {} PROVE /\ Max(s) \in s /\ \A x \in s : x <= Max(s)
                                         /\ s \ {Max(s)} \in D /\ seq[Max(s)] \in V
    BY <1>0, <2>2, Largest
  <2>3. ASSUME NEW s \in D PROVE FoldFrom(op, base, seq, f, s) \in A
    <3>1. CASE s = {}
      BY <1>0, <3>1 DEF FoldFrom
    <3>2. CASE s # {}
      <4>1. f[s \ {Max(s)}] \in A /\ seq[Max(s)] \in V
        BY <2>1, <2>2, <3>2
      <4> QED BY <1>0, <3>2, <4>1 DEF FoldFrom
    <3> QED BY <3>1, <3>2
  <2>4. g \in [D -> A]
    <3> HIDE DEF D
    <3> QED BY <2>1, <2>3
  <2>5. ASSUME NEW s \in D, s \subseteq 1..(k + 1)
        PROVE  FoldFrom(op, base, seq, f, s) = FoldFrom(op, base, seq, g, s)
    <3>1. CASE s = {}
      BY <3>1 DEF FoldFrom
    <3>2. CASE s # {}
      <4>1. Max(s) \in s /\ (\A x \in s : x <= Max(s)) /\ s \ {Max(s)} \in D
        BY <2>2, <3>2
      <4>2. s \ {Max(s)} \subseteq 1..k
        <5>1. PICK m \in s : m = Max(s) /\ \A x \in s : x <= m
          BY <4>1
        <5>2. \A x \in s : x \in 1..(k + 1)
          BY <2>5
        <5>3. ASSUME NEW x \in s, x # m PROVE x \in 1..k
          <6>1. x \in 1..(k + 1) /\ m \in 1..(k + 1) /\ x <= m
            BY <5>1, <5>2
          <6> QED BY ONLY <5>3, <6>1, k \in Nat
        <5> QED BY <5>1, <5>3
      <4>3. g[s \ {Max(s)}] = f[s \ {Max(s)}]
        BY <4>1, <4>2
      <4> HIDE DEF g, D
      <4> QED BY <3>2, <4>3 DEF FoldFrom
    <3> QED BY <3>1, <3>2
  <2>6. ASSUME NEW s \in D, s \subseteq 1..(k + 1)
        PROVE  g[s] = FoldFrom(op, base, seq, g, s)
    <3>1. g[s] = FoldFrom(op, base, seq, f, s)
      <4> HIDE DEF D
      <4> QED BY <2>1
    <3> HIDE DEF g, D
    <3> QED BY <2>5, <2>6, <3>1
  <2> HIDE DEF g, D
  <2>7. \E h \in [D -> A] :
          \A s \in D : s \subseteq 1..(k + 1) => h[s] = FoldFrom(op, base, seq, h, s)
    BY <2>4, <2>6
  <2>8. k + 1 \in Nat
    OBVIOUS
  <2> QED BY <2>7, <2>8, Zenon
<1>3. n \in Upto
  <2> HIDE DEF Upto
  <2> QED BY <1>0, <1>1, <1>2, EveryNumber
<1> QED BY <1>3 DEF Folded

JoinFrom(parts, by, f, s) ==
  IF s = {} THEN Head(parts) ELSE f[s \ {Max(s)}] \o <<by>> \o Tail(parts)[Max(s)]

JoinSteps(S, parts, by, n, total) ==
  \E acc \in [0..n -> Seq(S)] :
    /\ acc[0] = parts[1] /\ total = acc[n]
    /\ \A k \in 0..(n - 1) : acc[k + 1] = acc[k] \o <<by>> \o parts[k + 2]

\* Join puts one part after the other, each after a separator.
LEMMA JoinRuns ==
  ASSUME NEW S, NEW by \in S, NEW n \in Nat, NEW parts \in Seq(Seq(S)), Len(parts) = n + 1
  PROVE  JoinSteps(S, parts, by, n, Join(parts, by))
<1> DEFINE t == Tail(parts)
           D == SUBSET (1..n)
           op == [a \in Seq(S) |-> [v \in Seq(S) |-> a \o <<by>> \o v]]
<1>1. parts # <<>> /\ Head(parts) = parts[1] /\ parts[1] \in Seq(S)
  <2>1. Len(parts) # 0 /\ 1 \in 1..Len(parts)
    OBVIOUS
  <2>2. parts # <<>> /\ parts[1] \in Seq(S)
    BY <2>1, EmptySeq, ElementOfSeq
  <2>3. Head(parts) = parts[1]
    OBVIOUS
  <2> QED BY <2>2, <2>3
<1>2. /\ t \in Seq(Seq(S)) /\ Len(t) = n /\ DOMAIN t = 1..n
      /\ \A i \in 1..n : t[i] = parts[i + 1] /\ t[i] \in Seq(S)
  <2>1. /\ t \in Seq(Seq(S)) /\ Len(t) = Len(parts) - 1
        /\ \A i \in 1..Len(t) : t[i] = parts[i + 1]
    BY <1>1, HeadTailProperties
  <2> HIDE DEF t
  <2>2. Len(t) = n /\ DOMAIN t = 1..Len(t) /\ \A i \in 1..Len(t) : t[i] \in Seq(S)
    BY <2>1, LenProperties, ElementOfSeq
  <2> QED BY <2>1, <2>2
<1>3. \A a, v \in Seq(S) : a \o <<by>> \in Seq(S) /\ a \o <<by>> \o v \in Seq(S)
  <2>1. <<by>> \in Seq(S)
    OBVIOUS
  <2> QED BY <2>1, ConcatProperties
<1>4. PICK f : f = [s \in D |-> JoinFrom(parts, by, f, s)]
  <2>1. op \in [Seq(S) -> [Seq(S) -> Seq(S)]]
    BY <1>3
  <2>2. \A a, v \in Seq(S) : op[a][v] = a \o <<by>> \o v
    OBVIOUS
  <2> HIDE DEF op, t
  <2>3. PICK f \in [D -> Seq(S)] : \A s \in D : f[s] = FoldFrom(op, parts[1], t, f, s)
    <3> DEFINE A == Seq(S)
               b == parts[1]
    <3>1. Foldable(A, A, op, b, n, t)
      BY <1>1, <1>2, <2>1 DEF Foldable
    <3> HIDE DEF A, b
    <3>2. Folded(A, op, b, n, t)
      BY <3>1, FoldExists
    <3> QED BY <3>2 DEF A, b, Folded
  <2>4. ASSUME NEW s \in D PROVE f[s] = JoinFrom(parts, by, f, s)
    <3>1. CASE s = {}
      BY <1>1, <2>3, <3>1 DEF FoldFrom, JoinFrom
    <3>2. CASE s # {}
      <4>1. Max(s) \in s
        BY <3>2, Largest
      <4>2. f[s \ {Max(s)}] \in Seq(S) /\ t[Max(s)] \in Seq(S)
        BY <1>2, <2>3, <4>1
      <4>3. f[s] = op[f[s \ {Max(s)}]][t[Max(s)]]
        BY <2>3, <3>2 DEF FoldFrom
      <4>4. f[s] = f[s \ {Max(s)}] \o <<by>> \o t[Max(s)]
        BY <2>2, <4>2, <4>3
      <4> QED BY <3>2, <4>4 DEF JoinFrom, t
    <3> QED BY <3>1, <3>2
  <2> HIDE DEF D
  <2>5. f = [s \in D |-> f[s]]
    BY <2>3
  <2> QED BY <2>4, <2>5
<1> DEFINE F == CHOOSE g : g = [s \in D |-> JoinFrom(parts, by, g, s)]
<1>5. F = [s \in D |-> JoinFrom(parts, by, F, s)]
  <2> HIDE DEF D
  <2> QED BY <1>4
<1>6. Join(parts, by) = F[1..n]
  <2>1. Join(parts, by)
          = (CHOOSE g : g = [s \in SUBSET DOMAIN t |-> JoinFrom(parts, by, g, s)])[DOMAIN t]
    BY <1>1 DEF Join, FoldLeft, MapThenFoldSet, JoinFrom
  <2> HIDE DEF t
  <2> QED BY <1>2, <2>1
<1> HIDE DEF F, op
<1>7. F[{}] = parts[1]
  <2>1. {} \in D
    OBVIOUS
  <2> HIDE DEF D
  <2>2. F[{}] = JoinFrom(parts, by, F, {})
    BY <1>5, <2>1
  <2> QED BY <1>1, <2>2 DEF JoinFrom
<1>8. ASSUME NEW k \in 1..n PROVE F[1..k] = F[1..(k - 1)] \o <<by>> \o t[k]
  <2>1. 1..k \in D /\ k \in Nat /\ k # 0
    OBVIOUS
  <2>0. 1..k # {} /\ Max(1..k) = k /\ (1..k) \ {k} = 1..(k - 1)
    BY <2>1, LargestOfFirst
  <2> HIDE DEF D, t
  <2>2. F[1..k] = JoinFrom(parts, by, F, 1..k)
    BY <1>5, <2>1
  <2> QED BY <2>0, <2>2 DEF JoinFrom, t
<1> HIDE DEF D, t
<1> DEFINE acc == [k \in 0..n |-> F[1..k]]
<1>9. acc[0] = parts[1] /\ acc[n] = F[1..n]
  <2>1. 1..0 = {}
    OBVIOUS
  <2> QED BY <1>7, <2>1
<1>10. \A k \in 0..(n - 1) : acc[k + 1] = acc[k] \o <<by>> \o parts[k + 2]
  <2> SUFFICES ASSUME NEW k \in 0..(n - 1)
               PROVE  acc[k + 1] = acc[k] \o <<by>> \o parts[k + 2]
    OBVIOUS
  <2>1. k + 1 \in 1..n /\ (k + 1) - 1 = k /\ (k + 1) + 1 = k + 2 /\ k \in 0..n /\ k + 1 \in 0..n
    OBVIOUS
  <2>2. F[1..(k + 1)] = F[1..k] \o <<by>> \o parts[k + 2]
    BY <1>2, <1>8, <2>1
  <2> QED BY <2>1, <2>2
<1> HIDE DEF acc
<1>11. \A k \in 0..n : acc[k] \in Seq(S)
  <2> DEFINE Upto == {k \in Nat : k <= n => acc[k] \in Seq(S)}
  <2>1. 0 \in Upto
    BY <1>1, <1>9
  <2>2. ASSUME NEW k \in Nat, k \in Upto PROVE k + 1 \in Upto
    <3> SUFFICES ASSUME k + 1 <= n PROVE acc[k + 1] \in Seq(S)
      OBVIOUS
    <3>1. k \in 0..(n - 1) /\ k <= n /\ k + 1 \in 1..n /\ (k + 1) + 1 = k + 2
      OBVIOUS
    <3>2. acc[k] \in Seq(S) /\ parts[k + 2] \in Seq(S)
      BY <2>2, <3>1, <1>2
    <3> QED BY <1>3, <1>10, <3>1, <3>2
  <2>3. \A k \in Nat : k \in Upto
    <3> HIDE DEF Upto
    <3> QED BY <2>1, <2>2, EveryNumber
  <2> QED BY <2>3
<1>12. acc \in [0..n -> Seq(S)]
  BY <1>11 DEF acc
<1> QED BY <1>6, <1>9, <1>10, <1>12 DEF JoinSteps

ConcatFrom(parts, f, s) ==
  IF s = {} THEN <<>> ELSE f[s \ {Max(s)}] \o parts[Max(s)]

ConcatSteps(S, parts, n, total) ==
  \E acc \in [0..n -> Seq(S)] :
    /\ acc[0] = <<>> /\ total = acc[n]
    /\ \A k \in 0..(n - 1) : acc[k + 1] = acc[k] \o parts[k + 1]

\* Concat puts one part after the other.
LEMMA ConcatRuns ==
  ASSUME NEW S, NEW n \in Nat, NEW parts \in Seq(Seq(S)), Len(parts) = n
  PROVE  ConcatSteps(S, parts, n, Concat(parts))
<1> DEFINE D == SUBSET (1..n)
           op == [a \in Seq(S) |-> [v \in Seq(S) |-> a \o v]]
<1>1. <<>> \in Seq(S)
  BY EmptySeq
<1>2. n \in Nat /\ DOMAIN parts = 1..n /\ \A i \in 1..n : parts[i] \in Seq(S)
  BY LenProperties, ElementOfSeq
<1>3. \A a, v \in Seq(S) : a \o v \in Seq(S)
  BY ConcatProperties
<1>4. PICK f : f = [s \in D |-> ConcatFrom(parts, f, s)]
  <2>1. op \in [Seq(S) -> [Seq(S) -> Seq(S)]]
    BY <1>3
  <2>2. \A a \in Seq(S), v \in Seq(S) : op[a][v] = a \o v
    OBVIOUS
  <2> HIDE DEF op
  <2>3. PICK f \in [D -> Seq(S)] : \A s \in D : f[s] = FoldFrom(op, <<>>, parts, f, s)
    <3> DEFINE A == Seq(S)
               V == Seq(S)
               b == <<>>
    <3>1. Foldable(A, V, op, b, n, parts)
      BY <1>1, <1>2, <2>1 DEF Foldable
    <3> HIDE DEF A, V, b
    <3>2. Folded(A, op, b, n, parts)
      BY <3>1, FoldExists
    <3> QED BY <3>2 DEF A, b, Folded
  <2>4. ASSUME NEW s \in D PROVE f[s] = ConcatFrom(parts, f, s)
    <3>1. CASE s = {}
      BY <2>3, <3>1 DEF FoldFrom, ConcatFrom
    <3>2. CASE s # {}
      <4>1. Max(s) \in s
        BY <3>2, Largest
      <4>2. f[s \ {Max(s)}] \in Seq(S) /\ parts[Max(s)] \in Seq(S)
        BY <1>2, <2>3, <4>1
      <4>3. f[s] = op[f[s \ {Max(s)}]][parts[Max(s)]]
        BY <2>3, <3>2 DEF FoldFrom
      <4>4. f[s] = f[s \ {Max(s)}] \o parts[Max(s)]
        BY <2>2, <4>2, <4>3
      <4> QED BY <3>2, <4>4 DEF ConcatFrom
    <3> QED BY <3>1, <3>2
  <2> HIDE DEF D
  <2>5. f = [s \in D |-> f[s]]
    BY <2>3
  <2> QED BY <2>4, <2>5
<1> DEFINE F == CHOOSE g : g = [s \in D |-> ConcatFrom(parts, g, s)]
<1>5. F = [s \in D |-> ConcatFrom(parts, F, s)]
  <2> HIDE DEF D
  <2> QED BY <1>4
<1>6. Concat(parts) = F[1..n]
  <2>1. Concat(parts)
          = (CHOOSE g : g = [s \in SUBSET DOMAIN parts |-> ConcatFrom(parts, g, s)])[DOMAIN parts]
    BY DEF Concat, FoldLeft, MapThenFoldSet, ConcatFrom
  <2> QED BY <1>2, <2>1
<1> HIDE DEF F, op
<1>7. F[{}] = <<>>
  <2>1. {} \in D
    OBVIOUS
  <2> HIDE DEF D
  <2>2. F[{}] = ConcatFrom(parts, F, {})
    BY <1>5, <2>1
  <2> QED BY <2>2 DEF ConcatFrom
<1>8. ASSUME NEW k \in 1..n PROVE F[1..k] = F[1..(k - 1)] \o parts[k]
  <2>1. 1..k \in D /\ k \in Nat /\ k # 0
    BY <1>2
  <2>2. 1..k # {} /\ Max(1..k) = k /\ (1..k) \ {k} = 1..(k - 1)
    BY <2>1, LargestOfFirst
  <2> HIDE DEF D
  <2>3. F[1..k] = ConcatFrom(parts, F, 1..k)
    BY <1>5, <2>1
  <2> QED BY <2>2, <2>3 DEF ConcatFrom
<1> HIDE DEF D
<1> DEFINE acc == [k \in 0..n |-> F[1..k]]
<1>9. acc[0] = <<>> /\ acc[n] = F[1..n]
  <2>1. 1..0 = {} /\ n \in Nat
    BY <1>2
  <2> QED BY <1>7, <2>1
<1>10. \A k \in 0..(n - 1) : acc[k + 1] = acc[k] \o parts[k + 1]
  <2> SUFFICES ASSUME NEW k \in 0..(n - 1)
               PROVE  acc[k + 1] = acc[k] \o parts[k + 1]
    OBVIOUS
  <2>1. k + 1 \in 1..n /\ (k + 1) - 1 = k /\ k \in 0..n /\ k + 1 \in 0..n
    BY <1>2
  <2>2. F[1..(k + 1)] = F[1..k] \o parts[k + 1]
    BY <1>8, <2>1
  <2> QED BY <2>1, <2>2
<1> HIDE DEF acc
<1>11. \A k \in 0..n : acc[k] \in Seq(S)
  <2> DEFINE Upto == {k \in Nat : k <= n => acc[k] \in Seq(S)}
  <2>1. 0 \in Upto
    BY <1>1, <1>9
  <2>2. ASSUME NEW k \in Nat, k \in Upto PROVE k + 1 \in Upto
    <3> SUFFICES ASSUME k + 1 <= n PROVE acc[k + 1] \in Seq(S)
      OBVIOUS
    <3>1. k \in 0..(n - 1) /\ k <= n /\ k + 1 \in 1..n
      BY <1>2
    <3>2. acc[k] \in Seq(S) /\ parts[k + 1] \in Seq(S)
      BY <2>2, <3>1, <1>2
    <3>3. acc[k + 1] = acc[k] \o parts[k + 1]
      BY <1>10, <3>1
    <3>4. (acc[k] \o parts[k + 1]) \in Seq(S)
      BY <1>3, <3>2
    <3> QED BY <3>3, <3>4
  <2>3. \A k \in Nat : k \in Upto
    <3> HIDE DEF Upto
    <3> QED BY <2>1, <2>2, EveryNumber
  <2> QED BY <1>2, <2>3
<1>12. acc \in [0..n -> Seq(S)]
  BY <1>11 DEF acc
<1> QED BY <1>6, <1>9, <1>10, <1>12 DEF ConcatSteps

\* The digits of an account number, its country and check digits last.
Turned(iban) == SubSeq(iban, 5, Len(iban)) \o SubSeq(iban, 1, 4)

ChecksumFrom(digits, f, s) ==
  IF s = {} THEN 0 ELSE IF digits[Max(s)] > 9 THEN (f[s \ {Max(s)}] * 100 + digits[Max(s)]) % 97 ELSE (f[s \ {Max(s)}] * 10 + digits[Max(s)]) % 97

ChecksumSteps(digits, n, total) ==
  \E acc \in [0..n -> Nat] :
    /\ acc[0] = 0 /\ total = acc[n]
    /\ \A k \in 0..(n - 1) : acc[k + 1] = IF digits[k + 1] > 9 THEN (acc[k] * 100 + digits[k + 1]) % 97 ELSE (acc[k] * 10 + digits[k + 1]) % 97

\* The checksum is that of the digits read so far.
LEMMA IbanChecksumRuns ==
  ASSUME NEW iban, NEW digits, digits = Turned(iban),
         NEW n \in Nat, digits \in Seq(0..35), Len(digits) = n
  PROVE  ChecksumSteps(digits, n, IbanChecksum(iban))
<1> DEFINE D == SUBSET (1..n)
           op == [a \in Nat |-> [v \in 0..35 |-> IF v > 9 THEN (a * 100 + v) % 97 ELSE (a * 10 + v) % 97]]
<1>1. 0 \in Nat
  OBVIOUS
<1>2. n \in Nat /\ DOMAIN digits = 1..n /\ \A i \in 1..n : digits[i] \in 0..35
  BY LenProperties, ElementOfSeq
<1>3. \A a \in Nat, v \in 0..35 : (IF v > 9 THEN (a * 100 + v) % 97 ELSE (a * 10 + v) % 97) \in Nat
  OBVIOUS
<1>4. PICK f : f = [s \in D |-> ChecksumFrom(digits, f, s)]
  <2>1. op \in [Nat -> [0..35 -> Nat]]
    BY <1>3
  <2>2. \A a \in Nat, v \in 0..35 : op[a][v] = IF v > 9 THEN (a * 100 + v) % 97 ELSE (a * 10 + v) % 97
    OBVIOUS
  <2> HIDE DEF op
  <2>3. PICK f \in [D -> Nat] : \A s \in D : f[s] = FoldFrom(op, 0, digits, f, s)
    <3> DEFINE A == Nat
               V == 0..35
               b == 0
    <3>1. Foldable(A, V, op, b, n, digits)
      BY <1>1, <1>2, <2>1 DEF Foldable
    <3> HIDE DEF A, V, b
    <3>2. Folded(A, op, b, n, digits)
      BY <3>1, FoldExists
    <3> QED BY <3>2 DEF A, b, Folded
  <2>4. ASSUME NEW s \in D PROVE f[s] = ChecksumFrom(digits, f, s)
    <3>1. CASE s = {}
      BY <2>3, <3>1 DEF FoldFrom, ChecksumFrom
    <3>2. CASE s # {}
      <4>1. Max(s) \in s
        BY <3>2, Largest
      <4>2. f[s \ {Max(s)}] \in Nat /\ digits[Max(s)] \in 0..35
        BY <1>2, <2>3, <4>1
      <4>3. f[s] = op[f[s \ {Max(s)}]][digits[Max(s)]]
        BY <2>3, <3>2 DEF FoldFrom
      <4>4. f[s] = IF digits[Max(s)] > 9 THEN (f[s \ {Max(s)}] * 100 + digits[Max(s)]) % 97 ELSE (f[s \ {Max(s)}] * 10 + digits[Max(s)]) % 97
        BY <2>2, <4>2, <4>3
      <4> QED BY <3>2, <4>4 DEF ChecksumFrom
    <3> QED BY <3>1, <3>2
  <2> HIDE DEF D
  <2>5. f = [s \in D |-> f[s]]
    BY <2>3
  <2> QED BY <2>4, <2>5
<1> DEFINE F == CHOOSE g : g = [s \in D |-> ChecksumFrom(digits, g, s)]
<1>5. F = [s \in D |-> ChecksumFrom(digits, F, s)]
  <2> HIDE DEF D
  <2> QED BY <1>4
<1>6. IbanChecksum(iban) = F[1..n]
  <2>1. IbanChecksum(iban)
          = (CHOOSE g : g = [s \in SUBSET DOMAIN digits |-> ChecksumFrom(digits, g, s)])[DOMAIN digits]
    BY DEF IbanChecksum, Turned, FoldLeft, MapThenFoldSet, ChecksumFrom
  <2> QED BY <1>2, <2>1
<1> HIDE DEF F, op
<1>7. F[{}] = 0
  <2>1. {} \in D
    OBVIOUS
  <2> HIDE DEF D
  <2>2. F[{}] = ChecksumFrom(digits, F, {})
    BY <1>5, <2>1
  <2> QED BY <2>2 DEF ChecksumFrom
<1>8. ASSUME NEW k \in 1..n PROVE F[1..k] = IF digits[k] > 9 THEN (F[1..(k - 1)] * 100 + digits[k]) % 97 ELSE (F[1..(k - 1)] * 10 + digits[k]) % 97
  <2>1. 1..k \in D /\ k \in Nat /\ k # 0
    BY <1>2
  <2>2. 1..k # {} /\ Max(1..k) = k /\ (1..k) \ {k} = 1..(k - 1)
    BY <2>1, LargestOfFirst
  <2> HIDE DEF D
  <2>3. F[1..k] = ChecksumFrom(digits, F, 1..k)
    BY <1>5, <2>1
  <2> QED BY <2>2, <2>3 DEF ChecksumFrom
<1> HIDE DEF D
<1> DEFINE acc == [k \in 0..n |-> F[1..k]]
<1>9. acc[0] = 0 /\ acc[n] = F[1..n]
  <2>1. 1..0 = {} /\ n \in Nat
    BY <1>2
  <2> QED BY <1>7, <2>1
<1>10. \A k \in 0..(n - 1) : acc[k + 1] = IF digits[k + 1] > 9 THEN (acc[k] * 100 + digits[k + 1]) % 97 ELSE (acc[k] * 10 + digits[k + 1]) % 97
  <2> SUFFICES ASSUME NEW k \in 0..(n - 1)
               PROVE  acc[k + 1] = IF digits[k + 1] > 9 THEN (acc[k] * 100 + digits[k + 1]) % 97 ELSE (acc[k] * 10 + digits[k + 1]) % 97
    OBVIOUS
  <2>1. k + 1 \in 1..n /\ (k + 1) - 1 = k /\ k \in 0..n /\ k + 1 \in 0..n
    BY <1>2
  <2>2. F[1..(k + 1)] = IF digits[k + 1] > 9 THEN (F[1..k] * 100 + digits[k + 1]) % 97 ELSE (F[1..k] * 10 + digits[k + 1]) % 97
    BY <1>8, <2>1
  <2> QED BY <2>1, <2>2
<1> HIDE DEF acc
<1>11. \A k \in 0..n : acc[k] \in Nat
  <2> DEFINE Upto == {k \in Nat : k <= n => acc[k] \in Nat}
  <2>1. 0 \in Upto
    BY <1>1, <1>9
  <2>2. ASSUME NEW k \in Nat, k \in Upto PROVE k + 1 \in Upto
    <3> SUFFICES ASSUME k + 1 <= n PROVE acc[k + 1] \in Nat
      OBVIOUS
    <3>1. k \in 0..(n - 1) /\ k <= n /\ k + 1 \in 1..n
      BY <1>2
    <3>2. acc[k] \in Nat /\ digits[k + 1] \in 0..35
      BY <2>2, <3>1, <1>2
    <3>3. acc[k + 1] = IF digits[k + 1] > 9 THEN (acc[k] * 100 + digits[k + 1]) % 97 ELSE (acc[k] * 10 + digits[k + 1]) % 97
      BY <1>10, <3>1
    <3>4. (IF digits[k + 1] > 9 THEN (acc[k] * 100 + digits[k + 1]) % 97 ELSE (acc[k] * 10 + digits[k + 1]) % 97) \in Nat
      BY <1>3, <3>2
    <3> QED BY <3>3, <3>4
  <2>3. \A k \in Nat : k \in Upto
    <3> HIDE DEF Upto
    <3> QED BY <2>1, <2>2, EveryNumber
  <2> QED BY <1>2, <2>3
<1>12. acc \in [0..n -> Nat]
  BY <1>11 DEF acc
<1> QED BY <1>6, <1>9, <1>10, <1>12 DEF ChecksumSteps

WholeFrom(digits, f, s) ==
  IF s = {} THEN 0 ELSE IF digits[Max(s)] > 9 THEN f[s \ {Max(s)}] * 100 + digits[Max(s)] ELSE f[s \ {Max(s)}] * 10 + digits[Max(s)]

WholeSteps(digits, n, total) ==
  \E acc \in [0..n -> Nat] :
    /\ acc[0] = 0 /\ total = acc[n]
    /\ \A k \in 0..(n - 1) : acc[k + 1] = IF digits[k + 1] > 9 THEN acc[k] * 100 + digits[k + 1] ELSE acc[k] * 10 + digits[k + 1]

\* So is the number they write.
LEMMA WholeRuns ==
  ASSUME NEW iban, NEW digits, digits = Turned(iban),
         NEW n \in Nat, digits \in Seq(0..35), Len(digits) = n
  PROVE  WholeSteps(digits, n, Whole(iban))
<1> DEFINE D == SUBSET (1..n)
           op == [a \in Nat |-> [v \in 0..35 |-> IF v > 9 THEN a * 100 + v ELSE a * 10 + v]]
<1>1. 0 \in Nat
  OBVIOUS
<1>2. n \in Nat /\ DOMAIN digits = 1..n /\ \A i \in 1..n : digits[i] \in 0..35
  BY LenProperties, ElementOfSeq
<1>3. \A a \in Nat, v \in 0..35 : (IF v > 9 THEN a * 100 + v ELSE a * 10 + v) \in Nat
  OBVIOUS
<1>4. PICK f : f = [s \in D |-> WholeFrom(digits, f, s)]
  <2>1. op \in [Nat -> [0..35 -> Nat]]
    BY <1>3
  <2>2. \A a \in Nat, v \in 0..35 : op[a][v] = IF v > 9 THEN a * 100 + v ELSE a * 10 + v
    OBVIOUS
  <2> HIDE DEF op
  <2>3. PICK f \in [D -> Nat] : \A s \in D : f[s] = FoldFrom(op, 0, digits, f, s)
    <3> DEFINE A == Nat
               V == 0..35
               b == 0
    <3>1. Foldable(A, V, op, b, n, digits)
      BY <1>1, <1>2, <2>1 DEF Foldable
    <3> HIDE DEF A, V, b
    <3>2. Folded(A, op, b, n, digits)
      BY <3>1, FoldExists
    <3> QED BY <3>2 DEF A, b, Folded
  <2>4. ASSUME NEW s \in D PROVE f[s] = WholeFrom(digits, f, s)
    <3>1. CASE s = {}
      BY <2>3, <3>1 DEF FoldFrom, WholeFrom
    <3>2. CASE s # {}
      <4>1. Max(s) \in s
        BY <3>2, Largest
      <4>2. f[s \ {Max(s)}] \in Nat /\ digits[Max(s)] \in 0..35
        BY <1>2, <2>3, <4>1
      <4>3. f[s] = op[f[s \ {Max(s)}]][digits[Max(s)]]
        BY <2>3, <3>2 DEF FoldFrom
      <4>4. f[s] = IF digits[Max(s)] > 9 THEN f[s \ {Max(s)}] * 100 + digits[Max(s)] ELSE f[s \ {Max(s)}] * 10 + digits[Max(s)]
        BY <2>2, <4>2, <4>3
      <4> QED BY <3>2, <4>4 DEF WholeFrom
    <3> QED BY <3>1, <3>2
  <2> HIDE DEF D
  <2>5. f = [s \in D |-> f[s]]
    BY <2>3
  <2> QED BY <2>4, <2>5
<1> DEFINE F == CHOOSE g : g = [s \in D |-> WholeFrom(digits, g, s)]
<1>5. F = [s \in D |-> WholeFrom(digits, F, s)]
  <2> HIDE DEF D
  <2> QED BY <1>4
<1>6. Whole(iban) = F[1..n]
  <2>1. Whole(iban)
          = (CHOOSE g : g = [s \in SUBSET DOMAIN digits |-> WholeFrom(digits, g, s)])[DOMAIN digits]
    BY DEF Whole, Turned, FoldLeft, MapThenFoldSet, WholeFrom
  <2> QED BY <1>2, <2>1
<1> HIDE DEF F, op
<1>7. F[{}] = 0
  <2>1. {} \in D
    OBVIOUS
  <2> HIDE DEF D
  <2>2. F[{}] = WholeFrom(digits, F, {})
    BY <1>5, <2>1
  <2> QED BY <2>2 DEF WholeFrom
<1>8. ASSUME NEW k \in 1..n PROVE F[1..k] = IF digits[k] > 9 THEN F[1..(k - 1)] * 100 + digits[k] ELSE F[1..(k - 1)] * 10 + digits[k]
  <2>1. 1..k \in D /\ k \in Nat /\ k # 0
    BY <1>2
  <2>2. 1..k # {} /\ Max(1..k) = k /\ (1..k) \ {k} = 1..(k - 1)
    BY <2>1, LargestOfFirst
  <2> HIDE DEF D
  <2>3. F[1..k] = WholeFrom(digits, F, 1..k)
    BY <1>5, <2>1
  <2> QED BY <2>2, <2>3 DEF WholeFrom
<1> HIDE DEF D
<1> DEFINE acc == [k \in 0..n |-> F[1..k]]
<1>9. acc[0] = 0 /\ acc[n] = F[1..n]
  <2>1. 1..0 = {} /\ n \in Nat
    BY <1>2
  <2> QED BY <1>7, <2>1
<1>10. \A k \in 0..(n - 1) : acc[k + 1] = IF digits[k + 1] > 9 THEN acc[k] * 100 + digits[k + 1] ELSE acc[k] * 10 + digits[k + 1]
  <2> SUFFICES ASSUME NEW k \in 0..(n - 1)
               PROVE  acc[k + 1] = IF digits[k + 1] > 9 THEN acc[k] * 100 + digits[k + 1] ELSE acc[k] * 10 + digits[k + 1]
    OBVIOUS
  <2>1. k + 1 \in 1..n /\ (k + 1) - 1 = k /\ k \in 0..n /\ k + 1 \in 0..n
    BY <1>2
  <2>2. F[1..(k + 1)] = IF digits[k + 1] > 9 THEN F[1..k] * 100 + digits[k + 1] ELSE F[1..k] * 10 + digits[k + 1]
    BY <1>8, <2>1
  <2> QED BY <2>1, <2>2
<1> HIDE DEF acc
<1>11. \A k \in 0..n : acc[k] \in Nat
  <2> DEFINE Upto == {k \in Nat : k <= n => acc[k] \in Nat}
  <2>1. 0 \in Upto
    BY <1>1, <1>9
  <2>2. ASSUME NEW k \in Nat, k \in Upto PROVE k + 1 \in Upto
    <3> SUFFICES ASSUME k + 1 <= n PROVE acc[k + 1] \in Nat
      OBVIOUS
    <3>1. k \in 0..(n - 1) /\ k <= n /\ k + 1 \in 1..n
      BY <1>2
    <3>2. acc[k] \in Nat /\ digits[k + 1] \in 0..35
      BY <2>2, <3>1, <1>2
    <3>3. acc[k + 1] = IF digits[k + 1] > 9 THEN acc[k] * 100 + digits[k + 1] ELSE acc[k] * 10 + digits[k + 1]
      BY <1>10, <3>1
    <3>4. (IF digits[k + 1] > 9 THEN acc[k] * 100 + digits[k + 1] ELSE acc[k] * 10 + digits[k + 1]) \in Nat
      BY <1>3, <3>2
    <3> QED BY <3>3, <3>4
  <2>3. \A k \in Nat : k \in Upto
    <3> HIDE DEF Upto
    <3> QED BY <2>1, <2>2, EveryNumber
  <2> QED BY <1>2, <2>3
<1>12. acc \in [0..n -> Nat]
  BY <1>11 DEF acc
<1> QED BY <1>6, <1>9, <1>10, <1>12 DEF WholeSteps

LEMMA RestOfStep ==
  ASSUME NEW a \in Nat, NEW b \in Nat, a = b % 97, NEW v \in 0..35
  PROVE  /\ (a * 100 + v) % 97 = (b * 100 + v) % 97
         /\ (a * 10 + v) % 97 = (b * 10 + v) % 97
<1>1. PICK d \in Nat : b = 97 * d + a
  OBVIOUS
<1>2. b * 100 + v = 97 * (d * 100) + (a * 100 + v) /\ b * 10 + v = 97 * (d * 10) + (a * 10 + v)
  BY <1>1
<1>3. \A x \in Nat, y \in Nat : (97 * x + y) % 97 = y % 97
  OBVIOUS
<1>4. d * 100 \in Nat /\ d * 10 \in Nat /\ a * 100 + v \in Nat /\ a * 10 + v \in Nat
  OBVIOUS
<1> QED BY <1>2, <1>3, <1>4

\* The digit-by-digit checksum is that of the whole number.
THEOREM ChecksumIsWhole ==
  ASSUME NEW iban \in Seq(0..35), Len(iban) >= 4
  PROVE  IbanChecksum(iban) = Whole(iban) % 97
<1> DEFINE digits == Turned(iban)
           n == Len(digits)
<1>1. digits \in Seq(0..35) /\ n \in Nat
  <2>1. Len(iban) \in Nat /\ \A i \in 1..Len(iban) : iban[i] \in 0..35
    BY LenProperties, ElementOfSeq
  <2>2. SubSeq(iban, 5, Len(iban)) \in Seq(0..35) /\ SubSeq(iban, 1, 4) \in Seq(0..35)
    <3>1. \A i \in 5..Len(iban) : iban[i] \in 0..35
      BY <2>1
    <3>2. \A i \in 1..4 : iban[i] \in 0..35
      BY <2>1
    <3> QED BY <2>1, <3>1, <3>2, SubSeqProperties
  <2>3. digits \in Seq(0..35)
    BY <2>2, ConcatProperties DEF Turned
  <2> QED BY <2>3, LenProperties
<1>2. \A i \in 1..n : digits[i] \in 0..35
  BY <1>1, ElementOfSeq
<1>3. PICK c \in [0..n -> Nat] :
        /\ c[0] = 0 /\ IbanChecksum(iban) = c[n]
        /\ \A k \in 0..(n - 1) : c[k + 1] = IF digits[k + 1] > 9 THEN (c[k] * 100 + digits[k + 1]) % 97
                                            ELSE (c[k] * 10 + digits[k + 1]) % 97
  <2>1. ChecksumSteps(digits, n, IbanChecksum(iban))
    BY <1>1, IbanChecksumRuns
  <2> HIDE DEF digits, n
  <2> QED BY <2>1 DEF ChecksumSteps
<1>4. PICK w \in [0..n -> Nat] :
        /\ w[0] = 0 /\ Whole(iban) = w[n]
        /\ \A k \in 0..(n - 1) : w[k + 1] = IF digits[k + 1] > 9 THEN w[k] * 100 + digits[k + 1]
                                            ELSE w[k] * 10 + digits[k + 1]
  <2>1. WholeSteps(digits, n, Whole(iban))
    BY <1>1, WholeRuns
  <2> HIDE DEF digits, n
  <2> QED BY <2>1 DEF WholeSteps
<1> HIDE DEF digits, n
<1> DEFINE Upto == {k \in Nat : k <= n => c[k] = w[k] % 97}
<1>5. 0 \in Upto
  BY <1>3, <1>4
<1>6. ASSUME NEW k \in Nat, k \in Upto PROVE k + 1 \in Upto
  <2> SUFFICES ASSUME k + 1 <= n PROVE c[k + 1] = w[k + 1] % 97
    OBVIOUS
  <2>1. k \in 0..(n - 1) /\ k \in 0..n /\ k <= n /\ k + 1 \in 1..n
    BY <1>1
  <2>2. PICK a \in Nat, b \in Nat, v \in 0..35 : a = c[k] /\ b = w[k] /\ v = digits[k + 1]
    BY <1>2, <1>3, <1>4, <2>1
  <2>3. a = b % 97
    BY <1>6, <2>1, <2>2
  <2>4. c[k + 1] = IF v > 9 THEN (a * 100 + v) % 97 ELSE (a * 10 + v) % 97
    BY <1>3, <2>1, <2>2
  <2>5. w[k + 1] = IF v > 9 THEN b * 100 + v ELSE b * 10 + v
    BY <1>4, <2>1, <2>2
  <2>6. /\ (a * 100 + v) % 97 = (b * 100 + v) % 97
        /\ (a * 10 + v) % 97 = (b * 10 + v) % 97
    BY <2>3, RestOfStep
  <2> QED BY ONLY <2>4, <2>5, <2>6
<1>7. n \in Upto
  <2> HIDE DEF Upto
  <2> QED BY <1>1, <1>5, <1>6, EveryNumber
<1> QED BY <1>1, <1>3, <1>4, <1>7

-----------------------------------------------------------------------------
(* What a reader finds that minds the quotes.                              *)

\* What is a separator, or will be once it is encoded.
Separating == {SEMI, GREEK}
Marks == {QUOTE} \cup Separating

QuotesTo(s, i) == {j \in 1..i : s[j] = QUOTE}
Seen(s, p) == {i \in DOMAIN s : s[i] \in Separating /\ (p + Cardinality(QuotesTo(s, i))) % 2 = 0}

\* Coming inside quotes where p is 1, the reader finds n separators in s, and
\* is inside quotes afterwards where q is 1.
Reads(s, p, q, n) ==
  /\ IsList(s) /\ p \in {0, 1} /\ q \in {0, 1} /\ n \in Nat
  /\ (p + Cardinality(QuotesTo(s, Len(s)))) % 2 = q
  /\ Cardinality(Seen(s, p)) = n

Shift(B, L) == {L + j : j \in B}
Within(A, L) == L \in Nat /\ A \subseteq 1..L

LEMMA ShiftedUnion ==
  ASSUME NEW L, NEW M, NEW A, NEW B, Within(A, L), Within(B, M)
  PROVE  /\ Cardinality(A) \in Nat /\ Cardinality(B) \in Nat
         /\ Cardinality(A \cup Shift(B, L)) = Cardinality(A) + Cardinality(B)
<1> DEFINE C == {L + j : j \in B}
           f == [j \in B |-> L + j]
<1>0. L \in Nat /\ M \in Nat /\ A \in SUBSET (1..L) /\ B \in SUBSET (1..M)
  BY DEF Within
<1>1. IsFiniteSet(1..L) /\ IsFiniteSet(1..M)
  BY <1>0, FS_Interval
<1>2. IsFiniteSet(A) /\ IsFiniteSet(B)
  BY <1>0, <1>1, FS_Subset
<1>3. \A j \in B : j \in 1..M
  BY <1>0
<1>4. f \in Bijection(B, C)
  <2>1. f \in [B -> C]
    OBVIOUS
  <2>2. \A i, j \in B : f[i] = f[j] => i = j
    BY <1>0, <1>3
  <2>3. \A c \in C : \E j \in B : f[j] = c
    OBVIOUS
  <2> HIDE DEF f, C
  <2> QED BY <2>1, <2>2, <2>3 DEF Bijection, Injection, Surjection, IsInjective
<1>5. ExistsBijection(B, C)
  BY <1>4 DEF ExistsBijection
<1>6. A \cap C = {}
  <2> SUFFICES ASSUME NEW j \in B, L + j \in A PROVE FALSE
    OBVIOUS
  <2>1. j \in 1..M /\ L + j \in 1..L
    BY <1>0
  <2> QED BY <1>0, <2>1
<1> HIDE DEF C, f
<1>7. IsFiniteSet(C) /\ Cardinality(C) = Cardinality(B)
  BY <1>2, <1>5, FS_Bijection
<1>8. Cardinality(A \cup C) = Cardinality(A) + Cardinality(C) - Cardinality(A \cap C)
  BY <1>2, <1>7, FS_Union
<1>9. Cardinality(A \cap C) = 0
  BY <1>6, FS_EmptySet
<1>10. Cardinality(A) \in Nat /\ Cardinality(B) \in Nat
  BY <1>2, FS_CardinalityType
<1>11. Cardinality(A \cup C) = Cardinality(A) + Cardinality(B)
  BY <1>7, <1>8, <1>9, <1>10
<1> QED BY <1>10, <1>11 DEF C, Shift

LEMMA ConcatParts ==
  ASSUME NEW s, IsList(s), NEW t, IsList(t)
  PROVE  /\ IsList(s \o t) /\ Len(s \o t) = Len(s) + Len(t)
         /\ DOMAIN (s \o t) = 1..(Len(s) + Len(t))
         /\ \A i \in 1..Len(s) : (s \o t)[i] = s[i]
         /\ \A i \in 1..Len(t) : (s \o t)[Len(s) + i] = t[i]
<1> DEFINE S == ToSet(s) \cup ToSet(t)
           u == s \o t
<1>1. s \in Seq(S) /\ t \in Seq(S)
  BY SeqMonotonic DEF IsList
<1>2. Len(s) \in Nat /\ Len(t) \in Nat
  BY ListParts
<1> HIDE DEF S
<1>3. /\ u \in Seq(S) /\ Len(u) = Len(s) + Len(t)
      /\ \A i \in 1..(Len(s) + Len(t)) :
           u[i] = IF i <= Len(s) THEN s[i] ELSE t[i - Len(s)]
  BY <1>1, ConcatProperties
<1>4. DOMAIN u = 1..(Len(s) + Len(t))
  BY <1>3, LenProperties
<1> HIDE DEF u
<1>5. \A i \in 1..Len(s) : u[i] = s[i]
  BY <1>2, <1>3
<1>6. \A i \in 1..Len(t) : u[Len(s) + i] = t[i]
  <2> SUFFICES ASSUME NEW i \in 1..Len(t) PROVE u[Len(s) + i] = t[i]
    OBVIOUS
  <2>1. /\ Len(s) + i \in 1..(Len(s) + Len(t)) /\ ~(Len(s) + i <= Len(s))
        /\ (Len(s) + i) - Len(s) = i
    BY <1>2
  <2> QED BY <1>3, <2>1
<1>7. IsList(u)
  BY ConcatList DEF u
<1> QED BY <1>3, <1>4, <1>5, <1>6, <1>7 DEF u

\* The reader of two texts reads the one and then the other.
LEMMA ReadsOn ==
  ASSUME NEW s, NEW t, NEW p, NEW q, NEW r, NEW m, NEW n, Reads(s, p, q, m), Reads(t, q, r, n)
  PROVE  Reads(s \o t, p, r, m + n)
<1> DEFINE u == s \o t
           L == Len(s)
           M == Len(t)
<1>1. /\ IsList(s) /\ IsList(t) /\ p \in {0, 1} /\ q \in {0, 1} /\ r \in {0, 1}
      /\ m \in Nat /\ n \in Nat
  BY DEF Reads
<1>2. /\ IsList(u) /\ Len(u) = L + M /\ DOMAIN u = 1..(L + M)
      /\ (\A i \in 1..L : u[i] = s[i]) /\ (\A i \in 1..M : u[L + i] = t[i])
      /\ L \in Nat /\ M \in Nat /\ DOMAIN s = 1..L /\ DOMAIN t = 1..M
  BY <1>1, ConcatParts, ListParts
<1> HIDE DEF u, L, M
<1>3. ASSUME NEW i \in 0..L PROVE QuotesTo(u, i) = QuotesTo(s, i)
  BY <1>2 DEF QuotesTo
<1>4. ASSUME NEW k \in 0..M
      PROVE  /\ Cardinality(QuotesTo(s, L)) \in Nat /\ Cardinality(QuotesTo(t, k)) \in Nat
             /\ Cardinality(QuotesTo(u, L + k))
                  = Cardinality(QuotesTo(s, L)) + Cardinality(QuotesTo(t, k))
  <2> DEFINE A == QuotesTo(s, L)
             B == QuotesTo(t, k)
  <2>1. k \in Nat /\ A \in SUBSET (1..L) /\ B \in SUBSET (1..k)
    BY <1>2 DEF QuotesTo
  <2>2. QuotesTo(u, L + k) = A \cup Shift(B, L)
    <3>1. ASSUME NEW x \in 1..(L + k), u[x] = QUOTE PROVE x \in A \cup {L + j : j \in B}
      <4>1. CASE x <= L
        <5>1. x \in 1..L
          BY <1>2, <4>1
        <5> QED BY <1>2, <3>1, <5>1 DEF QuotesTo
      <4>2. CASE ~(x <= L)
        <5>1. PICK j \in 1..k : x = L + j
          <6>1. x - L \in 1..k /\ x = L + (x - L)
            BY <1>2, <4>2, <2>1
          <6> QED BY <6>1
        <5>2. j \in 1..M
          BY <1>2
        <5>3. t[j] = QUOTE
          BY <1>2, <3>1, <5>1, <5>2
        <5> QED BY <5>1, <5>3 DEF QuotesTo
      <4> QED BY <4>1, <4>2
    <3>2. ASSUME NEW x \in A PROVE x \in 1..(L + k) /\ u[x] = QUOTE
      <4>1. x \in 1..L /\ s[x] = QUOTE
        BY DEF QuotesTo
      <4> QED BY <1>2, <2>1, <4>1
    <3>3. ASSUME NEW j \in B PROVE L + j \in 1..(L + k) /\ u[L + j] = QUOTE
      <4>1. j \in 1..k /\ t[j] = QUOTE /\ j \in 1..M
        BY <1>2 DEF QuotesTo
      <4> QED BY <1>2, <2>1, <4>1
    <3> HIDE DEF A, B
    <3> QED BY <3>1, <3>2, <3>3 DEF QuotesTo, Shift
  <2> HIDE DEF A, B
  <2>3. /\ Cardinality(A) \in Nat /\ Cardinality(B) \in Nat
        /\ Cardinality(A \cup Shift(B, L)) = Cardinality(A) + Cardinality(B)
    <3>1. Within(A, L) /\ Within(B, k)
      BY <1>2, <2>1 DEF Within
    <3> QED BY <3>1, ShiftedUnion
  <2> QED BY <2>2, <2>3 DEF A, B
<1>5. PICK a \in Nat : a = Cardinality(QuotesTo(s, L))
  <2>1. 0 \in 0..M
    BY <1>2
  <2> QED BY <1>4, <2>1
<1>6. (p + a) % 2 = q
  BY <1>5 DEF Reads, L
<1>7. ASSUME NEW k \in 0..M
      PROVE  \E b \in Nat : /\ b = Cardinality(QuotesTo(t, k))
                            /\ Cardinality(QuotesTo(u, L + k)) = a + b
                            /\ (p + (a + b)) % 2 = (q + b) % 2
  <2>1. PICK b \in Nat : b = Cardinality(QuotesTo(t, k))
    BY <1>4
  <2>2. Cardinality(QuotesTo(u, L + k)) = a + b
    BY <1>4, <1>5, <2>1
  <2>3. (p + (a + b)) % 2 = (q + b) % 2
    BY ONLY <1>1, <1>6, a \in Nat, b \in Nat
  <2> QED BY <2>1, <2>2, <2>3
<1>8. (p + Cardinality(QuotesTo(u, L + M))) % 2 = r
  <2>1. M \in 0..M
    BY <1>2
  <2>2. PICK b \in Nat : /\ b = Cardinality(QuotesTo(t, M))
                         /\ Cardinality(QuotesTo(u, L + M)) = a + b
                         /\ (p + (a + b)) % 2 = (q + b) % 2
    BY <1>7, <2>1
  <2>3. (q + b) % 2 = r
    BY <2>2 DEF Reads, M
  <2> QED BY <2>2, <2>3
<1>9. Seen(u, p) = Seen(s, p) \cup Shift(Seen(t, q), L)
  <2>1. ASSUME NEW i \in 1..L PROVE i \in Seen(u, p) <=> i \in Seen(s, p)
    <3>1. QuotesTo(u, i) = QuotesTo(s, i) /\ u[i] = s[i] /\ i \in DOMAIN u /\ i \in DOMAIN s
      BY <1>2, <1>3
    <3> QED BY <3>1 DEF Seen
  <2>2. ASSUME NEW k \in 1..M PROVE L + k \in Seen(u, p) <=> k \in Seen(t, q)
    <3>1. k \in 0..M /\ L + k \in DOMAIN u /\ k \in DOMAIN t /\ u[L + k] = t[k]
      BY <1>2
    <3>2. PICK b \in Nat : /\ b = Cardinality(QuotesTo(t, k))
                           /\ Cardinality(QuotesTo(u, L + k)) = a + b
                           /\ (p + (a + b)) % 2 = (q + b) % 2
      BY <1>7, <3>1
    <3> QED BY <3>1, <3>2 DEF Seen
  <2>3. Seen(u, p) \subseteq 1..(L + M) /\ Seen(s, p) \subseteq 1..L /\ Seen(t, q) \subseteq 1..M
    BY <1>2 DEF Seen
  <2>4. \A x \in 1..(L + M) : x \in 1..L \/ \E k \in 1..M : x = L + k
    <3> SUFFICES ASSUME NEW x \in 1..(L + M), x \notin 1..L PROVE \E k \in 1..M : x = L + k
      OBVIOUS
    <3>1. x - L \in 1..M /\ x = L + (x - L)
      BY <1>2
    <3> QED BY <3>1
  <2>5. ASSUME NEW x \in Seen(u, p) PROVE x \in Seen(s, p) \cup {L + k : k \in Seen(t, q)}
    BY <2>1, <2>2, <2>3, <2>4
  <2> QED BY <2>1, <2>2, <2>3, <2>5 DEF Shift
<1>10. Cardinality(Seen(u, p)) = m + n
  <2> DEFINE A == Seen(s, p)
             B == Seen(t, q)
  <2>1. A \in SUBSET (1..L) /\ B \in SUBSET (1..M)
    BY <1>2 DEF Seen
  <2>2. Cardinality(A) = m /\ Cardinality(B) = n
    BY DEF Reads
  <2> HIDE DEF A, B
  <2>3. Cardinality(A \cup Shift(B, L)) = m + n
    <3>1. Within(A, L) /\ Within(B, M)
      BY <1>2, <2>1 DEF Within
    <3>2. Cardinality(A \cup Shift(B, L)) = Cardinality(A) + Cardinality(B)
      BY <3>1, ShiftedUnion
    <3> QED BY <2>2, <3>2
  <2> QED BY <1>9, <2>3 DEF A, B
<1> QED BY <1>1, <1>2, <1>8, <1>10 DEF Reads, u

Plain(s) == IsList(s) /\ \A i \in DOMAIN s : s[i] \notin Marks
Unquoted(s) == IsList(s) /\ \A i \in DOMAIN s : s[i] # QUOTE

LEMMA NoQuotes ==
  ASSUME NEW s, Unquoted(s), NEW i \in 0..Len(s)
  PROVE  QuotesTo(s, i) = {} /\ Cardinality(QuotesTo(s, i)) = 0
<1>1. Len(s) \in Nat /\ DOMAIN s = 1..Len(s)
  BY ListParts DEF Unquoted
<1>2. \A j \in 1..i : j \in DOMAIN s
  BY <1>1
<1>3. QuotesTo(s, i) = {}
  BY <1>2 DEF QuotesTo, Unquoted
<1> QED BY <1>3, FS_EmptySet

\* A text with neither separator nor quote is read as it stands,
LEMMA PlainReads ==
  ASSUME NEW s, Plain(s)
  PROVE  Reads(s, 0, 0, 0)
<1>1. Unquoted(s)
  BY DEF Plain, Unquoted, Marks
<1>2. Len(s) \in Nat /\ DOMAIN s = 1..Len(s)
  BY ListParts DEF Plain
<1>3. Cardinality(QuotesTo(s, Len(s))) = 0
  BY <1>1, <1>2, NoQuotes
<1>4. Seen(s, 0) = {}
  BY DEF Plain, Seen, Marks
<1>5. Cardinality(Seen(s, 0)) = 0
  BY <1>4, FS_EmptySet
<1>6. IsList(s)
  BY DEF Plain
<1> QED BY <1>3, <1>5, <1>6 DEF Reads

\* and inside quotes so is one without a quote.
LEMMA UnquotedReads ==
  ASSUME NEW s, Unquoted(s)
  PROVE  Reads(s, 1, 1, 0)
<1>2. Len(s) \in Nat /\ DOMAIN s = 1..Len(s)
  BY ListParts DEF Unquoted
<1>3. Cardinality(QuotesTo(s, Len(s))) = 0
  BY <1>2, NoQuotes
<1>4. Seen(s, 1) = {}
  <2> SUFFICES ASSUME NEW i \in DOMAIN s, (1 + Cardinality(QuotesTo(s, i))) % 2 = 0 PROVE FALSE
    BY DEF Seen
  <2>1. i \in 0..Len(s)
    BY <1>2
  <2>2. Cardinality(QuotesTo(s, i)) = 0
    BY <2>1, NoQuotes
  <2> QED BY <2>2
<1>5. Cardinality(Seen(s, 1)) = 0
  BY <1>4, FS_EmptySet
<1>6. IsList(s)
  BY DEF Unquoted
<1> QED BY <1>3, <1>5, <1>6 DEF Reads

LEMMA QuoteReads == Reads(<<QUOTE>>, 0, 1, 0) /\ Reads(<<QUOTE>>, 1, 0, 0)
<1> DEFINE s == <<QUOTE>>
<1>1. IsList(s) /\ Len(s) = 1 /\ s[1] = QUOTE /\ DOMAIN s = 1..1
  BY OneIsList, ListParts
<1> HIDE DEF s
<1>2. QuotesTo(s, 1) = {1}
  BY <1>1 DEF QuotesTo
<1>3. Cardinality(QuotesTo(s, 1)) = 1
  BY <1>2, FS_Singleton
<1>4. \A i \in DOMAIN s : s[i] \notin Separating
  <2>1. \A i \in 1..1 : i = 1
    OBVIOUS
  <2>2. QUOTE \notin Separating
    BY DEF Marks, Separating, QUOTE, SEMI, GREEK
  <2> QED BY <1>1, <2>1, <2>2
<1>5. Seen(s, 0) = {} /\ Seen(s, 1) = {}
  BY <1>4 DEF Seen
<1>6. Cardinality(Seen(s, 0)) = 0 /\ Cardinality(Seen(s, 1)) = 0
  BY <1>5, FS_EmptySet
<1> QED BY <1>1, <1>3, <1>6 DEF Reads, s

LEMMA DoubledReads == Reads(<<QUOTE, QUOTE>>, 1, 1, 0)
<1> DEFINE s == <<QUOTE, QUOTE>>
<1>1. IsList(s) /\ Len(s) = 2 /\ s[1] = QUOTE /\ s[2] = QUOTE
  BY PairIsList
<1> HIDE DEF s
<1>2. DOMAIN s = 1..2 /\ \A i \in 1..2 : i = 1 \/ i = 2
  <2>1. DOMAIN s = 1..2
    BY <1>1, ListParts
  <2> QED BY <2>1
<1>3. \A i \in 1..2 : s[i] = QUOTE
  BY <1>1, <1>2
<1>4. QuotesTo(s, 2) = 1..2
  BY <1>3 DEF QuotesTo
<1>5. Cardinality(QuotesTo(s, 2)) = 2
  <2>1. PICK n \in Nat : n = 2
    OBVIOUS
  <2>2. Cardinality(1..n) = n
    <3>1. Cardinality(1..n) = IF 1 > n THEN 0 ELSE n - 1 + 1
      BY FS_Interval
    <3> QED BY <2>1, <3>1
  <2>3. Cardinality(1..2) = 2
    BY <2>1, <2>2
  <2> QED BY <1>4, <2>3
<1>6. \A i \in DOMAIN s : s[i] \notin Separating
  <2>1. QUOTE \notin Separating
    BY DEF Marks, Separating, QUOTE, SEMI, GREEK
  <2> QED BY <1>2, <1>3, <2>1
<1>7. Seen(s, 1) = {}
  BY <1>6 DEF Seen
<1>8. Cardinality(Seen(s, 1)) = 0
  BY <1>7, FS_EmptySet
<1> QED BY <1>1, <1>5, <1>8 DEF Reads, s

LEMMA SeparatorReads == Reads(<<SEMI>>, 0, 0, 1)
<1> DEFINE s == <<SEMI>>
<1>1. IsList(s) /\ Len(s) = 1 /\ s[1] = SEMI /\ DOMAIN s = 1..1
  BY OneIsList, ListParts
<1> HIDE DEF s
<1>2. Unquoted(s)
  <2>1. \A i \in 1..1 : i = 1
    OBVIOUS
  <2>2. QUOTE # SEMI
    BY DEF QUOTE, SEMI
  <2> QED BY <1>1, <2>1, <2>2 DEF Unquoted
<1>3. Cardinality(QuotesTo(s, 1)) = 0
  <2>1. 1 \in 0..Len(s)
    BY <1>1
  <2> QED BY <1>2, <2>1, NoQuotes
<1>4. Seen(s, 0) = {1}
  BY <1>1, <1>3 DEF Seen, Separating
<1>5. Cardinality(Seen(s, 0)) = 1
  BY <1>4, FS_Singleton
<1> QED BY <1>1, <1>3, <1>5 DEF Reads, s

\* A line with n separators as another program reads it: no character is left
\* that an encoding would still turn into one.
Columns(line, n) == Reads(line, 0, 0, n) /\ \A i \in DOMAIN line : line[i] # GREEK

\* The encoding leaves quotes and what separates where they are.
LEMMA EncodedReads ==
  ASSUME NEW s, NEW n, Reads(s, 0, 0, n)
  PROVE  Columns(EncodeCp1252(s), n)
<1> DEFINE t == EncodeCp1252(s)
           S == {t[i] : i \in 1..Len(s)}
<1>1. IsList(s) /\ Len(s) \in Nat /\ DOMAIN s = 1..Len(s)
  BY ListParts DEF Reads
<1>2. t = [i \in 1..Len(s) |-> CASE s[i] = FOLDED -> "a" [] s[i] = ALIEN -> "?"
                               [] s[i] = GREEK -> SEMI [] OTHER -> s[i]]
  BY DEF EncodeCp1252
<1> HIDE DEF t
<1>3. DOMAIN t = 1..Len(s) /\ \A i \in 1..Len(s) :
                                 /\ (t[i] = QUOTE <=> s[i] = QUOTE)
                                 /\ (t[i] \in Separating <=> s[i] \in Separating)
                                 /\ t[i] # GREEK
  BY <1>2 DEF Separating, FOLDED, ALIEN, QUOTE, SEMI, GREEK
<1>4. t \in Seq(S) /\ Len(t) = Len(s)
  <2>1. \A i \in 1..Len(s) : t[i] \in S
    OBVIOUS
  <2> HIDE DEF S
  <2>2. t \in [1..Len(s) -> S]
    BY <1>2, <2>1
  <2> QED BY <1>1, <2>2
<1>5. IsList(t)
  BY <1>4, SeqIsList
<1>6. \A i \in 1..Len(s) : QuotesTo(t, i) = QuotesTo(s, i)
  <2> SUFFICES ASSUME NEW i \in 1..Len(s) PROVE QuotesTo(t, i) = QuotesTo(s, i)
    OBVIOUS
  <2>1. \A j \in 1..i : j \in 1..Len(s)
    BY <1>1
  <2> QED BY <1>3, <2>1 DEF QuotesTo
<1>7. QuotesTo(t, Len(t)) = QuotesTo(s, Len(s))
  <2>1. CASE Len(s) = 0
    <3>1. 1..Len(s) = {} /\ 1..Len(t) = {}
      BY <1>4, <2>1
    <3> QED BY <3>1 DEF QuotesTo
  <2>2. CASE Len(s) # 0
    BY <1>1, <1>4, <1>6, <2>2
  <2> QED BY <2>1, <2>2
<1>8. Seen(t, 0) = Seen(s, 0)
  <2>1. \A i \in 1..Len(s) : i \in Seen(t, 0) <=> i \in Seen(s, 0)
    BY <1>1, <1>3, <1>6 DEF Seen
  <2>2. Seen(t, 0) \subseteq 1..Len(s) /\ Seen(s, 0) \subseteq 1..Len(s)
    BY <1>1, <1>3 DEF Seen
  <2> QED BY <2>1, <2>2
<1>9. Reads(t, 0, 0, n)
  BY <1>5, <1>7, <1>8 DEF Reads
<1> QED BY <1>3, <1>9 DEF Columns, t

\* A line has one separator less than parts,
LEMMA JoinReads ==
  ASSUME NEW S, SEMI \in S, NEW n \in Nat, NEW parts \in Seq(Seq(S)), Len(parts) = n + 1,
         \A i \in 1..(n + 1) : Reads(parts[i], 0, 0, 0)
  PROVE  Reads(Join(parts, SEMI), 0, 0, n)
<1>1. JoinSteps(S, parts, SEMI, n, Join(parts, SEMI))
  BY JoinRuns
<1>2. PICK acc \in [0..n -> Seq(S)] :
        /\ acc[0] = parts[1] /\ Join(parts, SEMI) = acc[n]
        /\ \A k \in 0..(n - 1) : acc[k + 1] = acc[k] \o <<SEMI>> \o parts[k + 2]
  BY <1>1 DEF JoinSteps
<1> DEFINE Upto == {k \in Nat : k <= n => Reads(acc[k], 0, 0, k)}
<1>3. 0 \in Upto
  <2>1. 1 \in 1..(n + 1)
    OBVIOUS
  <2> QED BY <1>2, <2>1
<1>4. ASSUME NEW k \in Nat, k \in Upto PROVE k + 1 \in Upto
  <2> SUFFICES ASSUME k + 1 <= n PROVE Reads(acc[k + 1], 0, 0, k + 1)
    OBVIOUS
  <2>1. k \in 0..(n - 1) /\ k <= n /\ k + 2 \in 1..(n + 1)
    OBVIOUS
  <2>2. Reads(acc[k], 0, 0, k) /\ Reads(parts[k + 2], 0, 0, 0)
    BY <1>4, <2>1
  <2>3. Reads(acc[k] \o <<SEMI>>, 0, 0, k + 1)
    BY <2>2, SeparatorReads, ReadsOn
  <2>4. Reads((acc[k] \o <<SEMI>>) \o parts[k + 2], 0, 0, (k + 1) + 0)
    BY <2>2, <2>3, ReadsOn
  <2>5. (k + 1) + 0 = k + 1
    OBVIOUS
  <2> QED BY <1>2, <2>1, <2>4, <2>5
<1>5. n \in Upto
  <2> HIDE DEF Upto
  <2> QED BY <1>3, <1>4, EveryNumber
<1> QED BY <1>2, <1>5

\* and what is put together inside quotes stays inside.
LEMMA ConcatReads ==
  ASSUME NEW S, NEW n \in Nat, NEW parts \in Seq(Seq(S)), Len(parts) = n,
         \A i \in 1..n : Reads(parts[i], 1, 1, 0)
  PROVE  Reads(Concat(parts), 1, 1, 0)
<1>1. ConcatSteps(S, parts, n, Concat(parts))
  BY ConcatRuns
<1>2. PICK acc \in [0..n -> Seq(S)] :
        /\ acc[0] = <<>> /\ Concat(parts) = acc[n]
        /\ \A k \in 0..(n - 1) : acc[k + 1] = acc[k] \o parts[k + 1]
  BY <1>1 DEF ConcatSteps
<1> DEFINE Upto == {k \in Nat : k <= n => Reads(acc[k], 1, 1, 0)}
<1>3. 0 \in Upto
  <2>1. Unquoted(<<>>)
    BY EmptyList DEF Unquoted
  <2>2. Reads(<<>>, 1, 1, 0)
    BY <2>1, UnquotedReads
  <2> QED BY <1>2, <2>2
<1>4. ASSUME NEW k \in Nat, k \in Upto PROVE k + 1 \in Upto
  <2> SUFFICES ASSUME k + 1 <= n PROVE Reads(acc[k + 1], 1, 1, 0)
    OBVIOUS
  <2>1. k \in 0..(n - 1) /\ k <= n /\ k + 1 \in 1..n
    OBVIOUS
  <2>2. Reads(acc[k], 1, 1, 0) /\ Reads(parts[k + 1], 1, 1, 0)
    BY <1>4, <2>1
  <2>3. Reads(acc[k] \o parts[k + 1], 1, 1, 0 + 0)
    BY <2>2, ReadsOn
  <2>4. acc[k + 1] = acc[k] \o parts[k + 1]
    BY <1>2, <2>1
  <2>5. 0 + 0 = 0
    OBVIOUS
  <2> QED BY <2>3, <2>4, <2>5
<1>5. n \in Upto
  <2> HIDE DEF Upto
  <2> QED BY <1>3, <1>4, EveryNumber
<1> QED BY <1>2, <1>5

Tokens == Letters \cup {NL, SEMI, QUOTE, FOLDED, ALIEN, GREEK}

LEMMA TextParts ==
  ASSUME NEW s \in Text
  PROVE  /\ IsList(s) /\ Len(s) \in Nat /\ DOMAIN s = 1..Len(s)
         /\ \A i \in 1..Len(s) : s[i] \in Tokens
<1>1. s \in Seq(Tokens)
  BY DEF Text, Tokens
<1> QED BY <1>1, SeqIsList, LenProperties, ElementOfSeq

Replaced(t, s, bad, by) ==
  /\ IsList(t) /\ Len(t) = Len(s)
  /\ \A i \in 1..Len(s) : t[i] = IF s[i] \in bad THEN by ELSE s[i]

LEMMA ReplaceList ==
  ASSUME NEW s, IsList(s), NEW bad, NEW by
  PROVE  Replaced(Replace(s, bad, by), s, bad, by)
<1> DEFINE t == Replace(s, bad, by)
           S == ToSet(s) \cup {by}
<1>1. Len(s) \in Nat /\ DOMAIN s = 1..Len(s)
  BY ListParts
<1>2. t = [i \in 1..Len(s) |-> IF s[i] \in bad THEN by ELSE s[i]]
  BY DEF Replace
<1> HIDE DEF t
<1>3. \A i \in 1..Len(s) : t[i] \in S
  BY <1>1, <1>2 DEF ToSet
<1> HIDE DEF S
<1>4. t \in [1..Len(s) -> S]
  BY <1>2, <1>3
<1>5. t \in Seq(S) /\ Len(t) = Len(s)
  BY <1>1, <1>4
<1>6. IsList(t)
  BY <1>5, SeqIsList
<1> QED BY <1>2, <1>5, <1>6 DEF t, Replaced

LEMMA CutOf ==
  ASSUME NEW s, IsList(s), NEW max \in Nat
  PROVE  /\ IsList(Cut(s, max)) /\ Len(Cut(s, max)) \in Nat /\ Len(Cut(s, max)) <= Len(s)
         /\ DOMAIN Cut(s, max) = 1..Len(Cut(s, max))
         /\ \A i \in 1..Len(Cut(s, max)) : Cut(s, max)[i] = s[i]
<1> DEFINE n == IF Len(s) < max THEN Len(s) ELSE max
           t == Cut(s, max)
<1>1. Len(s) \in Nat /\ DOMAIN s = 1..Len(s)
  BY ListParts
<1>2. n \in Nat /\ n <= Len(s)
  BY <1>1
<1>3. \A i \in 1..n : s[i] \in ToSet(s)
  BY <1>1, <1>2 DEF ToSet
<1>4. t = SubSeq(s, 1, n)
  BY DEF Cut
<1> HIDE DEF n, t
<1>5. /\ t \in Seq(ToSet(s)) /\ Len(t) = n
      /\ \A i \in 1..n : t[i] = s[i]
  <2>1. t = [i \in 1..n |-> s[i]]
    BY <1>2, <1>4
  <2>2. t \in [1..n -> ToSet(s)]
    BY <1>3, <2>1
  <2> QED BY <1>2, <2>1, <2>2
<1>6. IsList(t) /\ DOMAIN t = 1..Len(t)
  BY <1>5, SeqIsList, LenProperties
<1> QED BY <1>2, <1>5, <1>6 DEF t

LEMMA ConcatPlain ==
  ASSUME NEW s, Plain(s), NEW t, Plain(t)
  PROVE  Plain(s \o t)
<1> DEFINE u == s \o t
<1>1. IsList(s) /\ IsList(t) /\ DOMAIN s = 1..Len(s) /\ DOMAIN t = 1..Len(t)
      /\ Len(s) \in Nat /\ Len(t) \in Nat
  BY ListParts DEF Plain
<1>2. /\ IsList(u) /\ DOMAIN u = 1..(Len(s) + Len(t))
      /\ (\A i \in 1..Len(s) : u[i] = s[i]) /\ (\A i \in 1..Len(t) : u[Len(s) + i] = t[i])
  BY <1>1, ConcatParts
<1> HIDE DEF u
<1>3. ASSUME NEW i \in 1..(Len(s) + Len(t)) PROVE u[i] \notin Marks
  <2>1. CASE i <= Len(s)
    <3>1. i \in 1..Len(s)
      BY <1>1, <2>1
    <3> QED BY <1>1, <1>2, <3>1 DEF Plain
  <2>2. CASE ~(i <= Len(s))
    <3>1. i - Len(s) \in 1..Len(t) /\ i = Len(s) + (i - Len(s))
      BY <1>1, <2>2
    <3>2. PICK j \in 1..Len(t) : i = Len(s) + j
      BY <3>1
    <3> QED BY <1>1, <1>2, <3>2 DEF Plain
  <2> QED BY <2>1, <2>2
<1> QED BY <1>2, <1>3 DEF Plain, u

LEMMA OnePlain ==
  ASSUME NEW a, a \notin Marks
  PROVE  Plain(<<a>>)
<1> DEFINE s == <<a>>
<1>1. IsList(s) /\ s[1] = a /\ DOMAIN s = 1..1
  BY OneIsList, ListParts
<1>2. \A i \in 1..1 : i = 1
  OBVIOUS
<1> HIDE DEF s
<1> QED BY <1>1, <1>2 DEF Plain, s

LEMMA PairPlain ==
  ASSUME NEW a, a \notin Marks, NEW b, b \notin Marks
  PROVE  Plain(<<a, b>>)
<1> DEFINE s == <<a, b>>
<1>1. IsList(s) /\ Len(s) = 2 /\ s[1] = a /\ s[2] = b
  BY PairIsList
<1> HIDE DEF s
<1>2. DOMAIN s = 1..2
  BY <1>1, ListParts
<1>3. \A i \in 1..2 : i = 1 \/ i = 2
  OBVIOUS
<1> QED BY <1>1, <1>2, <1>3 DEF Plain, s

LEMMA QuotedReads ==
  ASSUME NEW s \in Text
  PROVE  Reads(Quoted(s), 0, 0, 0)
<1> DEFINE a == Replace(s, {NL}, " ")
           b == Replace(a, {QUOTE}, "'")
           c == Replace(b, {SEMI}, ",")
           d == Cut(c, TextLimit)
<1>1. IsList(s) /\ Len(s) \in Nat
  BY TextParts
<1>2. IsList(a) /\ Len(a) = Len(s)
  BY <1>1, ReplaceList DEF Replaced
<1> HIDE DEF a
<1>3. /\ IsList(b) /\ Len(b) = Len(s)
      /\ \A i \in 1..Len(s) : b[i] = IF a[i] \in {QUOTE} THEN "'" ELSE a[i]
  <2>1. Replaced(b, a, {QUOTE}, "'")
    BY <1>2, ReplaceList
  <2> HIDE DEF b
  <2> QED BY <1>2, <2>1 DEF Replaced
<1> HIDE DEF b
<1>4. /\ IsList(c) /\ Len(c) = Len(s)
      /\ \A i \in 1..Len(s) : c[i] = IF b[i] \in {SEMI} THEN "," ELSE b[i]
  <2>1. Replaced(c, b, {SEMI}, ",")
    BY <1>3, ReplaceList
  <2> HIDE DEF c
  <2> QED BY <1>3, <2>1 DEF Replaced
<1> HIDE DEF c
<1>5. /\ IsList(d) /\ Len(d) \in Nat /\ Len(d) <= Len(s) /\ DOMAIN d = 1..Len(d)
      /\ \A i \in 1..Len(d) : d[i] = c[i]
  <2>1. TextLimit \in Nat
    BY BoundAssumption
  <2> QED BY <1>4, <2>1, CutOf
<1> HIDE DEF d
<1>6. Unquoted(d)
  <2>1. ASSUME NEW i \in 1..Len(d) PROVE d[i] # QUOTE
    <3>1. i \in 1..Len(s)
      BY <1>1, <1>5
    <3>2. b[i] # QUOTE
      BY <1>3, <3>1 DEF QUOTE
    <3>3. c[i] # QUOTE
      BY <1>4, <3>1, <3>2 DEF QUOTE
    <3> QED BY <1>5, <3>3
  <2> QED BY <1>5, <2>1 DEF Unquoted
<1>7. Reads(d, 1, 1, 0)
  BY <1>6, UnquotedReads
<1>8. Reads(<<QUOTE>> \o d, 0, 1, 0 + 0)
  BY <1>7, QuoteReads, ReadsOn
<1>9. Reads((<<QUOTE>> \o d) \o <<QUOTE>>, 0, 0, (0 + 0) + 0)
  BY <1>8, QuoteReads, ReadsOn
<1>10. Quoted(s) = (<<QUOTE>> \o d) \o <<QUOTE>>
  BY DEF Quoted, d, c, b, a
<1>11. (0 + 0) + 0 = 0
  OBVIOUS
<1> QED BY <1>9, <1>10, <1>11

LEMMA FieldReads ==
  ASSUME NEW s \in Text
  PROVE  Reads(Field(s), 0, 0, Splits(s))
<1>1. /\ IsList(s) /\ Len(s) \in Nat /\ DOMAIN s = 1..Len(s)
      /\ \A i \in 1..Len(s) : s[i] \in Tokens
  BY TextParts
<1>2. CASE ToSet(s) \cap {QUOTE, SEMI, NL} = {}
  <2>1. Field(s) = s
    BY <1>2 DEF Field
  <2>2. \A i \in 1..Len(s) : s[i] # QUOTE /\ (s[i] \in Separating <=> s[i] = GREEK)
    BY <1>1, <1>2 DEF ToSet, Separating
  <2>3. Unquoted(s)
    BY <1>1, <2>2 DEF Unquoted
  <2>4. \A i \in 1..Len(s) : i \in 0..Len(s)
    BY <1>1
  <2>5. \A i \in 1..Len(s) : Cardinality(QuotesTo(s, i)) = 0
    BY <2>3, <2>4, NoQuotes
  <2>6. Seen(s, 0) = {i \in 1..Len(s) : s[i] = GREEK}
    BY <1>1, <2>2, <2>5 DEF Seen
  <2>7. Cardinality({i \in 1..Len(s) : s[i] = GREEK}) \in Nat
    <3>1. IsFiniteSet(1..Len(s))
      BY <1>1, FS_Interval
    <3> QED BY <3>1, FS_Subset, FS_CardinalityType
  <2>8. Splits(s) = Cardinality({i \in 1..Len(s) : s[i] = GREEK})
    BY <1>2 DEF Splits
  <2>9. Cardinality(QuotesTo(s, Len(s))) = 0
    <3>1. Len(s) \in 0..Len(s)
      BY <1>1
    <3> QED BY <2>3, <3>1, NoQuotes
  <2>10. Reads(s, 0, 0, Splits(s))
    <3>1. (0 + Cardinality(QuotesTo(s, Len(s)))) % 2 = 0
      BY ONLY <2>9
    <3> QED BY <1>1, <2>6, <2>7, <2>8, <3>1 DEF Reads
  <2> QED BY <2>1, <2>10
<1>3. CASE ToSet(s) \cap {QUOTE, SEMI, NL} # {}
  <2> DEFINE parts == [i \in 1..Len(s) |-> IF s[i] = QUOTE THEN <<QUOTE, QUOTE>> ELSE <<s[i]>>]
             c == Concat(parts)
  <2>1. Field(s) = (<<QUOTE>> \o c) \o <<QUOTE>>
    BY <1>3 DEF Field
  <2>2. \A i \in 1..Len(s) : /\ parts[i] \in Seq(Tokens)
                             /\ parts[i] = IF s[i] = QUOTE THEN <<QUOTE, QUOTE>> ELSE <<s[i]>>
    <3>1. QUOTE \in Tokens
      BY DEF Tokens
    <3>2. <<QUOTE, QUOTE>> \in Seq(Tokens)
      BY <3>1
    <3>3. \A x \in Tokens : <<x>> \in Seq(Tokens)
      OBVIOUS
    <3> HIDE DEF Tokens
    <3> QED BY <1>1, <3>2, <3>3
  <2>3. parts \in Seq(Seq(Tokens)) /\ Len(parts) = Len(s)
    <3>1. parts \in [1..Len(s) -> Seq(Tokens)]
      BY <2>2
    <3>2. DOMAIN parts = 1..Len(s)
      OBVIOUS
    <3> HIDE DEF parts
    <3> QED BY <1>1, <3>1, <3>2
  <2>4. ASSUME NEW i \in 1..Len(s) PROVE Reads(parts[i], 1, 1, 0)
    <3>1. CASE s[i] = QUOTE
      <4>1. parts[i] = <<QUOTE, QUOTE>>
        BY <2>2, <3>1
      <4> HIDE DEF parts
      <4> QED BY <4>1, DoubledReads
    <3>2. CASE s[i] # QUOTE
      <4>1. IsList(<<s[i]>>) /\ <<s[i]>>[1] = s[i] /\ DOMAIN <<s[i]>> = 1..1
        BY OneIsList, ListParts
      <4>2. \A j \in 1..1 : j = 1
        OBVIOUS
      <4>3. Unquoted(<<s[i]>>)
        BY <3>2, <4>1, <4>2 DEF Unquoted
      <4>4. parts[i] = <<s[i]>>
        BY <2>2, <3>2
      <4> QED BY <4>3, <4>4, UnquotedReads
    <3> QED BY <3>1, <3>2
  <2> HIDE DEF parts
  <2>5. Reads(c, 1, 1, 0)
    BY <1>1, <2>3, <2>4, ConcatReads
  <2> HIDE DEF c
  <2>6. Reads(<<QUOTE>> \o c, 0, 1, 0 + 0)
    BY <2>5, QuoteReads, ReadsOn
  <2>7. Reads((<<QUOTE>> \o c) \o <<QUOTE>>, 0, 0, (0 + 0) + 0)
    BY <2>6, QuoteReads, ReadsOn
  <2>8. (0 + 0) + 0 = 0
    OBVIOUS
  <2>9. Splits(s) = 0
    BY <1>3 DEF Splits
  <2> QED BY <2>1, <2>7, <2>8, <2>9
<1> QED BY <1>2, <1>3

\* Whichever positions are kept, each place of At has one of them.
Takes(t, s, P) ==
  /\ IsList(t) /\ DOMAIN t = 1..Cardinality(P)
  /\ \A k \in 1..Cardinality(P) : \E i \in P : t[k] = s[i]

LEMMA AtTakes ==
  ASSUME NEW s, NEW n, NEW P, Within(P, n)
  PROVE  Takes(At(s, P), s, P)
<1> DEFINE N == Cardinality(P)
           below(i) == {j \in P : j < i}
           rank == [i \in P |-> Cardinality(below(i)) + 1]
<1>1. IsFiniteSet(P) /\ N \in Nat
  <2>1. IsFiniteSet(1..n) /\ P \in SUBSET (1..n)
    BY FS_Interval DEF Within
  <2>2. IsFiniteSet(P)
    BY <2>1, FS_Subset
  <2> QED BY <2>2, FS_CardinalityType
<1>2. ASSUME NEW i \in P
      PROVE  Cardinality(below(i)) \in Nat /\ rank[i] = Cardinality(below(i)) + 1 /\ rank[i] \in 1..N
  <2>1. below(i) \in SUBSET P /\ i \notin below(i)
    BY DEF Within
  <2> HIDE DEF below
  <2>2. Cardinality(below(i)) \in Nat /\ Cardinality(below(i)) < N
    BY <1>1, <2>1, StrictSubset
  <2> QED BY <1>1, <2>2
<1>3. ASSUME NEW i \in P, NEW j \in P, i < j PROVE rank[i] < rank[j]
  <2>0. \A x \in P : x \in Nat
    BY DEF Within
  <2>1. below(i) \in SUBSET below(j) /\ i \in below(j) /\ i \notin below(i) /\ below(j) \in SUBSET P
    <3>1. \A x \in P : x < i => x < j
      BY <1>3, <2>0
    <3>2. ~(i < i)
      BY <2>0
    <3> QED BY <1>3, <3>1, <3>2
  <2> HIDE DEF below
  <2>2. IsFiniteSet(below(j))
    BY <1>1, <2>1, FS_Subset
  <2>3. Cardinality(below(i)) < Cardinality(below(j))
    BY <2>1, <2>2, StrictSubset
  <2> QED BY <1>2, <2>3
<1>4. rank \in Injection(P, 1..N)
  <2>1. rank \in [P -> 1..N]
    BY <1>2
  <2>2. ASSUME NEW i \in P, NEW j \in P, rank[i] = rank[j] PROVE i = j
    <3>1. i \in Nat /\ j \in Nat /\ rank[i] \in Nat /\ rank[j] \in Nat
      BY <1>2 DEF Within
    <3> HIDE DEF rank
    <3>2. ~(i < j) /\ ~(j < i)
      BY <1>3, <2>2, <3>1
    <3> QED BY <3>1, <3>2
  <2> HIDE DEF rank
  <2> QED BY <2>1, <2>2 DEF Injection, IsInjective
<1>5. IsFiniteSet(1..N) /\ Cardinality(1..N) = N
  BY <1>1, FS_Interval
<1> HIDE DEF rank
<1>6. rank \in Surjection(P, 1..N)
  BY <1>4, <1>5, FS_Injection
<1>7. ASSUME NEW k \in 1..N PROVE \E i \in P : At(s, P)[k] = s[i]
  <2>1. PICK i \in P : rank[i] = k
    BY <1>6 DEF Surjection
  <2>2. Cardinality(below(i)) = k - 1
    BY <1>2, <2>1
  <2> DEFINE nth == CHOOSE x \in P : Cardinality({j \in P : j < x}) = k - 1
  <2>3. nth \in P
    BY <2>2
  <2>4. At(s, P)[k] = s[nth]
    BY DEF At
  <2> HIDE DEF nth
  <2> QED BY <2>3, <2>4
<1>8. IsList(At(s, P))
  BY <1>1, AtIsList
<1>9. DOMAIN At(s, P) = 1..N
  BY DEF At
<1> QED BY <1>7, <1>8, <1>9 DEF Takes

\* Slug's allowlist leaves nothing that a line could take for its own.
LEMMA SlugPlain ==
  ASSUME NEW s \in Text
  PROVE  Plain(Slug(s))
<1> DEFINE a == Replace(s, {FOLDED}, "a")
           folded == Replace(a, {NL, SEMI, QUOTE, ALIEN, GREEK}, "-")
           kept == {i \in 1..Len(s) :
                      folded[i] = "-" => /\ i > 1 /\ folded[i - 1] # "-"
                                         /\ \E j \in i..Len(s) : folded[j] # "-"}
           t == At(folded, kept)
<1>1. IsList(s) /\ Len(s) \in Nat /\ \A i \in 1..Len(s) : s[i] \in Tokens
  BY TextParts
<1>2. IsList(a) /\ Len(a) = Len(s)
  BY <1>1, ReplaceList DEF Replaced
<1> HIDE DEF a
<1>3. /\ IsList(folded) /\ Len(folded) = Len(s)
      /\ \A i \in 1..Len(s) : folded[i] = IF a[i] \in {NL, SEMI, QUOTE, ALIEN, GREEK} THEN "-" ELSE a[i]
  <2>1. Replaced(folded, a, {NL, SEMI, QUOTE, ALIEN, GREEK}, "-")
    BY <1>2, ReplaceList
  <2> HIDE DEF folded
  <2> QED BY <1>2, <2>1 DEF Replaced
<1> HIDE DEF folded
<1>4. \A i \in 1..Len(s) : folded[i] \notin Marks
  <2>1. "-" \notin Marks
    BY DEF Marks, Separating, QUOTE, SEMI, GREEK
  <2> QED BY <1>3, <2>1 DEF Marks, Separating
<1>5. Within(kept, Len(s))
  BY <1>1 DEF Within
<1>6. Slug(s) = Cut(t, TextLimit)
  BY DEF Slug, folded, a
<1> HIDE DEF kept
<1>7. /\ IsList(t) /\ DOMAIN t = 1..Cardinality(kept)
      /\ \A k \in 1..Cardinality(kept) : \E i \in kept : t[k] = folded[i]
  <2>1. Takes(t, folded, kept)
    BY <1>5, AtTakes
  <2> HIDE DEF t
  <2> QED BY <2>1 DEF Takes
<1> HIDE DEF t
<1>8. \A k \in DOMAIN t : t[k] \notin Marks
  BY <1>4, <1>5, <1>7 DEF Within
<1>9. /\ IsList(Cut(t, TextLimit)) /\ Len(Cut(t, TextLimit)) \in Nat
      /\ Len(Cut(t, TextLimit)) <= Len(t)
      /\ DOMAIN Cut(t, TextLimit) = 1..Len(Cut(t, TextLimit))
      /\ \A i \in 1..Len(Cut(t, TextLimit)) : Cut(t, TextLimit)[i] = t[i]
  <2>1. TextLimit \in Nat
    BY BoundAssumption
  <2> QED BY <1>7, <2>1, CutOf
<1>10. Len(t) \in Nat /\ DOMAIN t = 1..Len(t)
  BY <1>7, ListParts
<1>11. \A i \in 1..Len(Cut(t, TextLimit)) : i \in DOMAIN t
  BY <1>9, <1>10
<1> QED BY <1>6, <1>8, <1>9, <1>11 DEF Plain

LEMMA SixReads ==
  ASSUME NEW a, NEW b, NEW c, NEW d, NEW e, NEW f,
         Reads(a, 0, 0, 0), Reads(b, 0, 0, 0), Reads(c, 0, 0, 0), Reads(d, 0, 0, 0),
         Reads(e, 0, 0, 0), Reads(f, 0, 0, 0)
  PROVE  Reads(Join(<<a, b, c, d, e, f>>, SEMI), 0, 0, 5)
<1> DEFINE S == {SEMI} \cup ToSet(a) \cup ToSet(b) \cup ToSet(c) \cup ToSet(d) \cup ToSet(e)
                 \cup ToSet(f)
           parts == <<a, b, c, d, e, f>>
<1>1. /\ a \in Seq(S) /\ b \in Seq(S) /\ c \in Seq(S) /\ d \in Seq(S) /\ e \in Seq(S)
      /\ f \in Seq(S) /\ SEMI \in S
  BY SeqMonotonic DEF Reads, IsList
<1> HIDE DEF S
<1>2. parts \in Seq(Seq(S)) /\ Len(parts) = 5 + 1
  BY <1>1
<1>3. \A i \in 1..(5 + 1) : Reads(parts[i], 0, 0, 0)
  OBVIOUS
<1> HIDE DEF parts
<1>4. PICK n \in Nat : n = 5
  OBVIOUS
<1>5. Reads(Join(parts, SEMI), 0, 0, n)
  BY <1>1, <1>2, <1>3, <1>4, JoinReads
<1> QED BY <1>4, <1>5 DEF parts

\* and of five parts the second and the third may bring separators of their own.
LEMMA FiveReads ==
  ASSUME NEW a, NEW b, NEW c, NEW d, NEW e, NEW m, NEW n,
         Reads(a, 0, 0, 0), Reads(b, 0, 0, m), Reads(c, 0, 0, n), Reads(d, 0, 0, 0),
         Reads(e, 0, 0, 0)
  PROVE  Reads(Join(<<a, b, c, d, e>>, SEMI), 0, 0, 4 + m + n)
<1> DEFINE S == {SEMI} \cup ToSet(a) \cup ToSet(b) \cup ToSet(c) \cup ToSet(d) \cup ToSet(e)
           parts == <<a, b, c, d, e>>
           total == Join(parts, SEMI)
<1>1. /\ a \in Seq(S) /\ b \in Seq(S) /\ c \in Seq(S) /\ d \in Seq(S) /\ e \in Seq(S)
      /\ SEMI \in S /\ m \in Nat /\ n \in Nat
  BY SeqMonotonic DEF Reads, IsList
<1> HIDE DEF S
<1>2. parts \in Seq(Seq(S)) /\ Len(parts) = 4 + 1
  BY <1>1
<1>3. parts[1] = a /\ parts[2] = b /\ parts[3] = c /\ parts[4] = d /\ parts[5] = e
  OBVIOUS
<1> HIDE DEF parts
<1>4. JoinSteps(S, parts, SEMI, 4, total)
  <2>1. PICK k \in Nat : k = 4
    OBVIOUS
  <2>2. JoinSteps(S, parts, SEMI, k, total)
    BY <1>1, <1>2, <2>1, JoinRuns
  <2> QED BY <2>1, <2>2
<1> HIDE DEF total
<1>5. PICK acc \in [0..4 -> Seq(S)] :
        /\ acc[0] = parts[1] /\ total = acc[4]
        /\ \A k \in 0..3 : acc[k + 1] = acc[k] \o <<SEMI>> \o parts[k + 2]
  <2>1. 4 - 1 = 3
    OBVIOUS
  <2> QED BY <1>4, <2>1 DEF JoinSteps
<1>6. /\ acc[1] = (acc[0] \o <<SEMI>>) \o b /\ acc[2] = (acc[1] \o <<SEMI>>) \o c
      /\ acc[3] = (acc[2] \o <<SEMI>>) \o d /\ acc[4] = (acc[3] \o <<SEMI>>) \o e
  <2>1. 0 \in 0..3 /\ 1 \in 0..3 /\ 2 \in 0..3 /\ 3 \in 0..3
    OBVIOUS
  <2>2. /\ 0 + 1 = 1 /\ 1 + 1 = 2 /\ 2 + 1 = 3 /\ 3 + 1 = 4
        /\ 0 + 2 = 2 /\ 1 + 2 = 3 /\ 2 + 2 = 4 /\ 3 + 2 = 5
    OBVIOUS
  <2>3. /\ acc[0 + 1] = (acc[0] \o <<SEMI>>) \o parts[0 + 2]
        /\ acc[1 + 1] = (acc[1] \o <<SEMI>>) \o parts[1 + 2]
        /\ acc[2 + 1] = (acc[2] \o <<SEMI>>) \o parts[2 + 2]
        /\ acc[3 + 1] = (acc[3] \o <<SEMI>>) \o parts[3 + 2]
    BY ONLY <1>5, <2>1
  <2> QED BY ONLY <1>3, <2>2, <2>3
<1>7. ASSUME NEW s, NEW i, NEW t, NEW j, Reads(s, 0, 0, i), Reads(t, 0, 0, j)
      PROVE  Reads((s \o <<SEMI>>) \o t, 0, 0, (i + 1) + j)
  <2>1. Reads(s \o <<SEMI>>, 0, 0, i + 1)
    BY ONLY <1>7, SeparatorReads, ReadsOn
  <2> QED BY ONLY <1>7, <2>1, ReadsOn
<1>8. Reads(acc[0], 0, 0, 0)
  BY <1>3, <1>5
<1>9. Reads(acc[1], 0, 0, (0 + 1) + m)
  BY <1>6, <1>7, <1>8
<1>10. Reads(acc[2], 0, 0, (((0 + 1) + m) + 1) + n)
  BY <1>6, <1>7, <1>9
<1>11. Reads(acc[3], 0, 0, (((((0 + 1) + m) + 1) + n) + 1) + 0)
  BY <1>6, <1>7, <1>10
<1>12. Reads(acc[4], 0, 0, (((((((0 + 1) + m) + 1) + n) + 1) + 0) + 1) + 0)
  BY <1>6, <1>7, <1>11
<1>13. (((((((0 + 1) + m) + 1) + n) + 1) + 0) + 1) + 0 = 4 + m + n
  BY ONLY <1>1
<1> QED BY <1>5, <1>12, <1>13 DEF total, parts

LEMMA OneReads ==
  ASSUME NEW a, a \notin Marks
  PROVE  Reads(<<a>>, 0, 0, 0)
BY OnePlain, PlainReads

\* A posting's line has its columns, whatever number and supplier hold.
LEMMA BookingReads ==
  ASSUME NEW d \in Docs, NEW chart
  PROVE  Columns(BookingOf(d, chart).line, Width - 1)
<1> DEFINE a == Quoted(Row[d].number)
           b == Quoted(Row[d].supplier)
<1>1. Row[d].number \in Text /\ Row[d].supplier \in Text
  BY RowAssumption DEF Document
<1>2. Reads(a, 0, 0, 0) /\ Reads(b, 0, 0, 0)
  BY <1>1, QuotedReads
<1>3. /\ Reads(<<"amount">>, 0, 0, 0) /\ Reads(<<"S">>, 0, 0, 0)
      /\ Reads(<<"account">>, 0, 0, 0) /\ Reads(<<"locked">>, 0, 0, 0)
  <2>1. /\ "amount" \notin Marks /\ "S" \notin Marks
        /\ "account" \notin Marks /\ "locked" \notin Marks
    BY DEF Marks, Separating, QUOTE, SEMI, GREEK
  <2> QED BY <2>1, OneReads
<1>4. BookingOf(d, chart).line
        = EncodeCp1252(Join(<<<<"amount">>, <<"S">>, <<"account">>, a, b, <<"locked">>>>, SEMI))
  BY DEF BookingOf
<1> HIDE DEF a, b
<1>5. Reads(Join(<<<<"amount">>, <<"S">>, <<"account">>, a, b, <<"locked">>>>, SEMI), 0, 0, 5)
  BY <1>2, <1>3, SixReads
<1>6. Columns(BookingOf(d, chart).line, 5)
  BY <1>4, <1>5, EncodedReads
<1>7. Width - 1 = 5
  BY DEF Width
<1> QED BY <1>6, <1>7

\* A line of the manifest names a document of the archive, with or without a file.
RowWritten(row) ==
  /\ row.doc \in Docs /\ Plain(row.name)
  /\ row.note \in {"", "not_in_storage", "read_failed", "hash_mismatch"}

\* Its separators: one less than columns, and what its two texts bring.
ManifestColumns(row) ==
  ManifestWidth - 1 + Splits(Row[row.doc].number) + Splits(Row[row.doc].supplier)

LEMMA ManifestReads ==
  ASSUME NEW row, RowWritten(row)
  PROVE  Columns(ManifestLine(row), ManifestColumns(row))
<1> DEFINE d == row.doc
           a == Field(Row[d].number)
           b == Field(Row[d].supplier)
           c == <<ToString(Row[d].issued)>>
           e == <<row.note>>
           m == Splits(Row[d].number)
           n == Splits(Row[d].supplier)
<1>1. d \in Docs
  BY DEF RowWritten
<1>2. Row[d].number \in Text /\ Row[d].supplier \in Text
  BY <1>1, RowAssumption DEF Document
<1>3. Reads(a, 0, 0, m) /\ Reads(b, 0, 0, n)
  BY <1>2, FieldReads
<1>4. Reads(c, 0, 0, 0)
  <2>1. ToString(Row[d].issued) \notin Marks
    BY <1>1, NumeralAssumption DEF Marks, Separating
  <2> QED BY <2>1, OneReads
<1>5. Reads(e, 0, 0, 0)
  <2>1. row.note \notin Marks
    BY DEF RowWritten, Marks, Separating, QUOTE, SEMI, GREEK
  <2> QED BY <2>1, OneReads
<1>6. Reads(row.name, 0, 0, 0)
  BY PlainReads DEF RowWritten
<1>7. ManifestLine(row) = EncodeCp1252(Join(<<row.name, a, b, c, e>>, SEMI))
  BY DEF ManifestLine
<1> HIDE DEF a, b, c, e
<1>8. Reads(Join(<<row.name, a, b, c, e>>, SEMI), 0, 0, 4 + m + n)
  <2> HIDE DEF m, n
  <2> QED BY <1>3, <1>4, <1>5, <1>6, FiveReads
<1>9. Columns(ManifestLine(row), 4 + m + n)
  BY <1>7, <1>8, EncodedReads
<1>10. ManifestColumns(row) = 4 + m + n
  BY DEF ManifestColumns, ManifestWidth
<1> QED BY <1>9, <1>10

LEMMA StemPlain ==
  ASSUME NEW d \in Docs
  PROVE  Plain(Stem[d])
<1> DEFINE number == Slug(Row[d].number)
           supplier == Slug(Row[d].supplier)
           joined == IF number = <<>> \/ supplier = <<>> THEN <<>> ELSE <<"_">>
           middle == IF number = <<>> /\ supplier = <<>> THEN <<"id", ToString(d)>>
                     ELSE number \o joined \o supplier
           date == <<ToString(Row[d].issued), "_">>
<1>1. Row[d].number \in Text /\ Row[d].supplier \in Text
  BY RowAssumption DEF Document
<1>2. Plain(number) /\ Plain(supplier)
  BY <1>1, SlugPlain
<1>3. "_" \notin Marks /\ "id" \notin Marks
  BY DEF Marks, Separating, QUOTE, SEMI, GREEK
<1>4. ToString(Row[d].issued) \notin Marks /\ ToString(d) \notin Marks
  BY NumeralAssumption DEF Marks, Separating
<1>5. Plain(joined)
  <2>1. Plain(<<>>)
    BY EmptyList DEF Plain
  <2>2. Plain(<<"_">>)
    BY <1>3, OnePlain
  <2> QED BY <2>1, <2>2
<1>6. Stem[d] = date \o middle
  BY DEF Stem
<1> HIDE DEF number, supplier, joined
<1>7. Plain(number \o joined)
  BY <1>2, <1>5, ConcatPlain
<1>8. Plain(number \o joined \o supplier)
  BY <1>2, <1>7, ConcatPlain
<1>9. Plain(<<"id", ToString(d)>>) /\ Plain(date)
  BY <1>3, <1>4, PairPlain
<1>10. Plain(middle)
  BY <1>8, <1>9
<1> HIDE DEF middle, date
<1> QED BY <1>6, <1>9, <1>10, ConcatPlain

LEMMA CandidatePlain ==
  ASSUME NEW d \in Docs, NEW n \in 1..(Cardinality(Docs) + 2)
  PROVE  Plain(Candidate(d, n))
<1>1. "_" \notin Marks /\ ".pdf" \notin Marks /\ ".xml" \notin Marks
  BY DEF Marks, Separating, QUOTE, SEMI, GREEK
<1>2. ToString(n) \notin Marks
  BY NumeralAssumption DEF Marks, Separating
<1>3. Plain(Suffix(n))
  <2>1. Plain(<<>>)
    BY EmptyList DEF Plain
  <2>2. Plain(<<"_", ToString(n)>>)
    BY <1>1, <1>2, PairPlain
  <2> QED BY <2>1, <2>2 DEF Suffix
<1>4. Plain(ExtensionFor(d))
  BY <1>1, OnePlain DEF ExtensionFor
<1>5. Plain(Stem[d] \o Suffix(n))
  BY <1>3, StemPlain, ConcatPlain
<1>6. Plain((Stem[d] \o Suffix(n)) \o ExtensionFor(d))
  BY <1>4, <1>5, ConcatPlain
<1> QED BY <1>6 DEF Candidate

-----------------------------------------------------------------------------
(* What a scanner finds that counts the lines.                             *)

BreaksIn(s) == {j \in DOMAIN s : s[j] = NL}

\* The text has n line breaks, and the token is not in it.
Ahead(s, token, n) ==
  /\ IsList(s) /\ n \in Nat /\ Cardinality(BreaksIn(s)) = n
  /\ \A j \in DOMAIN s : s[j] # token

\* The token is in the text, first after n line breaks.
Stands(s, token, n) ==
  /\ IsList(s) /\ n \in Nat
  /\ \E i \in DOMAIN s : /\ s[i] = token /\ \A j \in 1..(i - 1) : s[j] # token
                         /\ Cardinality({j \in 1..i : s[j] = NL}) = n

LEMMA AheadOn ==
  ASSUME NEW s, NEW t, NEW token, NEW m, NEW n, Ahead(s, token, m), Ahead(t, token, n)
  PROVE  Ahead(s \o t, token, m + n)
<1> DEFINE u == s \o t
           L == Len(s)
           M == Len(t)
           A == BreaksIn(s)
           B == BreaksIn(t)
<1>1. IsList(s) /\ IsList(t) /\ m \in Nat /\ n \in Nat
  BY DEF Ahead
<1>2. /\ IsList(u) /\ DOMAIN u = 1..(L + M)
      /\ (\A i \in 1..L : u[i] = s[i]) /\ (\A i \in 1..M : u[L + i] = t[i])
      /\ L \in Nat /\ M \in Nat /\ DOMAIN s = 1..L /\ DOMAIN t = 1..M
  BY <1>1, ConcatParts, ListParts
<1> HIDE DEF u, L, M
<1>3. \A x \in 1..(L + M) : x \in 1..L \/ \E k \in 1..M : x = L + k
  <2> SUFFICES ASSUME NEW x \in 1..(L + M), x \notin 1..L PROVE \E k \in 1..M : x = L + k
    OBVIOUS
  <2>1. x - L \in 1..M /\ x = L + (x - L)
    BY <1>2
  <2> QED BY <2>1
<1>4. (\A k \in 1..M : L + k \in 1..(L + M)) /\ \A k \in 1..L : k \in 1..(L + M)
  BY <1>2
<1>5. \A j \in DOMAIN u : u[j] # token
  <2> SUFFICES ASSUME NEW x \in 1..(L + M) PROVE u[x] # token
    BY <1>2
  <2>1. CASE x \in 1..L
    BY <1>2, <2>1 DEF Ahead
  <2>2. ASSUME NEW k \in 1..M, x = L + k PROVE u[x] # token
    BY <1>2, <2>2 DEF Ahead
  <2> QED BY <1>3, <2>1, <2>2
<1>6. BreaksIn(u) = A \cup Shift(B, L)
  <2>1. ASSUME NEW x \in BreaksIn(u) PROVE x \in A \cup {L + k : k \in B}
    <3>1. x \in 1..(L + M) /\ u[x] = NL
      BY <1>2 DEF BreaksIn
    <3>2. CASE x \in 1..L
      BY <1>2, <3>1, <3>2 DEF BreaksIn
    <3>3. ASSUME NEW k \in 1..M, x = L + k PROVE x \in {L + j : j \in B}
      <4>1. k \in B
        BY <1>2, <3>1, <3>3 DEF BreaksIn
      <4> QED BY <3>3, <4>1
    <3> QED BY <1>3, <3>1, <3>2, <3>3
  <2>2. ASSUME NEW x \in A PROVE x \in BreaksIn(u)
    BY <1>2, <1>4 DEF BreaksIn
  <2>3. ASSUME NEW k \in B PROVE L + k \in BreaksIn(u)
    BY <1>2, <1>4 DEF BreaksIn
  <2> HIDE DEF A, B
  <2> QED BY <2>1, <2>2, <2>3 DEF Shift
<1>7. Within(A, L) /\ Within(B, M)
  BY <1>2 DEF BreaksIn, Within
<1>8. Cardinality(A) = m /\ Cardinality(B) = n
  BY DEF Ahead
<1> HIDE DEF A, B
<1>9. Cardinality(A \cup Shift(B, L)) = m + n
  <2>1. Cardinality(A \cup Shift(B, L)) = Cardinality(A) + Cardinality(B)
    BY <1>7, ShiftedUnion
  <2> QED BY <1>8, <2>1
<1> QED BY <1>1, <1>2, <1>5, <1>6, <1>9 DEF Ahead, u

\* A token that is met for the first time,
LEMMA StandsHere ==
  ASSUME NEW s, NEW token, token # NL, NEW n, Ahead(s, token, n)
  PROVE  Stands(s \o <<token>>, token, n)
<1> DEFINE t == <<token>>
           u == s \o t
           L == Len(s)
<1>0. IsList(s) /\ IsList(t)
  BY OneIsList DEF Ahead
<1>1. Len(t) = 1 /\ t[1] = token /\ n \in Nat
  BY OneIsList DEF Ahead
<1> HIDE DEF t
<1>2. /\ IsList(u) /\ DOMAIN u = 1..(L + 1)
      /\ (\A i \in 1..L : u[i] = s[i]) /\ u[L + 1] = token
      /\ L \in Nat /\ DOMAIN s = 1..L
  <2>1. /\ IsList(u) /\ DOMAIN u = 1..(Len(s) + Len(t))
        /\ (\A i \in 1..Len(s) : u[i] = s[i]) /\ (\A i \in 1..Len(t) : u[Len(s) + i] = t[i])
    BY <1>0, ConcatParts
  <2>2. L \in Nat /\ DOMAIN s = 1..L
    BY <1>0, ListParts
  <2>3. 1 \in 1..Len(t)
    BY <1>1
  <2> HIDE DEF u
  <2> QED BY <1>1, <2>1, <2>2, <2>3
<1> HIDE DEF u, L
<1>3. L + 1 \in DOMAIN u /\ (L + 1) - 1 = L /\ \A j \in 1..(L + 1) : j \in 1..L \/ j = L + 1
  BY <1>2
<1>4. \A j \in 1..((L + 1) - 1) : u[j] # token
  BY <1>2, <1>3 DEF Ahead
<1>5. {j \in 1..(L + 1) : u[j] = NL} = BreaksIn(s)
  <2>1. ASSUME NEW j \in 1..(L + 1), u[j] = NL PROVE j \in BreaksIn(s)
    BY <1>2, <1>3, <2>1 DEF BreaksIn
  <2>2. ASSUME NEW j \in BreaksIn(s) PROVE j \in 1..(L + 1) /\ u[j] = NL
    BY <1>2 DEF BreaksIn
  <2> QED BY <2>1, <2>2
<1>6. Cardinality({j \in 1..(L + 1) : u[j] = NL}) = n
  BY <1>5 DEF Ahead
<1>7. \E i \in DOMAIN u : /\ u[i] = token /\ \A j \in 1..(i - 1) : u[j] # token
                          /\ Cardinality({j \in 1..i : u[j] = NL}) = n
  BY <1>2, <1>3, <1>4, <1>6
<1> QED BY <1>1, <1>2, <1>7 DEF Stands, t, u

\* whatever follows it.
LEMMA StandsOn ==
  ASSUME NEW s, NEW t, IsList(t), NEW token, NEW n, Stands(s, token, n)
  PROVE  Stands(s \o t, token, n)
<1> DEFINE u == s \o t
           L == Len(s)
<1>1. IsList(s) /\ n \in Nat
  BY DEF Stands
<1>2. /\ IsList(u) /\ DOMAIN u = 1..(L + Len(t)) /\ (\A i \in 1..L : u[i] = s[i])
      /\ L \in Nat /\ Len(t) \in Nat /\ DOMAIN s = 1..L
  BY <1>1, ConcatParts, ListParts
<1> HIDE DEF u, L
<1>3. PICK i \in DOMAIN s : /\ s[i] = token /\ \A j \in 1..(i - 1) : s[j] # token
                            /\ Cardinality({j \in 1..i : s[j] = NL}) = n
  BY DEF Stands
<1>4. i \in DOMAIN u /\ i \in 1..L /\ \A j \in 1..i : j \in 1..L
  BY <1>2
<1>5. \A j \in 1..(i - 1) : j \in 1..L
  BY <1>2
<1>6. u[i] = token /\ \A j \in 1..(i - 1) : u[j] # token
  BY <1>2, <1>3, <1>4, <1>5
<1>7. {j \in 1..i : u[j] = NL} = {j \in 1..i : s[j] = NL}
  BY <1>2, <1>4
<1>8. Cardinality({j \in 1..i : u[j] = NL}) = n
  BY <1>3, <1>7
<1> QED BY <1>1, <1>2, <1>4, <1>6, <1>8 DEF Stands, u

\* The line of a token is that of its first place.
LEMMA LineOfToken ==
  ASSUME NEW s, NEW token, NEW n, Stands(s, token, n)
  PROVE  1 + Cardinality({j \in 1..SelectInSeq(s, LAMBDA x : x = token) : s[j] = NL}) = n + 1
<1> DEFINE I == {i \in 1..Len(s) : s[i] = token}
<1>1. Len(s) \in Nat /\ DOMAIN s = 1..Len(s) /\ n \in Nat
  BY ListParts DEF Stands
<1>2. PICK i \in DOMAIN s : /\ s[i] = token /\ \A j \in 1..(i - 1) : s[j] # token
                            /\ Cardinality({j \in 1..i : s[j] = NL}) = n
  BY DEF Stands
<1>3. i \in I /\ I \in SUBSET Nat /\ i \in Nat
  BY <1>1, <1>2
<1>4. \A j \in I : ~(j < i)
  <2> SUFFICES ASSUME NEW j \in I, j < i PROVE FALSE
    OBVIOUS
  <2>1. j \in 1..(i - 1) /\ s[j] = token
    BY <1>1, <1>3
  <2> QED BY <1>2, <2>1
<1>5. SelectInSeq(s, LAMBDA x : x = token) = IF I # {} THEN Min(I) ELSE 0
  BY DEF SelectInSeq
<1> HIDE DEF I
<1>6. Min(I) \in I /\ \A j \in I : Min(I) <= j
  BY <1>3, Least
<1>7. Min(I) = i
  <2>1. Min(I) <= i /\ ~(Min(I) < i) /\ Min(I) \in Nat
    BY <1>3, <1>4, <1>6
  <2> QED BY <1>3, <2>1
<1>8. SelectInSeq(s, LAMBDA x : x = token) = i
  BY <1>3, <1>5, <1>7
<1>9. Cardinality({j \in 1..SelectInSeq(s, LAMBDA x : x = token) : s[j] = NL}) = n
  BY <1>2, <1>8
<1>10. 1 + n = n + 1
  BY <1>1
<1> QED BY <1>9, <1>10

\* A part that is a token stands on the line of its number, if it is in none before it.
LEMMA JoinStands ==
  ASSUME NEW S, NL \in S, NEW n \in Nat, NEW m \in 1..n, NEW token, token # NL,
         NEW parts \in Seq(Seq(S)), Len(parts) = n + 1,
         \A i \in 1..m : Ahead(parts[i], token, 0), parts[m + 1] = <<token>>
  PROVE  Stands(Join(parts, NL), token, m)
<1>0. m \in Nat /\ m <= n /\ 1 <= m
  OBVIOUS
<1>1. JoinSteps(S, parts, NL, n, Join(parts, NL))
  BY JoinRuns
<1>2. PICK acc \in [0..n -> Seq(S)] :
        /\ acc[0] = parts[1] /\ Join(parts, NL) = acc[n]
        /\ \A k \in 0..(n - 1) : acc[k + 1] = acc[k] \o <<NL>> \o parts[k + 2]
  BY <1>1 DEF JoinSteps
<1>3. Ahead(<<NL>>, token, 1)
  <2> DEFINE s == <<NL>>
  <2>1. IsList(s) /\ s[1] = NL /\ DOMAIN s = 1..1
    BY OneIsList, ListParts
  <2> HIDE DEF s
  <2>2. \A j \in 1..1 : j = 1
    OBVIOUS
  <2>3. BreaksIn(s) = {1} /\ \A j \in DOMAIN s : s[j] # token
    BY <2>1, <2>2 DEF BreaksIn
  <2>4. Cardinality({1}) = 1
    BY FS_Singleton
  <2> QED BY <2>1, <2>3, <2>4 DEF Ahead, s
<1>4. ASSUME NEW k \in Nat, k + 1 <= n, Ahead(acc[k], token, k)
      PROVE  /\ Ahead(acc[k] \o <<NL>>, token, k + 1)
             /\ acc[k + 1] = (acc[k] \o <<NL>>) \o parts[k + 2]
  <2>1. k \in 0..(n - 1)
    BY <1>4
  <2> QED BY <1>2, <1>3, <1>4, <2>1, AheadOn
<1> DEFINE Upto == {k \in Nat : k < m => Ahead(acc[k], token, k)}
<1>5. 0 \in Upto
  <2>1. 1 \in 1..m
    OBVIOUS
  <2> QED BY <1>2, <2>1
<1>6. ASSUME NEW k \in Nat, k \in Upto PROVE k + 1 \in Upto
  <2>0. k + 1 \in Nat
    BY ONLY k \in Nat
  <2> SUFFICES ASSUME k + 1 < m PROVE Ahead(acc[k + 1], token, k + 1)
    BY <2>0, Zenon
  <2>1. k < m /\ k + 1 <= n /\ k + 2 \in 1..m /\ (k + 1) + 0 = k + 1
    BY <1>0
  <2>2. /\ Ahead(acc[k] \o <<NL>>, token, k + 1)
        /\ acc[k + 1] = (acc[k] \o <<NL>>) \o parts[k + 2]
    BY <1>4, <1>6, <2>1
  <2>3. Ahead((acc[k] \o <<NL>>) \o parts[k + 2], token, (k + 1) + 0)
    BY <2>1, <2>2, AheadOn
  <2> QED BY <2>1, <2>2, <2>3
<1>7. \A k \in Nat : k \in Upto
  <2> HIDE DEF Upto
  <2> QED BY <1>5, <1>6, EveryNumber
<1>8. Stands(acc[m], token, m)
  <2>1. PICK k \in Nat : k + 1 = m
    <3>1. m - 1 \in Nat /\ (m - 1) + 1 = m
      OBVIOUS
    <3> QED BY <3>1
  <2>2. k < m /\ k + 1 <= n /\ k + 2 = m + 1
    BY ONLY <1>0, <2>1, n \in Nat
  <2>3. Ahead(acc[k], token, k)
    BY <1>7, <2>2
  <2>4. /\ Ahead(acc[k] \o <<NL>>, token, k + 1)
        /\ acc[k + 1] = (acc[k] \o <<NL>>) \o parts[k + 2]
    BY <1>4, <2>2, <2>3
  <2>5. Stands((acc[k] \o <<NL>>) \o <<token>>, token, k + 1)
    BY <2>4, StandsHere
  <2>6. parts[k + 2] = <<token>>
    BY <2>2
  <2> QED BY <2>1, <2>4, <2>5, <2>6
<1> DEFINE On == {k \in Nat : m + k <= n => Stands(acc[m + k], token, m)}
<1>9. 0 \in On
  <2>1. m + 0 = m
    OBVIOUS
  <2> QED BY <1>8, <2>1
<1>10. ASSUME NEW k \in Nat, k \in On PROVE k + 1 \in On
  <2> SUFFICES ASSUME m + (k + 1) <= n PROVE Stands(acc[m + (k + 1)], token, m)
    OBVIOUS
  <2>1. PICK j \in Nat : j = m + k
    OBVIOUS
  <2>2. j <= n /\ j \in 0..(n - 1) /\ j + 1 = m + (k + 1) /\ j + 2 \in 1..(n + 1)
    BY <2>1
  <2>3. Stands(acc[j], token, m)
    BY <1>10, <2>1, <2>2
  <2>4. acc[j + 1] = (acc[j] \o <<NL>>) \o parts[j + 2]
    BY <1>2, <2>2
  <2>5. IsList(<<NL>>)
    BY OneIsList
  <2>6. IsList(parts[j + 2])
    <3>1. parts[j + 2] \in Seq(S)
      BY <2>2, ElementOfSeq
    <3> QED BY <3>1, SeqIsList
  <2>7. Stands(acc[j] \o <<NL>>, token, m)
    BY <2>3, <2>5, StandsOn
  <2>8. Stands((acc[j] \o <<NL>>) \o parts[j + 2], token, m)
    BY <2>6, <2>7, StandsOn
  <2> QED BY <2>2, <2>4, <2>8
<1>11. PICK k \in Nat : m + k = n
  <2>1. n - m \in Nat /\ m + (n - m) = n
    OBVIOUS
  <2> QED BY <2>1
<1>12. k \in On
  <2> HIDE DEF On
  <2> QED BY <1>9, <1>10, EveryNumber
<1>13. Stands(acc[n], token, m)
  <2>1. m + k <= n
    BY <1>11
  <2>2. Stands(acc[m + k], token, m)
    BY <1>12, <2>1
  <2> QED BY <1>11, <2>2
<1> QED BY <1>2, <1>13

\* Nothing a supplier or a user wrote ends a line of the code,
LEMMA CleanAhead ==
  ASSUME NEW s \in Text, NEW token, token \notin Tokens, token # " "
  PROVE  Ahead(Clean(s), token, 0)
<1> DEFINE t == Replace(s, {NL}, " ")
           u == Cut(t, TextLimit)
<1>1. /\ IsList(s) /\ Len(s) \in Nat /\ \A i \in 1..Len(s) : s[i] \in Tokens
  BY TextParts
<1>2. Replaced(t, s, {NL}, " ")
  BY <1>1, ReplaceList
<1> HIDE DEF t
<1>3. /\ IsList(t) /\ Len(t) = Len(s)
      /\ \A i \in 1..Len(s) : t[i] = IF s[i] \in {NL} THEN " " ELSE s[i]
  BY <1>2 DEF Replaced
<1>4. TextLimit \in Nat
  BY BoundAssumption
<1>5. /\ IsList(u) /\ Len(u) \in Nat /\ Len(u) <= Len(t) /\ DOMAIN u = 1..Len(u)
      /\ \A i \in 1..Len(u) : u[i] = t[i]
  BY <1>3, <1>4, CutOf
<1> HIDE DEF u
<1>6. ASSUME NEW i \in DOMAIN u PROVE u[i] # NL /\ u[i] # token
  <2>1. i \in 1..Len(u) /\ i \in 1..Len(s)
    <3>1. i \in 1..Len(u) /\ Len(u) \in Nat /\ Len(s) \in Nat /\ Len(u) <= Len(s)
      BY <1>1, <1>3, <1>5
    <3> QED BY ONLY <3>1
  <2>2. s[i] \in Tokens /\ t[i] = (IF s[i] \in {NL} THEN " " ELSE s[i]) /\ u[i] = t[i]
    BY <1>1, <1>3, <1>5, <2>1
  <2>3. " " # NL
    BY DEF NL
  <2> QED BY <2>2, <2>3
<1>7. BreaksIn(u) = {}
  BY <1>6 DEF BreaksIn
<1>8. Cardinality(BreaksIn(u)) = 0
  BY <1>7, FS_EmptySet
<1>9. Clean(s) = u
  BY DEF Clean, t, u
<1> QED BY <1>5, <1>6, <1>8, <1>9 DEF Ahead

LEMMA WordAhead ==
  ASSUME NEW a, NEW token, a # token, a # NL
  PROVE  Ahead(<<a>>, token, 0)
<1> DEFINE s == <<a>>
<1>1. IsList(s) /\ s[1] = a /\ DOMAIN s = 1..1
  BY OneIsList, ListParts
<1> HIDE DEF s
<1>2. \A j \in 1..1 : j = 1
  OBVIOUS
<1>3. BreaksIn(s) = {} /\ \A j \in DOMAIN s : s[j] # token
  BY <1>1, <1>2 DEF BreaksIn
<1>4. Cardinality(BreaksIn(s)) = 0
  BY <1>3, FS_EmptySet
<1> QED BY <1>1, <1>3, <1>4 DEF Ahead, s

\* so the account number and the amount stand on lines of their own: the seventh and the eighth.
LEMMA CodeStands ==
  ASSUME NEW d \in Docs
  PROVE  Stands(GiroCode[d], "iban", 6) /\ Stands(GiroCode[d], "amount", 7)
<1> DEFINE a == Clean(Row[d].supplier)
           b == Clean(Row[d].number)
           elements == <<<<"BCD">>, <<"002">>, <<"1">>, <<"SCT">>, <<>>, a,
                         <<"iban">>, <<"amount">>, <<>>, <<>>, b>>
           X == {i \in DOMAIN elements : elements[i] # <<>>}
<1>1. Row[d].number \in Text /\ Row[d].supplier \in Text
  BY RowAssumption DEF Document
<1>2. GiroCode[d] = Join(SubSeq(elements, 1, Max(X)), NL)
  BY DEF GiroCode
<1>3. /\ "iban" \notin Tokens /\ "iban" # " " /\ "amount" \notin Tokens /\ "amount" # " "
      /\ "iban" # NL /\ "amount" # NL
  BY DEF Tokens, Letters, NL, SEMI, QUOTE, FOLDED, ALIEN, GREEK
<1>4. Ahead(a, "iban", 0) /\ Ahead(a, "amount", 0) /\ IsList(b)
  <2>1. Ahead(b, "iban", 0)
    BY <1>1, <1>3, CleanAhead
  <2> QED BY <1>1, <1>3, <2>1, CleanAhead DEF Ahead
<1> HIDE DEF a, b
<1> DEFINE S == {NL, "BCD", "002", "1", "SCT", "iban", "amount"} \cup ToSet(a) \cup ToSet(b)
<1>5. NL \in S /\ a \in Seq(S) /\ b \in Seq(S)
  <2>1. ToSet(a) \subseteq S /\ ToSet(b) \subseteq S
    OBVIOUS
  <2>2. a \in Seq(ToSet(a)) /\ b \in Seq(ToSet(b))
    BY <1>4 DEF Ahead, IsList
  <2>3. NL \in S
    OBVIOUS
  <2> HIDE DEF S
  <2> QED BY <2>1, <2>2, <2>3, SeqMonotonic
<1>6. /\ <<"BCD">> \in Seq(S) /\ <<"002">> \in Seq(S) /\ <<"1">> \in Seq(S)
      /\ <<"SCT">> \in Seq(S) /\ <<>> \in Seq(S) /\ <<"iban">> \in Seq(S)
      /\ <<"amount">> \in Seq(S)
  <2>1. /\ "BCD" \in S /\ "002" \in S /\ "1" \in S /\ "SCT" \in S /\ "iban" \in S
        /\ "amount" \in S
    OBVIOUS
  <2> HIDE DEF S
  <2> QED BY <2>1
<1> HIDE DEF S
<1>7. elements \in Seq(Seq(S)) /\ Len(elements) = 11 /\ DOMAIN elements = 1..11
  BY <1>5, <1>6
<1>8. /\ elements[1] = <<"BCD">> /\ elements[2] = <<"002">> /\ elements[3] = <<"1">>
      /\ elements[4] = <<"SCT">> /\ elements[5] = <<>> /\ elements[6] = a
      /\ elements[7] = <<"iban">> /\ elements[8] = <<"amount">>
  OBVIOUS
<1> HIDE DEF elements
<1>9. Max(X) \in 8..11
  <2>1. X \in SUBSET (1..11) /\ 8 \in X
    <3>1. <<"amount">> # <<>> /\ 8 \in 1..11
      OBVIOUS
    <3> QED BY <1>7, <1>8, <3>1
  <2>2. PICK n \in Nat : n = 11
    OBVIOUS
  <2> HIDE DEF X
  <2>3. Max(X) \in X /\ \A x \in X : x <= Max(X)
    <3>1. X \in SUBSET (1..n) /\ X # {}
      BY <2>1, <2>2
    <3> QED BY <3>1, Largest
  <2>4. Max(X) \in 1..11 /\ 8 <= Max(X)
    BY <2>1, <2>3
  <2> QED BY <2>4
<1> HIDE DEF X
<1>10. PICK n \in Nat : n + 1 = Max(X) /\ n \in 7..10
  <2>1. Max(X) - 1 \in 7..10 /\ (Max(X) - 1) + 1 = Max(X) /\ Max(X) - 1 \in Nat
    BY <1>9
  <2> QED BY <2>1
<1> DEFINE parts == SubSeq(elements, 1, Max(X))
<1>11. /\ parts \in Seq(Seq(S)) /\ Len(parts) = n + 1
       /\ \A i \in 1..8 : parts[i] = elements[i]
  <2>1. parts = [i \in 1..Max(X) |-> elements[i]]
    BY <1>7, <1>9
  <2>2. \A i \in 1..Max(X) : elements[i] \in Seq(S)
    <3>1. \A i \in 1..11 : elements[i] \in Seq(S)
      BY <1>7, ElementOfSeq
    <3>2. \A i \in 1..Max(X) : i \in 1..11
      BY <1>9
    <3> QED BY <3>1, <3>2
  <2>3. Max(X) \in Nat /\ \A i \in 1..8 : i \in 1..Max(X)
    BY <1>9
  <2> HIDE DEF parts
  <2>4. parts \in [1..Max(X) -> Seq(S)]
    BY <2>1, <2>2
  <2>5. parts \in Seq(Seq(S)) /\ Len(parts) = Max(X)
    <3>1. PICK N \in Nat : N = Max(X)
      BY <2>3
    <3>2. parts \in [1..N -> Seq(S)]
      BY <2>4, <3>1
    <3>3. parts \in Seq(Seq(S)) /\ Len(parts) = N
      BY <3>2
    <3> QED BY <3>1, <3>3
  <2> QED BY <1>10, <2>1, <2>3, <2>5
<1> HIDE DEF parts
<1>12. /\ parts[1] = <<"BCD">> /\ parts[2] = <<"002">> /\ parts[3] = <<"1">>
       /\ parts[4] = <<"SCT">> /\ parts[5] = <<>> /\ parts[6] = a
       /\ parts[7] = <<"iban">> /\ parts[8] = <<"amount">>
  <2>1. /\ 1 \in 1..8 /\ 2 \in 1..8 /\ 3 \in 1..8 /\ 4 \in 1..8 /\ 5 \in 1..8 /\ 6 \in 1..8
        /\ 7 \in 1..8 /\ 8 \in 1..8
    OBVIOUS
  <2>2. /\ parts[1] = elements[1] /\ parts[2] = elements[2] /\ parts[3] = elements[3]
        /\ parts[4] = elements[4] /\ parts[5] = elements[5] /\ parts[6] = elements[6]
        /\ parts[7] = elements[7] /\ parts[8] = elements[8]
    BY <1>11, <2>1
  <2> QED BY <1>8, <2>2
<1>13. ASSUME NEW token \in {"iban", "amount"}
       PROVE  \A i \in 1..6 : Ahead(parts[i], token, 0)
  <2>1. Ahead(<<>>, token, 0)
    <3>1. BreaksIn(<<>>) = {}
      BY EmptyList DEF BreaksIn
    <3>2. Cardinality(BreaksIn(<<>>)) = 0
      BY <3>1, FS_EmptySet
    <3> QED BY <3>2, EmptyList DEF Ahead
  <2>2. /\ Ahead(<<"BCD">>, token, 0) /\ Ahead(<<"002">>, token, 0)
        /\ Ahead(<<"1">>, token, 0) /\ Ahead(<<"SCT">>, token, 0)
    <3>1. /\ "BCD" # token /\ "BCD" # NL /\ "002" # token /\ "002" # NL
          /\ "1" # token /\ "1" # NL /\ "SCT" # token /\ "SCT" # NL
      BY DEF NL
    <3> QED BY <3>1, WordAhead
  <2>3. Ahead(a, token, 0)
    BY <1>4
  <2>4. \A i \in 1..6 : i = 1 \/ i = 2 \/ i = 3 \/ i = 4 \/ i = 5 \/ i = 6
    OBVIOUS
  <2> QED BY <1>12, <2>1, <2>2, <2>3, <2>4
<1>14. Stands(Join(parts, NL), "iban", 6)
  <2>1. PICK m \in Nat : m = 6
    OBVIOUS
  <2>2. m \in 1..n /\ parts[m + 1] = <<"iban">> /\ \A i \in 1..m : Ahead(parts[i], "iban", 0)
    BY <1>10, <1>12, <1>13, <2>1
  <2>3. Stands(Join(parts, NL), "iban", m)
    BY <1>3, <1>5, <1>11, <2>2, JoinStands
  <2> QED BY <2>1, <2>3
<1>15. Stands(Join(parts, NL), "amount", 7)
  <2>1. PICK m \in Nat : m = 7
    OBVIOUS
  <2>2. Ahead(parts[7], "amount", 0)
    <3>1. "iban" # "amount" /\ "iban" # NL
      BY DEF NL
    <3>2. Ahead(<<"iban">>, "amount", 0)
      BY <3>1, WordAhead
    <3> QED BY <1>12, <3>2
  <2>3. \A i \in 1..7 : i \in 1..6 \/ i = 7
    OBVIOUS
  <2>4. \A i \in 1..m : Ahead(parts[i], "amount", 0)
    BY <1>13, <2>1, <2>2, <2>3
  <2>5. m \in 1..n /\ parts[m + 1] = <<"amount">>
    BY <1>10, <1>12, <2>1
  <2>6. Stands(Join(parts, NL), "amount", m)
    BY <1>3, <1>5, <1>11, <2>4, <2>5, JoinStands
  <2> QED BY <2>1, <2>6
<1> QED BY <1>2, <1>14, <1>15 DEF parts, elements, X

-----------------------------------------------------------------------------
(* What a request has written so far.                                      *)

Transfers == {Transfer[d] : d \in Docs}

\* Postings whose columns a reader finds, manifest rows that name a document and
\* a free file name, instructions of documents the tenant has, and of none that
\* cannot be paid once the file is delivered.
Written(r, o) ==
  /\ o.kind = "datev" /\ r.code = 200 =>
       \A i \in DOMAIN r.out : Columns(r.out[i].line, Width - 1)
  /\ o.kind = "belege" => IsList(r.rows) /\ \A x \in ToSet(r.rows) : RowWritten(x)
  /\ o.kind = "sepa" => /\ IsList(r.out) /\ ToSet(r.out) \subseteq Transfers
                        /\ r.code = 200 => ~Unbuildable(o.debtor, r.out)
  /\ o.kind = "girocode" /\ r.code = 200 =>
       o.ids[1] \in Docs /\ Encodable[o.ids[1]] /\ r.out = <<Transfer[o.ids[1]]>>

WInv == \A q \in Requests : Written(req[q], job[q])

Writes(q) == \E s : req' = [req EXCEPT ![q] = s] /\ Written(s, job[q])

LEMMA FrameWrites ==
  ASSUME IInv, WInv, NEW q \in Requests, Writes(q), UnchangedWorld
  PROVE  WInv'
<1>1. PICK s : req' = [req EXCEPT ![q] = s] /\ Written(s, job[q])
  BY DEF Writes
<1>2. req = [p \in Requests |-> req[p]]
  BY DEF IInv, World
<1>3. \A p \in Requests : req'[p] = IF p = q THEN s ELSE req[p]
  BY ONLY <1>1, <1>2, q \in Requests
<1>4. ASSUME NEW p \in Requests
      PROVE  Written(req'[p], job'[p])
  <2>1. job'[p] = job[p]
    BY DEF UnchangedWorld
  <2>2. CASE p = q
    BY <1>1, <1>3, <2>1, <2>2
  <2>3. CASE p # q
    <3>1. req'[p] = req[p]
      BY <1>3, <2>3
    <3> QED BY <2>1, <3>1 DEF WInv
  <2> QED BY <2>2, <2>3
<1> QED BY <1>4 DEF WInv

LEMMA AnswerWrites ==
  ASSUME IInv, WInv, NEW q \in Requests, NEW code, Answer(q, code),
         code = 200 => job[q].kind = "sepa" /\ ~Unbuildable(job[q].debtor, req[q].out)
  PROVE  Writes(q)
<1> DEFINE r == req[q]
<1>1. Fields(r) /\ req = [p \in Requests |-> req[p]]
  BY DEF IInv, World, Keeps
<1>2. req' = [req EXCEPT ![q].at = "done", ![q].code = code]
  BY DEF Answer
<1>3. PICK s : s = [r EXCEPT !.at = "done", !.code = code]
  OBVIOUS
<1>4. req' = [req EXCEPT ![q] = s]
  BY <1>1, <1>2, <1>3
<1>5. s.code = code /\ s.out = r.out /\ s.rows = r.rows
  BY ONLY <1>1, <1>3 DEF Fields
<1>6. Written(r, job[q])
  BY DEF WInv
<1>7. Written(s, job[q])
  BY <1>5, <1>6 DEF Written
<1> QED BY <1>4, <1>7 DEF Writes

LEMMA DatevWrites ==
  ASSUME IInv, WInv, NEW q \in Requests, DatevExport(q)
  PROVE  Writes(q)
<1> DEFINE o == job[q]
           S == {d \in documents : InPeriod(d, o)}
           postings == {d \in S : Postable(d)}
           chart == ChartFor(o.chart)
           left == S \ postings
<1>1. CASE Answer(q, 400) \/ Answer(q, 422)
  BY <1>1, AnswerWrites
<1>2. ASSUME NEW rows \in InSomeOrder(postings),
             req' = [req EXCEPT ![q] =
                [@ EXCEPT !.at = "done", !.code = 200, !.seen = documents,
                   !.out = [i \in 1..Len(rows) |-> BookingOf(rows[i], chart)],
                   !.skipped = left]]
      PROVE  Writes(q)
  <2> DEFINE out == [i \in 1..Len(rows) |-> BookingOf(rows[i], chart)]
  <2>1. Fields(req[q]) /\ World
    BY DEF IInv, Keeps
  <2>2. postings \in SUBSET Docs
    BY <2>1 DEF World
  <2>3. rows \in Seq(Docs)
    <3> HIDE DEF postings
    <3> QED BY <1>2, <2>2, SomeOrderIsEnumeration
  <2> HIDE DEF left, postings, chart
  <2>4. ASSUME NEW i \in DOMAIN out PROVE Columns(out[i].line, Width - 1)
    <3>1. rows[i] \in Docs /\ out[i] = BookingOf(rows[i], chart)
      BY <2>3, LenProperties, ElementOfSeq
    <3>2. Columns(BookingOf(rows[i], chart).line, Width - 1)
      BY <3>1, BookingReads
    <3> QED BY <3>1, <3>2
  <2>5. req' = [req EXCEPT ![q] = [@ EXCEPT !.at = "done", !.code = 200, !.seen = documents,
                                             !.out = out, !.skipped = left]]
    BY <1>2
  <2> HIDE DEF out
  <2>6. PICK s : s = [req[q] EXCEPT !.at = "done", !.code = 200, !.seen = documents,
                                    !.out = out, !.skipped = left]
    OBVIOUS
  <2>7. req' = [req EXCEPT ![q] = s]
    BY <2>5, <2>6
  <2>8. s.out = out
    BY ONLY <2>1, <2>6 DEF Fields
  <2>9. o.kind = "datev"
    BY DEF DatevExport, Step
  <2>10. Written(s, o)
    BY <2>4, <2>8, <2>9 DEF Written
  <2> QED BY <2>7, <2>10 DEF Writes
<1> QED BY <1>1, <1>2 DEF DatevExport, ListDocumentsForExport

LEMMA ListWrites ==
  ASSUME IInv, WInv, NEW q \in Requests, BundleList(q)
  PROVE  Writes(q)
<1> DEFINE listing == ListBelegeForBundle(job[q])
<1>1. CASE Answer(q, 400) \/ Answer(q, 404)
  BY <1>1, AnswerWrites
<1>2. CASE req' = [req EXCEPT ![q] =
                        [@ EXCEPT !.at = "reading", !.seen = documents, !.todo = listing]]
  <2>1. Fields(req[q]) /\ job[q].kind = "belege" /\ Written(req[q], job[q])
    BY DEF IInv, WInv, Keeps, BundleList, Step
  <2> HIDE DEF listing
  <2>2. PICK s : s = [req[q] EXCEPT !.at = "reading", !.seen = documents, !.todo = listing]
    OBVIOUS
  <2>3. req' = [req EXCEPT ![q] = s]
    BY <1>2, <2>2
  <2>4. s.rows = req[q].rows
    BY ONLY <2>1, <2>2 DEF Fields
  <2>5. Written(s, job[q])
    BY ONLY <2>1, <2>4 DEF Written
  <2> QED BY <2>3, <2>5 DEF Writes
<1> QED BY <1>1, <1>2 DEF BundleList

LEMMA ReadWrites ==
  ASSUME IInv, WInv, NEW q \in Requests, BundleRead(q)
  PROVE  Writes(q)
<1> DEFINE d == Head(req[q].todo)
           reason == SkipReason(object[d])
           name == EntryName(d, Taken(q))
           row == [doc |-> d, note |-> reason, name |-> IF reason = "" THEN name ELSE <<>>]
           entry == [doc |-> d, name |-> name]
           out == IF reason = "" THEN Append(req[q].out, entry) ELSE req[q].out
<1>1. /\ Keeps(req[q], job[q]) /\ req[q].at = "reading" /\ job[q].kind = "belege"
      /\ req[q].todo # <<>> /\ Written(req[q], job[q])
  BY DEF IInv, WInv, BundleRead, Step
<1>2. req' = [req EXCEPT ![q] =
           [req[q] EXCEPT !.todo = Tail(req[q].todo), !.rows = Append(req[q].rows, row),
                          !.out = out]]
  BY DEF BundleRead
<1>3. Fields(req[q]) /\ Bundling(req[q], job[q])
  BY ONLY <1>1 DEF Keeps
<1>4. req[q].todo \in Seq(Docs) /\ IsList(req[q].rows) /\ IsList(req[q].out)
  BY ONLY <1>3 DEF Bundling
<1>5. d \in Docs
  BY <1>1, <1>4, TakeOne
<1>6. Len(req[q].out) <= Cardinality(Docs)
  BY <1>3, HandedAreFew
<1>7. Plain(name)
  <2>1. PICK n \in 1..(Cardinality(Docs) + 2) : name = Candidate(d, n)
    BY <1>4, <1>5, <1>6, NameIsFree
  <2> HIDE DEF d, name
  <2>2. Plain(Candidate(d, n))
    BY <1>5, CandidatePlain
  <2> QED BY <2>1, <2>2
<1>8. Plain(<<>>)
  BY EmptyList DEF Plain
<1>9. reason \in {"", "not_in_storage", "read_failed", "hash_mismatch"}
  BY DEF SkipReason
<1> HIDE DEF d, reason, name
<1>10. RowWritten(row)
  BY <1>5, <1>7, <1>8, <1>9 DEF RowWritten
<1> HIDE DEF row, out
<1>11. PICK s : s = [req[q] EXCEPT !.todo = Tail(req[q].todo), !.rows = Append(req[q].rows, row),
                                   !.out = out]
  OBVIOUS
<1>12. req' = [req EXCEPT ![q] = s]
  BY ONLY <1>2, <1>11
<1>13. s.rows = Append(req[q].rows, row)
  BY ONLY <1>3, <1>11 DEF Fields
<1>14. IsList(s.rows) /\ ToSet(s.rows) = ToSet(req[q].rows) \cup {row}
  BY <1>4, <1>13, AppendList
<1>15. Written(s, job[q])
  BY ONLY <1>1, <1>10, <1>14 DEF Written
<1> QED BY ONLY <1>12, <1>15 DEF Writes

LEMMA PackWrites ==
  ASSUME IInv, WInv, NEW q \in Requests, BundlePack(q)
  PROVE  Writes(q)
<1> DEFINE out == Packed(q)
<1>1. CASE Answer(q, 500)
  BY <1>1, AnswerWrites
<1>2. CASE req' = [req EXCEPT ![q] = [@ EXCEPT !.at = "done", !.code = 200, !.out = out]]
  <2>1. Fields(req[q]) /\ job[q].kind = "belege" /\ Written(req[q], job[q])
    BY DEF IInv, WInv, Keeps, BundlePack, Step
  <2> HIDE DEF out
  <2>2. PICK s : s = [req[q] EXCEPT !.at = "done", !.code = 200, !.out = out]
    OBVIOUS
  <2>3. req' = [req EXCEPT ![q] = s]
    BY ONLY <1>2, <2>2
  <2>4. s.rows = req[q].rows
    BY ONLY <2>1, <2>2 DEF Fields
  <2>5. Written(s, job[q])
    BY ONLY <2>1, <2>4 DEF Written
  <2> QED BY ONLY <2>3, <2>5 DEF Writes
<1> QED BY <1>1, <1>2 DEF BundlePack

LEMMA SepaStartWrites ==
  ASSUME IInv, WInv, NEW q \in Requests, SepaStart(q)
  PROVE  Writes(q)
<1>1. CASE Answer(q, 400)
  BY <1>1, AnswerWrites
<1>2. CASE req' = [req EXCEPT ![q].at = "paying", ![q].todo = job[q].ids]
  <2>1. /\ Fields(req[q]) /\ job[q].kind = "sepa" /\ Written(req[q], job[q])
        /\ req = [p \in Requests |-> req[p]]
    BY DEF IInv, WInv, World, Keeps, SepaStart, Step
  <2>2. PICK s : s = [req[q] EXCEPT !.at = "paying", !.todo = job[q].ids]
    OBVIOUS
  <2>3. req' = [req EXCEPT ![q] = s]
    BY ONLY <1>2, <2>1, <2>2
  <2>4. s.out = req[q].out /\ s.code = req[q].code
    BY ONLY <2>1, <2>2 DEF Fields
  <2>5. Written(s, job[q])
    BY ONLY <2>1, <2>4 DEF Written
  <2> QED BY ONLY <2>3, <2>5 DEF Writes
<1> QED BY <1>1, <1>2 DEF SepaStart

LEMMA SepaTakeWrites ==
  ASSUME IInv, WInv, NEW q \in Requests, SepaTake(q)
  PROVE  Writes(q)
<1> DEFINE d == Head(req[q].todo)
<1>1. /\ Keeps(req[q], job[q]) /\ req[q].at = "paying" /\ job[q].kind = "sepa"
      /\ Written(req[q], job[q]) /\ documents \subseteq Docs
  BY DEF IInv, WInv, World, SepaTake, Step
<1>2. Fields(req[q]) /\ req[q].code = 0
  BY ONLY <1>1 DEF Keeps
<1>3. PICK todo, out, skipped :
        /\ req' = [req EXCEPT ![q] = [req[q] EXCEPT !.todo = todo, !.out = out,
                                                    !.skipped = skipped]]
        /\ out = req[q].out \/ (d \in documents /\ out = Append(req[q].out, Transfer[d]))
  BY DEF SepaTake
<1>4. IsList(req[q].out) /\ ToSet(req[q].out) \subseteq Transfers
  BY ONLY <1>1 DEF Written
<1>5. IsList(out) /\ ToSet(out) \subseteq Transfers
  <2>1. CASE out = req[q].out
    BY <1>4, <2>1
  <2>2. CASE d \in documents /\ out = Append(req[q].out, Transfer[d])
    <3>1. Transfer[d] \in Transfers
      BY <1>1, <2>2 DEF Transfers
    <3>2. IsList(out) /\ ToSet(out) = ToSet(req[q].out) \cup {Transfer[d]}
      BY <1>4, <2>2, AppendList
    <3> QED BY <1>4, <3>1, <3>2
  <2> QED BY <1>3, <2>1, <2>2
<1>6. PICK s : s = [req[q] EXCEPT !.todo = todo, !.out = out, !.skipped = skipped]
  OBVIOUS
<1>7. req' = [req EXCEPT ![q] = s]
  BY ONLY <1>3, <1>6
<1>8. s.out = out /\ s.code = 0
  BY ONLY <1>2, <1>6 DEF Fields
<1>9. Written(s, job[q])
  BY ONLY <1>1, <1>5, <1>8 DEF Written
<1> QED BY ONLY <1>7, <1>9 DEF Writes

LEMMA SepaBuildWrites ==
  ASSUME IInv, WInv, NEW q \in Requests, SepaBuild(q)
  PROVE  Writes(q)
<1>1. job[q].kind = "sepa"
  BY DEF SepaBuild, Step
<1>2. \E code : Answer(q, code) /\ (code = 200 => ~Unbuildable(job[q].debtor, req[q].out))
  <2> DEFINE code == CASE req[q].out = <<>> -> 409
                       [] req[q].out # <<>> /\ Unbuildable(job[q].debtor, req[q].out) -> 422
                       [] OTHER -> 200
  <2>1. Answer(q, code)
    BY DEF SepaBuild
  <2>2. code = 200 => ~Unbuildable(job[q].debtor, req[q].out)
    <3>1. CASE req[q].out = <<>>
      BY <3>1
    <3>2. CASE req[q].out # <<>> /\ Unbuildable(job[q].debtor, req[q].out)
      BY <3>2
    <3>3. CASE ~Unbuildable(job[q].debtor, req[q].out)
      BY <3>3
    <3> QED BY <3>1, <3>2, <3>3
  <2> HIDE DEF code
  <2> QED BY <2>1, <2>2
<1> QED BY <1>1, <1>2, AnswerWrites

LEMMA GiroCodeWrites ==
  ASSUME IInv, WInv, NEW q \in Requests, GiroCodeExport(q)
  PROVE  Writes(q)
<1> DEFINE d == job[q].ids[1]
           out == <<Transfer[d]>>
<1>1. CASE Answer(q, 404) \/ Answer(q, 409) \/ Answer(q, 422)
  BY <1>1, AnswerWrites
<1>2. CASE /\ req' = [req EXCEPT ![q] = [req[q] EXCEPT !.at = "done", !.code = 200, !.out = out]]
           /\ d \in documents /\ Encodable[d]
  <2>1. Fields(req[q]) /\ documents \subseteq Docs
    BY DEF IInv, World, Keeps
  <2>2. job[q].kind = "girocode"
    BY DEF GiroCodeExport, Step
  <2>3. PICK s : s = [req[q] EXCEPT !.at = "done", !.code = 200, !.out = out]
    OBVIOUS
  <2>4. req' = [req EXCEPT ![q] = s]
    BY ONLY <1>2, <2>3
  <2>5. s.out = out
    BY ONLY <2>1, <2>3 DEF Fields
  <2>6. Written(s, job[q])
    BY <1>2, <2>1, <2>2, <2>5 DEF Written
  <2> QED BY ONLY <2>4, <2>6 DEF Writes
<1> QED BY <1>1, <1>2 DEF GiroCodeExport

LEMMA NextWrites ==
  ASSUME IInv, WInv, [Next]_vars
  PROVE  WInv'
<1>1. ASSUME NEW q \in Requests, Export(q)
      PROVE  WInv'
  <2>1. Writes(q)
    BY <1>1, DatevWrites, ListWrites, ReadWrites, PackWrites, SepaStartWrites, SepaTakeWrites,
       SepaBuildWrites, GiroCodeWrites DEF Export
  <2> QED BY <1>1, <2>1, ExportPreserves, FrameWrites
<1>2. CASE UNCHANGED <<req, job>>
  BY <1>2 DEF WInv
<1> QED BY <1>1, <1>2 DEF Next, Insert, ObjectFails, ObjectReturns, Finished, vars

LEMMA WrittenInvariant == Spec => [](IInv /\ WInv)
<1>1. Init => WInv
  <2> SUFFICES ASSUME Init, NEW q \in Requests PROVE Written(req[q], job[q])
    BY DEF WInv
  <2>1. req[q] = Fresh
    BY DEF Init
  <2>2. Fresh.rows = <<>> /\ Fresh.out = <<>> /\ Fresh.code = 0
    BY DEF Fresh
  <2>3. IsList(<<>>) /\ ToSet(<<>>) = {}
    BY EmptyList DEF ToSet
  <2> QED BY <2>1, <2>2, <2>3 DEF Written
<1> QED BY <1>1, InitEstablishes, NextPreserves, NextWrites, PTL DEF Spec

LEMMA SeparatorsSeen ==
  ASSUME NEW s, NEW n, Columns(s, n)
  PROVE  Cardinality(Separators(s)) = n
<1>0. IsList(s) /\ Cardinality(Seen(s, 0)) = n /\ \A i \in DOMAIN s : s[i] # GREEK
  BY DEF Columns, Reads
<1>1. ASSUME NEW i \in DOMAIN s
      PROVE  0 + Cardinality(QuotesTo(s, i)) = Cardinality(QuotesTo(s, i))
  <2>1. i \in Nat
    BY <1>0, ListParts
  <2>2. IsFiniteSet(1..i) /\ QuotesTo(s, i) \in SUBSET (1..i)
    BY <2>1, FS_Interval DEF QuotesTo
  <2>3. IsFiniteSet(QuotesTo(s, i))
    BY <2>2, FS_Subset
  <2>4. Cardinality(QuotesTo(s, i)) \in Nat
    BY <2>3, FS_CardinalityType
  <2> QED BY <2>4
<1>2. ASSUME NEW i \in DOMAIN s PROVE i \in Separators(s) <=> i \in Seen(s, 0)
  <2>1. QuotesTo(s, i) = {j \in 1..i : s[j] = QUOTE}
    BY DEF QuotesTo
  <2>2. i \in Separators(s) <=> s[i] = SEMI /\ Cardinality(QuotesTo(s, i)) % 2 = 0
    BY <2>1 DEF Separators
  <2>3. i \in Seen(s, 0) <=> s[i] \in Separating /\ (0 + Cardinality(QuotesTo(s, i))) % 2 = 0
    BY DEF Seen
  <2>4. s[i] \in Separating <=> s[i] = SEMI
    BY <1>0 DEF Separating
  <2> QED BY ONLY <1>1, <2>2, <2>3, <2>4, i \in DOMAIN s
<1>3. Separators(s) = Seen(s, 0)
  BY <1>2 DEF Separators, Seen
<1> QED BY <1>0, <1>3

LEMMA AccountIsReal ==
  ASSUME NEW d \in Docs, IsValidIban(Row[d].iban)
  PROVE  Whole(Row[d].iban) % 97 = 1
<1>1. Row[d].iban \in Seq(0..35)
  BY RowAssumption DEF Document
<1>2. Len(Row[d].iban) >= 4
  <2>1. Len(Row[d].iban) \in MinIban..MaxIban /\ Len(Row[d].iban) \in Nat
    BY <1>1 DEF IsValidIban
  <2>2. MinIban >= 4 /\ MinIban \in Nat /\ MaxIban \in Nat
    BY BoundAssumption
  <2> QED BY <2>1, <2>2
<1>3. IbanChecksum(Row[d].iban) = Whole(Row[d].iban) % 97
  BY <1>1, <1>2, ChecksumIsWhole
<1> QED BY <1>3 DEF IsValidIban

LEMMA TransferParts ==
  ASSUME NEW d \in Docs
  PROVE  /\ Transfer[d].doc = d /\ Transfer[d].valid = IsValidIban(Row[d].iban)
         /\ Transfer[d].amount = RoundCents(Row[d].payable) /\ Transfer[d].amount \in Int
<1>1. Row[d].payable \in Int
  BY RowAssumption DEF Document
<1>2. RoundCents(Row[d].payable) \in Int
  BY <1>1 DEF RoundCents
<1> QED BY <1>2 DEF Transfer

-----------------------------------------------------------------------------
(* The theorems.                                                           *)

\* A Buchungsstapel books or names each document of its period, and a bundle has
\* a line for each and the files of those without a note: whatever is inserted
\* between the listing and the last object, and whichever objects fail
\* (datev.ts, belege.ts, bundle.ts).
THEOREM NothingMissing == Spec => []NothingGoesMissing
<1>1. IInv => NothingGoesMissing
  <2> SUFFICES ASSUME IInv, NEW q \in Requests
               PROVE  /\ Delivered(q, "datev") =>
                           DocsOf(req[q].out) \cup req[q].skipped
                             = {d \in req[q].seen : InPeriod(d, job[q])}
                      /\ Delivered(q, "belege") =>
                           /\ DocsOf(req[q].rows) = {d \in req[q].seen : InPeriod(d, job[q])}
                           /\ Len(req[q].rows)
                                = Cardinality({d \in req[q].seen : InPeriod(d, job[q])})
                           /\ DocsOf(Tail(req[q].out))
                                = {r.doc : r \in {x \in ToSet(req[q].rows) : x.note = ""}}
    BY DEF NothingGoesMissing
  <2>1. Keeps(req[q], job[q])
    BY DEF IInv
  <2>2. Delivered(q, "datev") => Stapel(req[q], job[q])
    BY <2>1 DEF Keeps, Delivered
  <2>3. Delivered(q, "belege") => Bundle(req[q], job[q])
    BY <2>1 DEF Keeps, Delivered
  <2> QED BY <2>2, <2>3 DEF Stapel, Bundle, Expected, Handed
<1> QED BY <1>1, Invariant, PTL

\* No two files of a bundle have one name, however many documents share day,
\* number and supplier, and whatever a supplier is called (names.ts).
THEOREM NamesUnique == Spec => []EntriesHaveTheirOwnNames
<1>1. IInv => EntriesHaveTheirOwnNames
  <2> SUFFICES ASSUME IInv, NEW q \in Requests, Delivered(q, "belege")
               PROVE  NamesDiffer(req[q].out)
    BY DEF EntriesHaveTheirOwnNames, NamesDiffer
  <2>1. Keeps(req[q], job[q])
    BY DEF IInv
  <2> QED BY <2>1 DEF Keeps, Delivered, Bundle
<1> QED BY <1>1, Invariant, PTL

\* A bundle that leaves the handler has no more entries than the count of its
\* directory holds, the manifest included (zip.ts).
THEOREM EntriesCounted == Spec => []EntryCountFits
<1>1. IInv => EntryCountFits
  BY DEF IInv, Keeps, Bundle, EntryCountFits, Delivered
<1> QED BY <1>1, Invariant, PTL

\* What a document is found as when its turn comes decides whether it goes in:
\* never bytes that are lost, out of reach or other than the archived ones
\* (bundle.ts).
THEOREM OriginalsOnly == Spec => OnlyOriginalsAreHandedOver
<1>1. IInv /\ [Next]_vars =>
        [\A q \in Requests :
           job[q].kind = "belege" =>
             \A d \in DocsOf(req'[q].out) \ DocsOf(req[q].out) : d = 0 \/ object[d] = "same"]_vars
  <2> SUFFICES ASSUME IInv, Next, NEW q \in Requests, job[q].kind = "belege",
                      NEW d \in DocsOf(req'[q].out), d \notin DocsOf(req[q].out)
               PROVE  d = 0 \/ object[d] = "same"
    BY DEF vars
  <2>1. req'[q].out # req[q].out
    OBVIOUS
  <2>2. req = [p \in Requests |-> req[p]] /\ Keeps(req[q], job[q])
    BY DEF IInv, World
  <2>3. Fields(req[q])
    BY ONLY <2>2 DEF Keeps
  <2>4. PICK p \in Requests : Export(p)
    BY <2>1 DEF Next, Insert, ObjectFails, ObjectReturns, Finished, vars
  <2>5. p = q
    <3>1. Moves(p)
      BY <2>4, ExportPreserves
    <3>2. PICK s : req' = [req EXCEPT ![p] = s]
      BY <3>1 DEF Moves
    <3> QED BY <3>2, <2>1
  <2>6. BundleList(q) \/ BundleRead(q) \/ BundlePack(q)
    BY <2>4, <2>5 DEF Export, DatevExport, SepaStart, SepaTake, SepaBuild, GiroCodeExport, Step
  <2>7. ASSUME NEW code, Answer(q, code)
        PROVE  req'[q].out = req[q].out
    BY <2>2, <2>3, <2>7, AnswerIsSilent
  <2>8. CASE BundleList(q)
    <3>1. CASE req' = [req EXCEPT ![q] = [req[q] EXCEPT !.at = "reading", !.seen = documents,
                                            !.todo = ListBelegeForBundle(job[q])]]
      <4>1. PICK s : s = [req[q] EXCEPT !.at = "reading", !.seen = documents,
                                        !.todo = ListBelegeForBundle(job[q])]
        OBVIOUS
      <4>2. s.out = req[q].out
        BY ONLY <2>3, <4>1 DEF Fields
      <4>3. req'[q] = s
        BY ONLY <2>2, <3>1, <4>1, q \in Requests
      <4> QED BY <2>1, <4>2, <4>3
    <3> QED BY <2>1, <2>7, <2>8, <3>1 DEF BundleList
  <2>9. CASE BundleRead(q)
    BY <2>2, <2>9, ReadHandsOver
  <2>10. CASE BundlePack(q)
    BY <2>1, <2>2, <2>7, <2>10, PackHandsOver
  <2> QED BY <2>6, <2>8, <2>9, <2>10
<1> QED BY <1>1, Invariant, PTL DEF Spec, OnlyOriginalsAreHandedOver

\* What is handed over is read by another program as what it was written for,
\* whatever suppliers and users wrote: the columns of a posting stay where they are
\* (extf.ts) and so do those of a manifest line, but for one too many for each
\* U+037E of a field that was left unquoted (manifest.ts, cp1252.ts), account number and amount are
\* the seventh and the eighth line of a code (girocode.ts), the account numbers in
\* a file are real ones (iban.ts, sepa.ts), and the entries can be counted (zip.ts).
THEOREM ReadByOthers == Spec => []ReadAsWritten
<1>1. IInv /\ WInv => LinesKeepTheirColumns
  <2> SUFFICES ASSUME IInv, WInv, NEW q \in Requests
               PROVE  /\ Delivered(q, "datev") =>
                           \A i \in DOMAIN req[q].out :
                             Cardinality(Separators(req[q].out[i].line)) = Width - 1
                      /\ Delivered(q, "belege") =>
                           \A i \in DOMAIN req[q].rows :
                             Cardinality(Separators(ManifestLine(req[q].rows[i])))
                               = ManifestColumns(req[q].rows[i])
    BY DEF LinesKeepTheirColumns, ManifestColumns
  <2>1. Written(req[q], job[q])
    BY DEF WInv
  <2>2. ASSUME NEW line, NEW n, Columns(line, n)
        PROVE  Cardinality(Separators(line)) = n
    BY <2>2, SeparatorsSeen
  <2>3. ASSUME Delivered(q, "datev"), NEW i \in DOMAIN req[q].out
        PROVE  Cardinality(Separators(req[q].out[i].line)) = Width - 1
    <3>1. Columns(req[q].out[i].line, Width - 1)
      BY <2>1, <2>3 DEF Written, Delivered
    <3> QED BY <2>2, <3>1
  <2>4. ASSUME Delivered(q, "belege"), NEW i \in DOMAIN req[q].rows
        PROVE  Cardinality(Separators(ManifestLine(req[q].rows[i])))
                 = ManifestColumns(req[q].rows[i])
    <3>1. req[q].rows[i] \in ToSet(req[q].rows)
      BY DEF ToSet
    <3>2. RowWritten(req[q].rows[i])
      BY <2>1, <2>4, <3>1 DEF Written, Delivered
    <3>3. Columns(ManifestLine(req[q].rows[i]), ManifestColumns(req[q].rows[i]))
      BY <3>2, ManifestReads
    <3> QED BY <2>2, <3>3
  <2> QED BY <2>3, <2>4
<1>2. WInv => ScannedAsMeant
  <2> SUFFICES ASSUME WInv, NEW q \in Requests, Delivered(q, "girocode"),
                      NEW code, code = GiroCode[job[q].ids[1]]
               PROVE  /\ 1 + Cardinality({j \in 1..SelectInSeq(code, LAMBDA x : x = "iban") :
                                            code[j] = NL}) = 7
                      /\ 1 + Cardinality({j \in 1..SelectInSeq(code, LAMBDA x : x = "amount") :
                                            code[j] = NL}) = 8
    BY DEF ScannedAsMeant
  <2>1. job[q].ids[1] \in Docs
    BY DEF WInv, Written, Delivered
  <2>2. Stands(code, "iban", 6) /\ Stands(code, "amount", 7)
    BY <2>1, CodeStands
  <2>3. 1 + Cardinality({j \in 1..SelectInSeq(code, LAMBDA x : x = "iban") : code[j] = NL}) = 6 + 1
    BY <2>2, LineOfToken
  <2>4. 1 + Cardinality({j \in 1..SelectInSeq(code, LAMBDA x : x = "amount") : code[j] = NL}) = 7 + 1
    BY <2>2, LineOfToken
  <2>5. 6 + 1 = 7 /\ 7 + 1 = 8
    OBVIOUS
  <2> QED BY <2>3, <2>4, <2>5
<1>3. WInv => PaysOnlyToRealAccounts
  <2> SUFFICES ASSUME WInv, NEW q \in Requests,
                      Delivered(q, "sepa") \/ Delivered(q, "girocode"),
                      NEW t \in ToSet(req[q].out)
               PROVE  Whole(Row[t.doc].iban) % 97 = 1 /\ t.amount > 0
    BY DEF PaysOnlyToRealAccounts
  <2>1. Written(req[q], job[q])
    BY DEF WInv
  <2>2. CASE Delivered(q, "sepa")
    <3>1. ToSet(req[q].out) \subseteq Transfers /\ ~Unbuildable(job[q].debtor, req[q].out)
      BY <2>1, <2>2 DEF Written, Delivered
    <3>2. PICK d \in Docs : t = Transfer[d]
      BY <3>1 DEF Transfers
    <3>3. ~(~t.valid \/ t.amount <= 0)
      BY <3>1 DEF Unbuildable
    <3>4. IsValidIban(Row[d].iban) /\ t.doc = d /\ t.amount > 0
      BY <3>2, <3>3, TransferParts
    <3> QED BY <3>4, AccountIsReal
  <2>3. CASE Delivered(q, "girocode")
    <3> DEFINE d == job[q].ids[1]
    <3>1. d \in Docs /\ Encodable[d] /\ req[q].out = <<Transfer[d]>>
      BY <2>1, <2>3 DEF Written, Delivered
    <3> HIDE DEF d
    <3>2. t = Transfer[d]
      <4>1. \A i \in DOMAIN req[q].out : req[q].out[i] = Transfer[d]
        BY <3>1
      <4> QED BY <4>1 DEF ToSet
    <3>3. IsValidIban(Row[d].iban) /\ RoundCents(Row[d].payable) > 0
      <4>1. RoundCents(Row[d].payable) \in 1..MaxAmount /\ IsValidIban(Row[d].iban)
        BY <3>1 DEF Encodable
      <4>2. MaxAmount \in Nat
        BY BoundAssumption
      <4> QED BY <4>1, <4>2
    <3>4. t.doc = d /\ t.amount > 0
      BY <3>1, <3>2, <3>3, TransferParts
    <3> QED BY <3>1, <3>3, <3>4, AccountIsReal
  <2> QED BY <2>2, <2>3
<1>4. IInv => EntryCountFits
  BY DEF IInv, Keeps, Bundle, EntryCountFits, Delivered
<1> QED BY <1>1, <1>2, <1>3, <1>4, WrittenInvariant, PTL DEF ReadAsWritten
=============================================================================
