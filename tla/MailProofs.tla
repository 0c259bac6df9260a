------------------------------ MODULE MailProofs ------------------------------
(***************************************************************************)
(* What holds of Mail for every set of messages, requests and digests.     *)
(***************************************************************************)
EXTENDS Mail, FiniteSetTheorems, SequenceTheorems, WellFoundedInduction, TLAPS

-----------------------------------------------------------------------------
(* The invariant.                                                          *)

Steps == {"idle", "verify", "load", "loaded", "check", "store", "write", "writing",
          "sidecar", "put if none", "head", "put", "recorded"}
Putting == {"write", "writing", "sidecar", "put if none", "head", "put"}
Storing == Putting \cup {"store"}
Checked == Storing \cup {"recorded"}
Read == Checked \cup {"load", "loaded", "check"}

Fields(r) == r = [at |-> r.at, message |-> r.message, token |-> r.token, set |-> r.set,
                  read |-> r.read, outcome |-> r.outcome, done |-> r.done]

IsRequest(r) ==
  /\ Fields(r)
  /\ r.at \in Steps /\ r.done \in Nat /\ r.token \in Nat
  /\ r.at # "idle" => r.message \in Messages

Memory(p) ==
  p = [seen |-> p.seen, sets |-> p.sets, tokens |-> p.tokens,
       accepted |-> p.accepted, conditionalWrites |-> p.conditionalWrites]

IsProcess(p) ==
  /\ Memory(p)
  /\ p.seen \in Requests \cup {None}
  /\ p.sets = [q \in Requests |-> p.sets[q]]
  /\ p.conditionalWrites \in BOOLEAN

Shapes ==
  /\ \A m \in Messages : IsMessage(mail[m])
  /\ backend \in {"files", "s3", "s3 plain"}
  /\ now \in Nat /\ failures \in Nat
  /\ signed \in [Messages -> Seq(Nat)]
  /\ req = [q \in Requests |-> req[q]]
  /\ \A q \in Requests : IsRequest(req[q])
  /\ IsProcess(proc)

\* A message on record has a line, with the id it is recorded under.
IsOnRecord(m, id) ==
  \E i \in DOMAIN records :
     records[i].lines > 0 /\ records[i].message = m /\ records[i].id = id

\* The ids of all lines, those too that have become illegible since.
IdsWritten == {records[i].id : i \in {j \in DOMAIN records : records[j].lines > 0}}

\* A file that has its bytes.
IsWhole(d) == objects[d] # <<>> /\ \A i \in DOMAIN objects[d] : objects[d][i].whole

Listed(m) == IngestMessage(mail[m]).documents

\* What a request relies on between two steps: its outcome is what its message
\* is read as, the ids it has read or looks in are on record, what it has
\* stored is there, and it answers after it has recorded.
Knows(q) ==
  /\ req[q].at \in Read => req[q].outcome = IngestMessage(MailOf(q))
  /\ req[q].read \subseteq IdsWritten
  /\ req[q].at \in Checked \cup {"check"} => req[q].set \in Requests
  /\ req[q].at \in Storing =>
       /\ req[q].done <= Len(Listed(req[q].message))
       /\ \A j \in 1..req[q].done : objects[Listed(req[q].message)[j].sha256] # <<>>
  /\ req[q].at \in Putting => req[q].done < Len(Listed(req[q].message))
  /\ HalfWritten(q) => Exists(q)
  /\ req[q].at = "sidecar" => IsWhole(Digest(q))
  /\ req[q].at = "recorded" => IsOnRecord(req[q].message, ProviderMessageId(q))
  /\ req[q].at \in {"verify", "load", "loaded", "check"} => req[q].done = 0

\* Each store takes its own steps.
StoreSteps(q) ==
  /\ req[q].at \in {"write", "writing", "sidecar"} => backend = "files"
  /\ req[q].at = "put if none" => backend \in {"s3", "s3 plain"}
  /\ req[q].at \in {"head", "put"} => backend = "s3 plain"

ProcessKnows ==
  /\ \A p \in Requests : proc.sets[p] \subseteq IdsWritten
  /\ ~ proc.conditionalWrites => backend = "s3 plain"

\* Whole and under retention, or a file that is half written or was left so.
IsKept(d) ==
  \/ \E i \in DOMAIN objects[d] : objects[d][i].whole /\ objects[d][i].retained
  \/ /\ backend = "files"
     /\ d \in broken \/ \E q \in Requests : HalfWritten(q) /\ Digest(q) = d

Versions == [whole : BOOLEAN, retained : BOOLEAN]

ObjectsKnown ==
  /\ objects = [d \in Digests |-> objects[d]]
  /\ \A d \in Digests :
       /\ objects[d] \in Seq(Versions)
       /\ backend # "s3 plain" => Len(objects[d]) <= 1
       /\ objects[d] # <<>> => IsKept(d)

IsRecord(l) ==
  /\ l.message \in Messages
  /\ \/ l.id = mail[l.message].id
     \/ l.id \in {l.message} \X Nat /\ mail[l.message].id = None
  /\ l.inboxSlug = IngestMessage(mail[l.message]).inboxSlug
  /\ l.warnings = IngestMessage(mail[l.message]).warnings
  /\ l.lines \in Nat
  /\ l.cut = "nowhere" => DOMAIN Listed(l.message) \subseteq 1..l.lines
  /\ l.documents = [i \in (1..l.lines) \cap DOMAIN Listed(l.message) |->
                      [sha256 |-> Listed(l.message)[i].sha256,
                       detection |-> Listed(l.message)[i].detection,
                       status |-> l.documents[i].status]]
  /\ \A i \in (1..l.lines) \cap DOMAIN Listed(l.message) : l.documents[i].status =
            IF /\ Listed(l.message)[i].detection.error = None
               /\ Listed(l.message)[i].detection.profile.legalClass = "einvoice"
            THEN "pending" ELSE "not_einvoice"
  /\ \A i \in DOMAIN Listed(l.message) : objects[Listed(l.message)[i].sha256] # <<>>

RecordsKnown ==
  /\ records \in Seq(ToSet(records))
  /\ \A i \in DOMAIN records : IsRecord(records[i])

AckedKnown ==
  /\ acked \subseteq Messages
  /\ \A m \in acked : \E i \in DOMAIN records :
       /\ records[i].lines > 0
       /\ \/ records[i].message = m
          \/ records[i].id # None /\ records[i].id = mail[m].id

IInv ==
  /\ Shapes
  /\ \A q \in Requests : Knows(q) /\ StoreSteps(q)
  /\ ProcessKnows /\ ObjectsKnown /\ RecordsKnown /\ AckedKnown

-----------------------------------------------------------------------------
(* Tokens.                                                                 *)

\* A signature that was accepted is remembered, or too old to be accepted.
TokenKnown(t) ==
  LET signedAt == signed[t[1]][t[2]]
  IN  /\ proc.accepted[t] \in {0, 1}
      /\ proc.accepted[t] = 1 =>
           /\ t[2] \in DOMAIN signed[t[1]]
           /\ \/ now > signedAt + Tolerance
              \/ \E e \in proc.tokens : e.token = t /\ signedAt <= e.at + Tolerance

TokensKnown ==
  /\ \A q \in Requests : req[q].at = "verify" /\ MailOf(q).provider = "mailgun" =>
        req[q].token \in DOMAIN signed[req[q].message]
  /\ \A e \in proc.tokens : e.at \in Nat
  /\ proc.accepted = [t \in Messages \X (1..MaxDeliveries) |-> proc.accepted[t]]
  /\ \A t \in Messages \X (1..MaxDeliveries) : TokenKnown(t)

-----------------------------------------------------------------------------
(* Sets of indices.                                                        *)

\* How many indices there are up to one of them.
Rank(indices, i) == Cardinality({j \in indices : j <= i})

LEMMA RanksDiffer ==
  ASSUME NEW indices \in SUBSET Nat, IsFiniteSet(indices),
         NEW i \in indices, NEW k \in indices, Rank(indices, i) = Rank(indices, k)
  PROVE  i = k
<1> DEFINE upTo(x) == {j \in indices : j <= x}
<1>1. ASSUME NEW a \in indices, NEW b \in indices, a < b
      PROVE  Rank(indices, a) # Rank(indices, b)
  <2>a. a \in Nat /\ b \in Nat /\ \A j \in indices : j \in Nat
    OBVIOUS
  <2>1. upTo(a) \in SUBSET upTo(b) /\ b \in upTo(b) /\ b \notin upTo(a)
    <3>1. \A j \in indices : j <= a => j <= b
      BY <1>1, <2>a
    <3>2. ~(b <= a) /\ b <= b
      BY <1>1, <2>a
    <3>3. QED
      BY <3>1, <3>2
  <2>2. upTo(a) # upTo(b)
    BY <2>1
  <2>3. IsFiniteSet(upTo(b))
    BY FS_Subset
  <2>4. Cardinality(upTo(a)) # Cardinality(upTo(b))
    BY <2>1, <2>2, <2>3, FS_Subset
  <2>5. QED
    BY <2>4 DEF Rank
<1>2. i \in Nat /\ k \in Nat
  OBVIOUS
<1>3. QED
  BY <1>1, <1>2

\* The ranks of n indices are the numbers from 1 to n.
LEMMA RanksAreNumbers ==
  ASSUME NEW indices \in SUBSET Nat, IsFiniteSet(indices)
  PROVE  /\ Cardinality(indices) \in Nat
         /\ \A i \in indices : Rank(indices, i) \in 1..Cardinality(indices)
         /\ \A k \in 1..Cardinality(indices) : \E i \in indices : Rank(indices, i) = k
<1> DEFINE n == Cardinality(indices)
           upTo(i) == {j \in indices : j <= i}
           f == [i \in indices |-> Rank(indices, i)]
<1>1. n \in Nat
  BY FS_CardinalityType
<1>2. ASSUME NEW i \in indices
      PROVE  /\ IsFiniteSet(upTo(i)) /\ Rank(indices, i) \in Nat
             /\ Rank(indices, i) \in 1..n
  <2>1. upTo(i) \in SUBSET indices /\ upTo(i) # {}
    BY i <= i
  <2>2. IsFiniteSet(upTo(i)) /\ Cardinality(upTo(i)) <= n
    BY <2>1, FS_Subset
  <2>3. Cardinality(upTo(i)) \in Nat /\ Cardinality(upTo(i)) # 0
    BY <2>1, <2>2, FS_CardinalityType, FS_EmptySet
  <2>4. QED
    BY <1>1, <2>2, <2>3 DEF Rank
<1>4. f \in Injection(indices, 1..n)
  <2>1. f \in [indices -> 1..n]
    BY <1>2
  <2>2. \A i, k \in indices : f[i] = f[k] => i = k
    BY RanksDiffer
  <2>3. QED
    BY <2>1, <2>2 DEF Injection, IsInjective
<1>5. IsFiniteSet(1..n) /\ Cardinality(1..n) = n
  BY <1>1, FS_Interval
<1>6. f \in Surjection(indices, 1..n)
  BY <1>4, <1>5, FS_Injection
<1>7. \A k \in 1..n : \E i \in indices : f[i] = k
  BY <1>6 DEF Surjection
<1>8. QED
  BY <1>1, <1>2, <1>7

\* What is picked: the elements at the indices, each at one place.
LEMMA PickedAre ==
  ASSUME NEW seq, NEW indices \in SUBSET Nat, IsFiniteSet(indices)
  PROVE  /\ Cardinality(indices) \in Nat
         /\ DOMAIN Picked(seq, indices) = 1..Cardinality(indices)
         /\ \A k \in DOMAIN Picked(seq, indices) :
               \E i \in indices : Picked(seq, indices)[k] = seq[i]
         /\ \A i \in indices : \E k \in DOMAIN Picked(seq, indices) :
               Picked(seq, indices)[k] = seq[i]
<1> DEFINE n == Cardinality(indices)
           at(k) == CHOOSE i \in indices : Rank(indices, i) = k
<1>1. Picked(seq, indices) = [k \in 1..n |-> seq[at(k)]] /\ n \in Nat
  BY RanksAreNumbers DEF Picked, Rank
<1>2. ASSUME NEW k \in 1..n
      PROVE  at(k) \in indices /\ Rank(indices, at(k)) = k
  BY RanksAreNumbers
<1>3. ASSUME NEW i \in indices
      PROVE  \E k \in 1..n : at(k) = i
  <2>1. Rank(indices, i) \in 1..n
    BY RanksAreNumbers
  <2>2. at(Rank(indices, i)) \in indices
        /\ Rank(indices, at(Rank(indices, i))) = Rank(indices, i)
    BY <1>2, <2>1
  <2>3. QED
    BY <2>1, <2>2, RanksDiffer
<1> HIDE DEF at
<1>4. QED
  BY <1>1, <1>2, <1>3

\* A set of indices has a least one.
LEMMA Least ==
  ASSUME NEW indices \in SUBSET Nat, indices # {}
  PROVE  Min(indices) \in indices /\ \A j \in indices : Min(indices) <= j
<1>1. PICK i \in indices : \A j \in indices : ~ (<<j, i>> \in OpToRel(<, Nat))
  BY WFMin, NatLessThanWellFounded
<1>2. \A j \in indices : ~ (j < i)
  BY <1>1 DEF OpToRel
<1>3. \A j \in indices : i <= j
  <2>1. i \in Nat /\ \A j \in indices : j \in Nat
    OBVIOUS
  <2>2. QED
    BY ONLY <1>2, <2>1
<1>4. QED
  BY <1>3 DEF Min

\* A list has its elements at the indices up to its length.
LEMMA ListParts ==
  ASSUME NEW s, IsList(s)
  PROVE  /\ Len(s) \in Nat /\ DOMAIN s = 1..Len(s)
         /\ DOMAIN s \in SUBSET Nat /\ IsFiniteSet(DOMAIN s)
         /\ \A i \in DOMAIN s : s[i] \in ToSet(s)
<1>1. Len(s) \in Nat /\ DOMAIN s = 1..Len(s)
  BY LenProperties DEF IsList
<1>2. DOMAIN s \in SUBSET Nat
  BY <1>1
<1>3. IsFiniteSet(DOMAIN s)
  BY <1>1, FS_Interval
<1>4. QED
  BY <1>1, <1>2, <1>3 DEF ToSet

LEMMA AppendParts ==
  ASSUME NEW S, NEW s \in Seq(S), NEW e \in S
  PROVE  /\ Append(s, e) \in Seq(S) /\ Append(s, e) # <<>>
         /\ Len(Append(s, e)) = Len(s) + 1
         /\ \A i \in DOMAIN s : i \in DOMAIN Append(s, e) /\ Append(s, e)[i] = s[i]
         /\ Len(s) + 1 \in DOMAIN Append(s, e) /\ Append(s, e)[Len(s) + 1] = e
         /\ \A i \in DOMAIN Append(s, e) : i \in DOMAIN s \/ i = Len(s) + 1
OBVIOUS

LEMMA NumberedIsSeq ==
  ASSUME NEW S, NEW n \in Nat, NEW f \in [1..n -> S]
  PROVE  f \in Seq(S) /\ Len(f) = n
<1>1. f \in Seq(S)
  BY SeqDef
<1>2. Len(f) \in Nat /\ DOMAIN f = 1..Len(f) /\ DOMAIN f = 1..n
  BY <1>1, LenProperties
<1>3. QED
  BY <1>1, <1>2

LEMMA NumberedIsList ==
  ASSUME NEW s, NEW n \in Nat, s = [i \in 1..n |-> s[i]]
  PROVE  IsList(s) /\ Len(s) = n
<1>1. s \in [1..n -> ToSet(s)]
  BY DEF ToSet
<1>2. s \in Seq(ToSet(s))
  BY <1>1, SeqDef
<1>3. Len(s) \in Nat /\ DOMAIN s = 1..Len(s) /\ DOMAIN s = 1..n
  BY <1>1, <1>2, LenProperties
<1>4. QED
  BY <1>2, <1>3 DEF IsList

-----------------------------------------------------------------------------
(* What a message is read as.                                              *)

\* The files that are kept are those that could be an invoice or its copy.
LEMMA KeptOnceAre ==
  ASSUME NEW attachments, IsList(attachments)
  PROVE  /\ \E n \in Nat : DOMAIN KeptOnce(attachments) = 1..n
         /\ \A k \in DOMAIN KeptOnce(attachments) :
               /\ KeptOnce(attachments)[k] \in ToSet(attachments)
               /\ Kept(KeptOnce(attachments)[k])
         /\ \A a \in ToSet(attachments) : Kept(a) =>
               \E k \in DOMAIN KeptOnce(attachments) : KeptOnce(attachments)[k] = a
<1> DEFINE firsts == {i \in DOMAIN attachments :
                        /\ Kept(attachments[i])
                        /\ \A j \in 1..(i - 1) : attachments[j] # attachments[i]}
<1>1. firsts \in SUBSET Nat /\ IsFiniteSet(firsts)
  BY ListParts, FS_Subset
<1>2. KeptOnce(attachments) = Picked(attachments, firsts)
  BY DEF KeptOnce
<1>3. ASSUME NEW a \in ToSet(attachments), Kept(a)
      PROVE  \E i \in firsts : attachments[i] = a
  <2> DEFINE those == {i \in DOMAIN attachments : attachments[i] = a}
  <2>1. those \in SUBSET Nat /\ those # {}
    BY ListParts DEF ToSet
  <2>2. Min(those) \in those /\ \A j \in those : Min(those) <= j
    BY <2>1, Least
  <2>3. ASSUME NEW j \in 1..(Min(those) - 1)
        PROVE  attachments[j] # attachments[Min(those)]
    <3>1. j \in DOMAIN attachments /\ ~(Min(those) <= j)
      BY <2>1, <2>2, ListParts
    <3>2. QED
      BY <2>2, <3>1
  <2>4. QED
    BY <1>3, <2>2, <2>3
<1> HIDE DEF firsts
<1>4. \A i \in firsts : Kept(attachments[i]) /\ attachments[i] \in ToSet(attachments)
  BY DEF firsts, ToSet
<1> DEFINE kept == KeptOnce(attachments)
<1>5. kept = Picked(attachments, firsts)
  BY <1>2
<1> HIDE DEF kept
<1>6. Cardinality(firsts) \in Nat /\ DOMAIN kept = 1..Cardinality(firsts)
  BY <1>1, <1>5, PickedAre
<1>7. \A k \in DOMAIN kept : \E i \in firsts : kept[k] = attachments[i]
  BY <1>1, <1>5, PickedAre
<1>8. \A i \in firsts : \E k \in DOMAIN kept : kept[k] = attachments[i]
  BY <1>1, <1>5, PickedAre
<1>9. \A k \in DOMAIN kept : kept[k] \in ToSet(attachments) /\ Kept(kept[k])
  BY <1>4, <1>7
<1>10. \A a \in ToSet(attachments) : Kept(a) => \E k \in DOMAIN kept : kept[k] = a
  BY <1>3, <1>8
<1>11. QED
  BY <1>6, <1>9, <1>10 DEF kept

\* Each has its document.
LEMMA DocumentsAre ==
  ASSUME NEW m, IsMessage(m)
  PROVE  LET documents == IngestMessage(m).documents
         IN  /\ IsList(documents)
             /\ \A i \in DOMAIN documents : \E a \in ToSet(m.attachments) :
                   Kept(a) /\ documents[i] = BuildDocument(a)
             /\ \A a \in ToSet(m.attachments) : Kept(a) =>
                   \E i \in DOMAIN documents : documents[i] = BuildDocument(a)
<1> DEFINE kept == KeptOnce(m.attachments)
           documents == [i \in DOMAIN kept |-> BuildDocument(kept[i])]
<1>1. IngestMessage(m).documents = documents
  BY DEF IngestMessage
<1>2. IsList(m.attachments)
  BY DEF IsMessage
<1>3. PICK n \in Nat : DOMAIN kept = 1..n
  BY <1>2, KeptOnceAre
<1>4. IsList(documents)
  <2>1. documents = [i \in 1..n |-> documents[i]]
    BY <1>3
  <2> HIDE DEF documents
  <2>2. QED
    BY <2>1, NumberedIsList
<1>5. \A i \in DOMAIN documents : \E a \in ToSet(m.attachments) :
         Kept(a) /\ documents[i] = BuildDocument(a)
  BY <1>2, KeptOnceAre
<1>6. \A a \in ToSet(m.attachments) : Kept(a) =>
         \E i \in DOMAIN documents : documents[i] = BuildDocument(a)
  BY <1>2, KeptOnceAre
<1>7. QED
  BY <1>1, <1>4, <1>5, <1>6

-----------------------------------------------------------------------------
(* Every request is in a shape the code leaves it in.                      *)

\* A request moves, and no other does.
RowIs(q, at, set, read, outcome, done) ==
  /\ req' = [p \in Requests |-> req'[p]]
  /\ \A p \in Requests : p # q => req'[p] = req[p]
  /\ Fields(req'[q]) /\ req'[q].at = at /\ req'[q].set = set /\ req'[q].read = read
  /\ req'[q].outcome = outcome /\ req'[q].done = done
  /\ req'[q].message = req[q].message /\ req'[q].token = req[q].token

Over(q) ==
  /\ req' = [p \in Requests |-> req'[p]]
  /\ \A p \in Requests : p # q => req'[p] = req[p]
  /\ req'[q] = Idle

LEMMA Becomes ==
  ASSUME req = [q \in Requests |-> req[q]], NEW q \in Requests, NEW s,
         req' = [req EXCEPT ![q] = s]
  PROVE  /\ req' = [p \in Requests |-> req'[p]]
         /\ \A p \in Requests : p # q => req'[p] = req[p]
         /\ req'[q] = s
OBVIOUS

LEMMA RowParts == ASSUME Shapes, NEW q \in Requests PROVE Fields(req[q])
BY DEF Shapes, IsRequest

LEMMA GoesRow ==
  ASSUME Shapes, NEW q \in Requests, NEW at, Goes(q, at)
  PROVE  RowIs(q, at, req[q].set, req[q].read, req[q].outcome, req[q].done)
<1>a. Fields(req[q])
  BY RowParts
<1> DEFINE s == [req[q] EXCEPT !.at = at]
<1>1. s = [req[q] EXCEPT !.at = at]
  OBVIOUS
<1>2. req' = [req EXCEPT ![q] = s]
  BY DEF Goes
<1> HIDE DEF s
<1>3. /\ Fields(s) /\ s.at = at /\ s.set = req[q].set /\ s.read = req[q].read
      /\ s.outcome = req[q].outcome /\ s.done = req[q].done
      /\ s.message = req[q].message /\ s.token = req[q].token
  BY ONLY <1>1, <1>a DEF Fields
<1>4. QED
  BY <1>2, <1>3, Becomes DEF RowIs, Shapes

LEMMA AnsweredRow ==
  ASSUME Shapes, NEW q \in Requests, Answered(q)
  PROVE  Over(q)
<1> DEFINE s == Idle
<1>1. req' = [req EXCEPT ![q] = s]
  BY DEF Answered
<1> HIDE DEF s
<1>2. /\ req' = [p \in Requests |-> req'[p]]
      /\ \A p \in Requests : p # q => req'[p] = req[p]
      /\ req'[q] = s
  BY <1>1, Becomes DEF Shapes
<1>3. QED
  BY <1>2 DEF Over, s

LEMMA NextDocumentRow ==
  ASSUME Shapes, NEW q \in Requests, NextDocument(q)
  PROVE  RowIs(q, "store", req[q].set, req[q].read, req[q].outcome, req[q].done + 1)
<1>a. Fields(req[q])
  BY RowParts
<1> DEFINE s == [req[q] EXCEPT !.at = "store", !.done = req[q].done + 1]
<1>1. s = [req[q] EXCEPT !.at = "store", !.done = req[q].done + 1]
  OBVIOUS
<1>2. req' = [req EXCEPT ![q] = s]
  BY DEF NextDocument
<1> HIDE DEF s
<1>3. /\ Fields(s) /\ s.at = "store" /\ s.set = req[q].set /\ s.read = req[q].read
      /\ s.outcome = req[q].outcome /\ s.done = req[q].done + 1
      /\ s.message = req[q].message /\ s.token = req[q].token
  BY ONLY <1>1, <1>a DEF Fields
<1>4. QED
  BY <1>2, <1>3, Becomes DEF RowIs, Shapes

LEMMA ReadRow ==
  ASSUME Shapes, NEW q \in Requests, ReadRecords(q)
  PROVE  RowIs(q, "loaded", req[q].set, IdsOnRecord, req[q].outcome, req[q].done)
<1>a. Fields(req[q])
  BY RowParts
<1> DEFINE s == [req[q] EXCEPT !.at = "loaded", !.read = IdsOnRecord]
<1>1. s = [req[q] EXCEPT !.at = "loaded", !.read = IdsOnRecord]
  OBVIOUS
<1>2. req' = [req EXCEPT ![q] = s]
  BY DEF ReadRecords
<1> HIDE DEF s
<1>3. /\ Fields(s) /\ s.at = "loaded" /\ s.set = req[q].set /\ s.read = IdsOnRecord
      /\ s.outcome = req[q].outcome /\ s.done = req[q].done
      /\ s.message = req[q].message /\ s.token = req[q].token
  BY ONLY <1>1, <1>a DEF Fields
<1>4. QED
  BY <1>2, <1>3, Becomes DEF RowIs, Shapes

LEMMA LoadRow ==
  ASSUME Shapes, NEW q \in Requests, LoadSeen(q)
  PROVE  RowIs(q, "check", q, {}, req[q].outcome, req[q].done)
<1>a. Fields(req[q])
  BY RowParts
<1> DEFINE s == [req[q] EXCEPT !.at = "check", !.set = q, !.read = {}]
<1>1. s = [req[q] EXCEPT !.at = "check", !.set = q, !.read = {}]
  OBVIOUS
<1>2. req' = [req EXCEPT ![q] = s]
  BY DEF LoadSeen
<1> HIDE DEF s
<1>3. /\ Fields(s) /\ s.at = "check" /\ s.set = q /\ s.read = {}
      /\ s.outcome = req[q].outcome /\ s.done = req[q].done
      /\ s.message = req[q].message /\ s.token = req[q].token
  BY ONLY <1>1, <1>a DEF Fields
<1>4. QED
  BY <1>2, <1>3, Becomes DEF RowIs, Shapes

\* A call that is genuine goes on with what its message is read as.
VerifiedRow(q) ==
  /\ MailOf(q).readable /\ Verified(q)
  /\ RowIs(q, IF proc.seen = None THEN "load" ELSE "check", proc.seen, req[q].read,
           IngestMessage(MailOf(q)), req[q].done)

LEMMA VerifyRow ==
  ASSUME Shapes, NEW q \in Requests, Verify(q)
  PROVE  Over(q) \/ VerifiedRow(q)
<1>a. Fields(req[q])
  BY RowParts
<1> DEFINE at == IF proc.seen = None THEN "load" ELSE "check"
           out == IngestMessage(MailOf(q))
<1> HIDE DEF at, out
<1> DEFINE s == [req[q] EXCEPT !.at = at, !.set = proc.seen, !.outcome = out]
<1>0. \/ Answered(q)
      \/ /\ MailOf(q).readable /\ Verified(q)
         /\ req' = [req EXCEPT ![q] = s]
  BY DEF Verify, at, out
<1>1. CASE Answered(q)
  BY <1>1, AnsweredRow
<1>2. CASE /\ MailOf(q).readable /\ Verified(q)
           /\ req' = [req EXCEPT ![q] = s]
  <2>1. s = [req[q] EXCEPT !.at = at, !.set = proc.seen, !.outcome = out]
    OBVIOUS
  <2>2. req' = [req EXCEPT ![q] = s]
    BY <1>2
  <2> HIDE DEF s
  <2>3. /\ Fields(s) /\ s.at = at /\ s.set = proc.seen /\ s.read = req[q].read
        /\ s.outcome = out /\ s.done = req[q].done
        /\ s.message = req[q].message /\ s.token = req[q].token
    BY ONLY <2>1, <1>a DEF Fields
  <2>4. RowIs(q, at, proc.seen, req[q].read, out, req[q].done)
    BY <2>2, <2>3, Becomes DEF RowIs, Shapes
  <2>5. QED
    BY <1>2, <2>4 DEF VerifiedRow, at, out
<1>3. QED
  BY <1>0, <1>1, <1>2

\* A delivery begins a request for its message and its last signature.
LEMMA DeliverRow ==
  ASSUME Shapes, NEW q \in Requests, NEW m \in Messages, Deliver(q, m)
  PROVE  /\ req' = [p \in Requests |-> req'[p]]
         /\ \A p \in Requests : p # q => req'[p] = req[p]
         /\ Fields(req'[q]) /\ req'[q].at = "verify" /\ req'[q].read = {}
         /\ req'[q].done = 0
         /\ req'[q].message = m /\ req'[q].token = Len(signed'[m])
<1> DEFINE s == [Idle EXCEPT !.at = "verify", !.message = m, !.token = Len(signed'[m])]
<1>1. s = [Idle EXCEPT !.at = "verify", !.message = m, !.token = Len(signed'[m])]
  OBVIOUS
<1>2. req' = [req EXCEPT ![q] = s]
  BY DEF Deliver
<1> HIDE DEF s
<1>3. /\ Fields(s) /\ s.at = "verify" /\ s.read = {} /\ s.done = 0
      /\ s.message = m /\ s.token = Len(signed'[m])
  BY <1>1 DEF Fields, Idle
<1>4. QED
  BY <1>2, <1>3, Becomes DEF Shapes

LEMMA SignedStep ==
  ASSUME Shapes, NEW q \in Requests, NEW m \in Messages, Deliver(q, m)
  PROVE  /\ signed' \in [Messages -> Seq(Nat)]
         /\ \A n \in Messages : \A k \in DOMAIN signed[n] :
               k \in DOMAIN signed'[n] /\ signed'[n][k] = signed[n][k]
<1>1. CASE UNCHANGED signed
  BY <1>1 DEF Shapes
<1>2. ASSUME NEW ahead \in {0, 1}, signed' = [signed EXCEPT ![m] = Append(@, now + ahead)]
      PROVE  /\ signed' \in [Messages -> Seq(Nat)]
             /\ \A n \in Messages : \A k \in DOMAIN signed[n] :
                   k \in DOMAIN signed'[n] /\ signed'[n][k] = signed[n][k]
  <2>a. now \in Nat /\ signed \in [Messages -> Seq(Nat)]
    BY DEF Shapes
  <2>1. now + ahead \in Nat
    BY ONLY <2>a, ahead \in {0, 1}
  <2>2. signed[m] \in Seq(Nat) /\ Append(signed[m], now + ahead) \in Seq(Nat)
    BY ONLY <2>a, <2>1, m \in Messages
  <2>3. \A k \in DOMAIN signed[m] : /\ k \in DOMAIN Append(signed[m], now + ahead)
                                    /\ Append(signed[m], now + ahead)[k] = signed[m][k]
    BY <2>1, <2>2
  <2>4. QED
    BY ONLY <1>2, <2>a, <2>2, <2>3
<1>3. QED
  BY <1>1, <1>2 DEF Deliver

\* What a step leaves in the memory of the process.
MemoryIs(seen, sets, tokens, accepted, conditionalWrites) ==
  /\ Memory(proc') /\ proc'.seen = seen /\ proc'.sets = sets
  /\ proc'.tokens = tokens /\ proc'.accepted = accepted
  /\ proc'.conditionalWrites = conditionalWrites

LEMMA LoadMemory ==
  ASSUME Shapes, NEW q \in Requests, LoadSeen(q)
  PROVE  MemoryIs(q, [proc.sets EXCEPT ![q] = req[q].read], proc.tokens, proc.accepted,
                  proc.conditionalWrites)
<1>1. Memory(proc)
  BY DEF Shapes, IsProcess
<1>2. proc' = [proc EXCEPT !.seen = q, !.sets[q] = req[q].read]
  BY DEF LoadSeen
<1>3. QED
  BY ONLY <1>1, <1>2 DEF Memory, MemoryIs

LEMMA AnswerMemory ==
  ASSUME Shapes, NEW q \in Requests, Answer(q), ProviderMessageId(q) # None
  PROVE  MemoryIs(proc.seen,
                  [proc.sets EXCEPT ![req[q].set] = @ \cup {ProviderMessageId(q)}],
                  proc.tokens, proc.accepted, proc.conditionalWrites)
<1>1. Memory(proc)
  BY DEF Shapes, IsProcess
<1>2. proc' = [proc EXCEPT !.sets[req[q].set] = @ \cup {ProviderMessageId(q)}]
  BY DEF Answer
<1>3. QED
  BY ONLY <1>1, <1>2 DEF Memory, MemoryIs

LEMMA PlainMemory ==
  ASSUME Shapes, NEW q \in Requests, PutIfNone(q), backend = "s3 plain"
  PROVE  MemoryIs(proc.seen, proc.sets, proc.tokens, proc.accepted, FALSE)
<1>1. Memory(proc)
  BY DEF Shapes, IsProcess
<1>2. proc' = [proc EXCEPT !.conditionalWrites = FALSE]
  BY DEF PutIfNone
<1>3. QED
  BY ONLY <1>1, <1>2 DEF Memory, MemoryIs

\* A signature that is looked up and fresh is accepted once more, or was there.
LEMMA VerifyMemory ==
  ASSUME Shapes, NEW q \in Requests, Verify(q)
  PROVE  \/ proc' = proc
         \/ /\ MailOf(q).provider = "mailgun" /\ Fresh(q) /\ Consumed(q)
            /\ MemoryIs(proc.seen, proc.sets, Remembered(proc.tokens),
                        [proc.accepted EXCEPT ![TokenOf(q)] = @],
                        proc.conditionalWrites)
         \/ /\ MailOf(q).provider = "mailgun" /\ Fresh(q) /\ ~ Consumed(q)
            /\ MemoryIs(proc.seen, proc.sets,
                        Remembered(proc.tokens) \cup {[token |-> TokenOf(q), at |-> now]},
                        [proc.accepted EXCEPT ![TokenOf(q)] = @ + 1],
                        proc.conditionalWrites)
<1>1. Memory(proc)
  BY DEF Shapes, IsProcess
<1>2. proc' = proc \/ (proc' = Consume(q) /\ proc' # proc)
  BY DEF Verify
<1>3. ASSUME proc' = Consume(q), proc' # proc
      PROVE  /\ MailOf(q).provider = "mailgun" /\ Fresh(q)
             /\ proc' = [proc EXCEPT
                   !.tokens = IF Consumed(q) THEN Remembered(@)
                              ELSE Remembered(@) \cup {[token |-> TokenOf(q), at |-> now]},
                   !.accepted[TokenOf(q)] = IF Consumed(q) THEN @ ELSE @ + 1]
  BY <1>3 DEF Consume
<1>4. ASSUME proc' = Consume(q), proc' # proc, Consumed(q)
      PROVE  MemoryIs(proc.seen, proc.sets, Remembered(proc.tokens),
                      [proc.accepted EXCEPT ![TokenOf(q)] = @],
                      proc.conditionalWrites)
  <2>1. proc' = [proc EXCEPT !.tokens = Remembered(proc.tokens),
                             !.accepted[TokenOf(q)] = @]
    BY <1>3, <1>4
  <2>2. proc' = [proc EXCEPT !.tokens = Remembered(proc.tokens),
                             !.accepted = [proc.accepted EXCEPT ![TokenOf(q)] = @]]
    BY <2>1
  <2>3. QED
    BY ONLY <1>1, <2>2 DEF Memory, MemoryIs
<1>5. ASSUME proc' = Consume(q), proc' # proc, ~ Consumed(q)
      PROVE  MemoryIs(proc.seen, proc.sets,
                      Remembered(proc.tokens) \cup {[token |-> TokenOf(q), at |-> now]},
                      [proc.accepted EXCEPT ![TokenOf(q)] = @ + 1],
                      proc.conditionalWrites)
  <2>1. proc' = [proc EXCEPT !.tokens = Remembered(proc.tokens)
                                          \cup {[token |-> TokenOf(q), at |-> now]},
                             !.accepted[TokenOf(q)] = @ + 1]
    BY <1>3, <1>5
  <2>2. QED
    BY ONLY <1>1, <2>1 DEF Memory, MemoryIs
<1>6. QED
  BY <1>2, <1>3, <1>4, <1>5

\* The process goes on after an append that was cut.
CutAnswered(q) == AppendIsCut(q) /\ Answered(q) /\ UNCHANGED <<proc, broken>>

\* One request takes a step, or none, or all are gone.
Acts(q) ==
  \/ \E m \in Messages : Deliver(q, m)
  \/ Verify(q)        \/ ReadRecords(q)   \/ LoadSeen(q)    \/ Check(q)
  \/ PutObject(q)     \/ AppendRecords(q) \/ Answer(q)
  \/ CreateFile(q)    \/ WriteBytes(q)    \/ WriteSidecar(q)
  \/ PutIfNone(q)     \/ HeadObject(q)    \/ PutPlain(q)
  \/ Fails(q)         \/ CutAnswered(q)

LEMMA SomeoneActs ==
  ASSUME [Next]_vars
  PROVE  \/ Stops \/ UNCHANGED <<req, proc, disk, acked, failures, signed>>
         \/ \E q \in Requests : Acts(q)
<1>1. ASSUME NEW q \in Requests, AppendIsCut(q)
      PROVE  Stops \/ CutAnswered(q)
  BY <1>1 DEF AppendIsCut, CutAnswered
<1>2. QED
  BY <1>1 DEF Next, Acts, Tick, Restart, vars

LEMMA Frame ==
  ASSUME [Next]_vars
  PROVE  /\ mail' = mail /\ backend' = backend
         /\ now' \in {now, now + 1} /\ failures' \in {failures, failures + 1}
BY DEF Next, vars, world, disk, Deliver, Verify, ReadRecords, LoadSeen, Check, PutObject,
       AppendRecords, Answer, CreateFile, WriteBytes, WriteSidecar, PutIfNone, HeadObject,
       PutPlain, Fails, AppendIsCut, Restart, Tick

LEMMA ShapesStep ==
  ASSUME Shapes, [Next]_vars
  PROVE  Shapes'
<1>1. mail' = mail /\ backend' = backend
  BY Frame
<1>2. now' \in Nat /\ failures' \in Nat
  <2>1. now \in Nat /\ failures \in Nat
    BY DEF Shapes
  <2>2. now' \in {now, now + 1} /\ failures' \in {failures, failures + 1}
    BY Frame
  <2>3. QED
    BY ONLY <2>1, <2>2
<1>3. signed' \in [Messages -> Seq(Nat)]
  <2>1. CASE signed' = signed
    BY <2>1 DEF Shapes
  <2>2. CASE \E q \in Requests, m \in Messages : Deliver(q, m)
    BY <2>2, SignedStep
  <2>3. QED
    BY <2>1, <2>2
       DEF Next, vars, Verify, ReadRecords, LoadSeen, Check, PutObject,
           AppendRecords, Answer, CreateFile, WriteBytes, WriteSidecar, PutIfNone, HeadObject,
           PutPlain, Fails, AppendIsCut, Restart, Tick
<1>4. req' = [q \in Requests |-> req'[q]] /\ \A q \in Requests : IsRequest(req'[q])
  <2> DEFINE Goal == req' = [q \in Requests |-> req'[q]]
                     /\ \A q \in Requests : IsRequest(req'[q])
  <2>a. \A q \in Requests : IsRequest(req[q])
    BY DEF Shapes
  <2>b. IsRequest(Idle)
    BY DEF IsRequest, Fields, Idle, Steps
  <2>1. ASSUME NEW q \in Requests, Over(q)
        PROVE  Goal
    BY <2>1, <2>a, <2>b DEF Over
  <2>2. ASSUME NEW q \in Requests, req[q].at # "idle",
               NEW at \in Steps, NEW set, NEW read, NEW outcome, NEW done \in Nat,
               RowIs(q, at, set, read, outcome, done)
        PROVE  Goal
    <3>1. IsRequest(req'[q])
      BY <2>2, <2>a DEF RowIs, IsRequest
    <3>2. QED
      BY <2>2, <2>a, <3>1 DEF RowIs
  <2>3. ASSUME NEW q \in Requests, NEW m \in Messages, Deliver(q, m)
        PROVE  Goal
    <3>1. Len(signed'[m]) \in Nat
      BY <1>3
    <3>a. /\ Fields(req'[q]) /\ req'[q].at = "verify" /\ req'[q].done = 0
          /\ req'[q].message = m /\ req'[q].token = Len(signed'[m])
      BY <2>3, DeliverRow
    <3>2. IsRequest(req'[q])
      BY ONLY <3>a, <3>1, m \in Messages DEF IsRequest, Steps
    <3>3. QED
      BY <2>3, <2>a, <3>2, DeliverRow
  <2>c. ASSUME NEW q \in Requests
        PROVE  req[q].done \in Nat /\ req[q].done + 1 \in Nat
    BY <2>a DEF IsRequest
  <2> HIDE DEF Goal
  <2>4. ASSUME NEW q \in Requests, NEW at \in Steps, req[q].at # "idle", Goes(q, at)
        PROVE  Goal
    BY <2>2, <2>4, <2>c, GoesRow
  <2>5. ASSUME NEW q \in Requests, req[q].at # "idle", NextDocument(q)
        PROVE  Goal
    BY <2>2, <2>5, <2>c, NextDocumentRow DEF Steps
  <2>6. ASSUME NEW q \in Requests, Answered(q)
        PROVE  Goal
    BY <2>1, <2>6, AnsweredRow
  <2>7. ASSUME NEW q \in Requests, Verify(q)
        PROVE  Goal
    <3>1. CASE VerifiedRow(q)
      <4>1. (IF proc.seen = None THEN "load" ELSE "check") \in Steps
        BY DEF Steps
      <4>2. req[q].at # "idle"
        BY <2>7 DEF Verify
      <4>3. QED
        BY <2>2, <2>c, <3>1, <4>1, <4>2 DEF VerifiedRow
    <3>2. QED
      BY <2>1, <2>7, <3>1, VerifyRow
  <2>8. ASSUME NEW q \in Requests, ReadRecords(q) \/ LoadSeen(q)
        PROVE  Goal
    <3>1. CASE ReadRecords(q)
      BY <2>2, <2>c, <3>1, ReadRow DEF ReadRecords, Steps
    <3>2. CASE LoadSeen(q)
      BY <2>2, <2>c, <3>2, LoadRow DEF LoadSeen, Steps
    <3>3. QED
      BY <2>8, <3>1, <3>2
  <2>9. ASSUME NEW q \in Requests,
               \/ Check(q) \/ PutObject(q) \/ AppendRecords(q) \/ Answer(q)
               \/ CreateFile(q) \/ WriteBytes(q) \/ WriteSidecar(q) \/ PutIfNone(q)
               \/ HeadObject(q) \/ PutPlain(q) \/ Fails(q) \/ CutAnswered(q)
        PROVE  Goal
    <3>1. Check(q) \/ Answer(q) \/ Fails(q) \/ CutAnswered(q) => Goal
      BY <2>4, <2>6 DEF Check, Answer, Fails, CutAnswered, Steps
    <3>2. PutObject(q) \/ AppendRecords(q) => Goal
      BY <2>4 DEF PutObject, AppendRecords, Steps
    <3>3. CreateFile(q) \/ WriteBytes(q) \/ WriteSidecar(q) => Goal
      BY <2>4, <2>5 DEF CreateFile, WriteBytes, WriteSidecar, Steps
    <3>4. PutIfNone(q) => Goal
      BY <2>4, <2>5 DEF PutIfNone, Steps
    <3>5. HeadObject(q) \/ PutPlain(q) => Goal
      BY <2>4, <2>5 DEF HeadObject, PutPlain, Steps
    <3>6. QED
      BY <2>9, <3>1, <3>2, <3>3, <3>4, <3>5
  <2>10. CASE req' = req
    BY <2>10, <2>a DEF Goal, Shapes
  <2>11. CASE Stops
    BY <2>11, <2>b DEF Goal, Stops
  <2>12. QED
    BY <2>3, <2>7, <2>8, <2>9, <2>10, <2>11, SomeoneActs DEF Acts, Goal
<1>5. IsProcess(proc')
  <2>a. IsProcess(proc)
    BY DEF Shapes
  <2>1. ASSUME NEW q \in Requests, Verify(q)
        PROVE  IsProcess(proc')
    BY <2>1, <2>a, VerifyMemory DEF MemoryIs, IsProcess
  <2>2. ASSUME NEW q \in Requests, LoadSeen(q)
        PROVE  IsProcess(proc')
    BY <2>2, <2>a, LoadMemory DEF MemoryIs, IsProcess
  <2>3. ASSUME NEW q \in Requests, Answer(q)
        PROVE  IsProcess(proc')
    <3>1. CASE ProviderMessageId(q) # None
      BY <2>3, <2>a, <3>1, AnswerMemory DEF MemoryIs, IsProcess
    <3>2. CASE ProviderMessageId(q) = None
      BY <2>3, <2>a, <3>2 DEF Answer
    <3>3. QED
      BY <3>1, <3>2
  <2>4. ASSUME NEW q \in Requests, PutIfNone(q)
        PROVE  IsProcess(proc')
    <3>1. CASE backend = "s3 plain"
      BY <2>4, <2>a, <3>1, PlainMemory DEF MemoryIs, IsProcess
    <3>2. CASE backend # "s3 plain"
      BY <2>4, <2>a, <3>2 DEF PutIfNone
    <3>3. QED
      BY <3>1, <3>2
  <2>5. CASE Stops
    <3>1. proc' = Started
      BY <2>5 DEF Stops
    <3>2. IsProcess(Started)
      BY DEF Started, IsProcess, Memory
    <3>3. QED
      BY <3>1, <3>2
  <2>6. CASE proc' = proc
    BY <2>6, <2>a
  <2>7. QED
    BY <2>1, <2>2, <2>3, <2>4, <2>5, <2>6, SomeoneActs
       DEF Acts, Deliver, ReadRecords, Check, PutObject, AppendRecords, CreateFile,
           WriteBytes, WriteSidecar, HeadObject, PutPlain, Fails, CutAnswered
<1>6. (\A m \in Messages : IsMessage(mail'[m])) /\ backend' \in {"files", "s3", "s3 plain"}
  BY <1>1 DEF Shapes
<1>7. QED
  BY <1>2, <1>3, <1>4, <1>5, <1>6 DEF Shapes

LEMMA ShapesInit == Init => Shapes
<1> SUFFICES ASSUME Init PROVE Shapes
  OBVIOUS
<1>1. req = [q \in Requests |-> req[q]] /\ \A q \in Requests : IsRequest(req[q])
  BY DEF Init, IsRequest, Fields, Idle, Steps
<1>2. IsProcess(proc)
  BY DEF Init, IsProcess, Memory, Started
<1>3. signed \in [Messages -> Seq(Nat)]
  <2>1. <<>> \in Seq(Nat)
    OBVIOUS
  <2>2. QED
    BY <2>1 DEF Init
<1>4. QED
  BY <1>1, <1>2, <1>3 DEF Init, Shapes

\* Requests, processes, records and stored objects keep their shape, through
\* restarts, failed writes and every interleaving.
THEOREM ShapesHold == Spec => []Shapes
BY ShapesInit, ShapesStep, PTL DEF Spec

-----------------------------------------------------------------------------
(* A signature is accepted once.                                           *)

LEMMA TokensInit == Init => TokensKnown
<1> SUFFICES ASSUME Init PROVE TokensKnown
  OBVIOUS
<1>1. \A q \in Requests : req[q].at = "idle"
  BY DEF Init, Idle
<1>2. /\ proc.tokens = {}
      /\ proc.accepted = [t \in Messages \X (1..MaxDeliveries) |-> 0]
  BY DEF Init, Started
<1>3. QED
  BY <1>1, <1>2 DEF TokensKnown, TokenKnown

\* Only a delivery has something to verify.
LEMMA NobodyElseVerifies ==
  ASSUME Shapes, [Next]_vars, NEW q \in Requests
  PROVE  \/ req'[q] = req[q]
         \/ req'[q].at # "verify"
         \/ \E m \in Messages : Deliver(q, m)
<1> DEFINE Goal == req'[q] = req[q] \/ req'[q].at # "verify"
<1>1. ASSUME NEW p \in Requests, Over(p) PROVE Goal
  BY <1>1 DEF Over, Idle
<1>2. ASSUME NEW p \in Requests, NEW at, at # "verify",
             NEW set, NEW read, NEW outcome, NEW done,
             RowIs(p, at, set, read, outcome, done)
      PROVE  Goal
  BY <1>2 DEF RowIs
<1>3. ASSUME NEW p \in Requests, NEW m \in Messages, Deliver(p, m), p # q
      PROVE  Goal
  BY <1>3, DeliverRow
<1> HIDE DEF Goal
<1>4. ASSUME NEW p \in Requests, NEW at, at # "verify", Goes(p, at) PROVE Goal
  BY <1>2, <1>4, GoesRow
<1>5. ASSUME NEW p \in Requests, NextDocument(p) PROVE Goal
  BY <1>2, <1>5, NextDocumentRow
<1>6. ASSUME NEW p \in Requests, Answered(p) PROVE Goal
  BY <1>1, <1>6, AnsweredRow
<1>7. ASSUME NEW p \in Requests, Verify(p) PROVE Goal
  <2>1. (IF proc.seen = None THEN "load" ELSE "check") # "verify"
    OBVIOUS
  <2>2. CASE VerifiedRow(p)
    BY <1>2, <2>1, <2>2 DEF VerifiedRow
  <2>3. QED
    BY <1>1, <1>7, <2>2, VerifyRow
<1>8. ASSUME NEW p \in Requests, ReadRecords(p) \/ LoadSeen(p) PROVE Goal
  BY <1>2, <1>8, ReadRow, LoadRow
<1>9. ASSUME NEW p \in Requests,
             \/ Check(p) \/ PutObject(p) \/ AppendRecords(p) \/ Answer(p)
             \/ CreateFile(p) \/ WriteBytes(p) \/ WriteSidecar(p) \/ PutIfNone(p)
             \/ HeadObject(p) \/ PutPlain(p) \/ Fails(p) \/ CutAnswered(p)
      PROVE  Goal
  <2>1. Check(p) \/ Answer(p) \/ Fails(p) \/ CutAnswered(p) => Goal
    BY <1>4, <1>6 DEF Check, Answer, Fails, CutAnswered
  <2>2. PutObject(p) \/ AppendRecords(p) => Goal
    BY <1>4 DEF PutObject, AppendRecords
  <2>3. CreateFile(p) \/ WriteBytes(p) \/ WriteSidecar(p) => Goal
    BY <1>4, <1>5 DEF CreateFile, WriteBytes, WriteSidecar
  <2>4. PutIfNone(p) \/ HeadObject(p) \/ PutPlain(p) => Goal
    BY <1>4, <1>5 DEF PutIfNone, HeadObject, PutPlain
  <2>5. QED
    BY <1>9, <2>1, <2>2, <2>3, <2>4
<1>10. CASE UNCHANGED req \/ Stops
  BY <1>10 DEF Stops, Idle, Goal
<1>11. QED
  BY <1>3, <1>7, <1>8, <1>9, <1>10, SomeoneActs DEF Acts, Goal

\* What was accepted changes when a call is verified, and when the process
\* starts.
LEMMA MemoryOfTokens ==
  ASSUME Shapes, [Next]_vars
  PROVE  \/ UNCHANGED <<proc.tokens, proc.accepted>>
         \/ \E q \in Requests : Verify(q)
         \/ proc' = Started
<1>1. ASSUME NEW q \in Requests, LoadSeen(q)
      PROVE  UNCHANGED <<proc.tokens, proc.accepted>>
  BY <1>1, LoadMemory DEF MemoryIs
<1>2. ASSUME NEW q \in Requests, Answer(q)
      PROVE  UNCHANGED <<proc.tokens, proc.accepted>>
  <2>1. CASE ProviderMessageId(q) # None
    BY <1>2, <2>1, AnswerMemory DEF MemoryIs
  <2>2. CASE ProviderMessageId(q) = None
    BY <1>2, <2>2 DEF Answer
  <2>3. QED
    BY <2>1, <2>2
<1>3. ASSUME NEW q \in Requests, PutIfNone(q)
      PROVE  UNCHANGED <<proc.tokens, proc.accepted>>
  <2>1. CASE backend = "s3 plain"
    BY <1>3, <2>1, PlainMemory DEF MemoryIs
  <2>2. CASE backend # "s3 plain"
    BY <1>3, <2>2 DEF PutIfNone
  <2>3. QED
    BY <2>1, <2>2
<1>4. QED
  BY <1>1, <1>2, <1>3, SomeoneActs
     DEF Acts, Stops, Deliver, ReadRecords, Check, PutObject, AppendRecords, CreateFile,
         WriteBytes, WriteSidecar, HeadObject, PutPlain, Fails, CutAnswered

LEMMA TokensStep ==
  ASSUME Shapes, TokensKnown, [Next]_vars
  PROVE  TokensKnown'
<1> DEFINE Tokens == Messages \X (1..MaxDeliveries)
<1>a. Shapes'
  BY ShapesStep
<1>b. /\ now \in Nat /\ signed \in [Messages -> Seq(Nat)]
      /\ \A m \in Messages : \A k \in DOMAIN signed[m] : signed[m][k] \in Nat
  <2>1. now \in Nat /\ signed \in [Messages -> Seq(Nat)]
    BY DEF Shapes
  <2>2. QED
    BY ONLY <2>1
<1>c. mail' = mail
  BY Frame
<1>d. now' \in Nat /\ now <= now'
  <2>1. now' \in {now, now + 1}
    BY Frame
  <2>2. QED
    BY ONLY <1>b, <2>1
<1>e. \A m \in Messages : \A k \in DOMAIN signed[m] :
         k \in DOMAIN signed'[m] /\ signed'[m][k] = signed[m][k]
  <2>1. CASE signed' = signed
    BY <2>1
  <2>2. CASE \E q \in Requests, m \in Messages : Deliver(q, m)
    BY <2>2, SignedStep
  <2>3. QED
    BY <2>1, <2>2
       DEF Next, vars, Verify, ReadRecords, LoadSeen, Check, PutObject,
           AppendRecords, Answer, CreateFile, WriteBytes, WriteSidecar, PutIfNone, HeadObject,
           PutPlain, Fails, AppendIsCut, Restart, Tick
<1>1. ASSUME NEW q \in Requests, req'[q].at = "verify", mail'[req'[q].message].provider = "mailgun"
      PROVE  req'[q].token \in DOMAIN signed'[req'[q].message]
  <2>a. req[q].at = "verify" => req[q].message \in Messages
    BY DEF Shapes, IsRequest
  <2>1. CASE req'[q] = req[q]
    BY <1>1, <1>c, <1>e, <2>a, <2>1 DEF TokensKnown, MailOf
  <2>2. ASSUME NEW m \in Messages, Deliver(q, m)
        PROVE  req'[q].token \in DOMAIN signed'[req'[q].message]
    <3>1. signed'[m] \in Seq(Nat)
      BY <1>a DEF Shapes
    <3>2. req'[q].message = m /\ req'[q].token = Len(signed'[m])
      BY <2>2, DeliverRow
    <3>3. signed'[m] # <<>>
      BY <1>1, <1>c, <2>2, <3>2 DEF Deliver
    <3>4. Len(signed'[m]) \in DOMAIN signed'[m]
      BY ONLY <3>1, <3>3
    <3>5. QED
      BY <3>2, <3>4
  <2>3. QED
    BY <1>1, <2>1, <2>2, NobodyElseVerifies
<1>2. (\A e \in proc'.tokens : e.at \in Nat)
      /\ proc'.accepted = [t \in Tokens |-> proc'.accepted[t]]
  <2>a. (\A e \in proc.tokens : e.at \in Nat)
        /\ proc.accepted = [t \in Tokens |-> proc.accepted[t]]
    BY DEF TokensKnown
  <2>1. CASE UNCHANGED <<proc.tokens, proc.accepted>>
    BY <2>a, <2>1
  <2>2. ASSUME NEW q \in Requests, Verify(q)
        PROVE  (\A e \in proc'.tokens : e.at \in Nat)
               /\ proc'.accepted = [t \in Tokens |-> proc'.accepted[t]]
    <3>a. now \in Nat
      BY <1>b
    <3>1. CASE proc' = proc
      BY <2>a, <3>1
    <3>2. CASE MemoryIs(proc.seen, proc.sets, Remembered(proc.tokens),
                        [proc.accepted EXCEPT ![TokenOf(q)] = @], proc.conditionalWrites)
      BY ONLY <2>a, <3>2 DEF MemoryIs, Remembered
    <3>3. CASE MemoryIs(proc.seen, proc.sets,
                        Remembered(proc.tokens) \cup {[token |-> TokenOf(q), at |-> now]},
                        [proc.accepted EXCEPT ![TokenOf(q)] = @ + 1],
                        proc.conditionalWrites)
      <4>1. \A e \in proc'.tokens : e \in proc.tokens \/ e = [token |-> TokenOf(q), at |-> now]
        BY ONLY <3>3 DEF MemoryIs, Remembered
      <4>2. proc'.accepted = [t \in Tokens |-> proc'.accepted[t]]
        BY ONLY <2>a, <3>3 DEF MemoryIs
      <4>3. QED
        BY ONLY <2>a, <3>a, <4>1, <4>2
    <3>4. QED
      BY <2>2, <3>1, <3>2, <3>3, VerifyMemory
  <2>3. CASE proc' = Started
    BY <2>3 DEF Started
  <2>4. QED
    BY <2>1, <2>2, <2>3, MemoryOfTokens
<1>3. ASSUME NEW t \in Tokens
      PROVE  TokenKnown(t)'
  <2> DEFINE at == signed[t[1]][t[2]]
  <2>a. t[1] \in Messages /\ TokenKnown(t) /\ (\A e \in proc.tokens : e.at \in Nat)
    BY DEF TokensKnown
  <2>b. t[2] \in DOMAIN signed[t[1]] =>
          /\ at \in Nat /\ t[2] \in DOMAIN signed'[t[1]]
          /\ signed'[t[1]][t[2]] = at
    BY <1>b, <1>e, <2>a
  <2>1. ASSUME proc'.accepted[t] = proc.accepted[t],
               \A e \in proc.tokens : e \in proc'.tokens \/ now - e.at > TokenLifetime
        PROVE  TokenKnown(t)'
    <3>1. CASE proc.accepted[t] = 0
      BY <2>1, <3>1 DEF TokenKnown
    <3>2. CASE proc.accepted[t] = 1 /\ now > at + Tolerance
      <4>1. t[2] \in DOMAIN signed[t[1]]
        BY <2>a, <3>2 DEF TokenKnown
      <4>2. now' > at + Tolerance
        BY <1>b, <1>d, <2>b, <3>2, <4>1 DEF Tolerance
      <4>3. QED
        BY <2>1, <2>b, <3>2, <4>1, <4>2 DEF TokenKnown
    <3>3. ASSUME proc.accepted[t] = 1, NEW e \in proc.tokens, e.token = t, at <= e.at + Tolerance
          PROVE  TokenKnown(t)'
      <4>1. t[2] \in DOMAIN signed[t[1]]
        BY <2>a, <3>3 DEF TokenKnown
      <4>2. CASE e \in proc'.tokens
        BY <2>1, <2>b, <3>3, <4>1, <4>2 DEF TokenKnown
      <4>3. CASE now - e.at > TokenLifetime
        <5>1. now' > at + Tolerance
          BY <1>b, <1>d, <2>a, <2>b, <3>3, <4>1, <4>3 DEF Tolerance, TokenLifetime
        <5>2. QED
          BY <2>1, <2>b, <3>3, <4>1, <5>1 DEF TokenKnown
      <4>4. QED
        BY <2>1, <3>3, <4>2, <4>3
    <3>4. QED
      BY <2>a, <3>1, <3>2, <3>3 DEF TokenKnown
  <2>2. CASE UNCHANGED <<proc.tokens, proc.accepted>>
    BY <2>1, <2>2
  <2>3. CASE proc' = Started
    <3>1. proc'.accepted[t] = 0
      BY <2>3 DEF Started
    <3>2. QED
      BY <3>1 DEF TokenKnown
  <2>4. ASSUME NEW q \in Requests, Verify(q)
        PROVE  TokenKnown(t)'
    <3>a. \A e \in proc.tokens : e \in Remembered(proc.tokens) \/ now - e.at > TokenLifetime
      BY <1>b, <2>a DEF Remembered, TokenLifetime
    <3>b. proc.accepted = [u \in Tokens |-> proc.accepted[u]]
      BY DEF TokensKnown
    <3>c. req[q].at = "verify" /\ now' = now /\ signed' = signed
      BY <2>4 DEF Verify
    <3>1. CASE proc' = proc
      BY <2>1, <3>1
    <3>2. CASE MemoryIs(proc.seen, proc.sets, Remembered(proc.tokens),
                        [proc.accepted EXCEPT ![TokenOf(q)] = @], proc.conditionalWrites)
      BY <2>1, <3>2, <3>a, <3>b DEF MemoryIs
    <3>3. CASE /\ MailOf(q).provider = "mailgun" /\ Fresh(q) /\ ~ Consumed(q)
               /\ MemoryIs(proc.seen, proc.sets,
                        Remembered(proc.tokens) \cup {[token |-> TokenOf(q), at |-> now]},
                        [proc.accepted EXCEPT ![TokenOf(q)] = @ + 1],
                        proc.conditionalWrites)
      <4>1. CASE t # TokenOf(q)
        BY <2>1, <3>3, <3>a, <3>b, <4>1 DEF MemoryIs
      <4>2. CASE t = TokenOf(q)
        <5>1. t[1] = req[q].message /\ t[2] = req[q].token /\ t[2] \in DOMAIN signed[t[1]]
          BY <3>3, <3>c, <4>2 DEF TokensKnown, TokenOf
        <5>2. now <= at + Tolerance /\ at <= now + Tolerance
          BY <3>3, <5>1 DEF Fresh
        <5>3. \A e \in proc.tokens : e.token = t => now - e.at > TokenLifetime
          BY <3>3, <3>a, <4>2 DEF Consumed
        <5>4. proc.accepted[t] # 1
          <6>1. ~(now > at + Tolerance)
            BY <1>b, <2>b, <5>1, <5>2 DEF Tolerance
          <6>2. ASSUME NEW e \in proc.tokens, e.token = t, at <= e.at + Tolerance
                PROVE  FALSE
            <7>1. now - e.at > TokenLifetime /\ e.at \in Nat /\ at \in Nat /\ now \in Nat
              BY <1>b, <2>a, <2>b, <5>1, <5>3, <6>2
            <7>2. QED
              BY <5>2, <6>2, <7>1 DEF Tolerance, TokenLifetime
          <6>3. QED
            BY <2>a, <6>1, <6>2 DEF TokenKnown
        <5>5. proc'.accepted[t] = 1
          <6>1. proc.accepted[t] = 0
            BY <2>a, <5>4 DEF TokenKnown
          <6>2. proc'.accepted[t] = proc.accepted[t] + 1
            BY <3>3, <3>b, <4>2 DEF MemoryIs
          <6>3. QED
            BY <6>1, <6>2
        <5>6. \E e \in proc'.tokens : e.token = t /\ at <= e.at + Tolerance
          <6>1. [token |-> TokenOf(q), at |-> now] \in proc'.tokens
            BY <3>3 DEF MemoryIs
          <6>2. QED
            BY <4>2, <5>2, <6>1
        <5>7. QED
          BY <3>c, <5>1, <5>5, <5>6 DEF TokenKnown
      <4>3. QED
        BY <4>1, <4>2
    <3>4. QED
      BY <2>4, <3>1, <3>2, <3>3, VerifyMemory
  <2>5. QED
    BY <2>2, <2>3, <2>4, MemoryOfTokens
<1>4. QED
  BY <1>1, <1>2, <1>3 DEF TokensKnown, MailOf

\* For every message, however often and however late it is posted, with
\* clocks that differ by as much as is tolerated and with restarts.
THEOREM UsedOnce == Spec => []TokensAreUsedOnce
<1>1. TokensKnown => TokensAreUsedOnce
  <2> SUFFICES ASSUME TokensKnown, NEW t \in DOMAIN proc.accepted
               PROVE  proc.accepted[t] <= 1
    BY DEF TokensAreUsedOnce
  <2>1. proc.accepted = [u \in Messages \X (1..MaxDeliveries) |-> proc.accepted[u]]
    BY DEF TokensKnown
  <2>2. t \in Messages \X (1..MaxDeliveries)
    BY <2>1
  <2>3. proc.accepted[t] \in {0, 1}
    BY <2>2 DEF TokensKnown, TokenKnown
  <2>4. QED
    BY <2>3
<1>2. QED
  BY <1>1, TokensInit, TokensStep, ShapesHold, PTL DEF Spec

-----------------------------------------------------------------------------
(* What was acknowledged is on record and kept.                            *)

\* What every step leaves as it is: messages, the sort of store, objects that
\* are there or whole, the records, and what is broken.
Grows ==
  /\ mail' = mail /\ backend' = backend
  /\ \A d \in Digests : objects[d] # <<>> => objects'[d] # <<>>
  /\ \A d \in Digests : IsWhole(d) => IsWhole(d)'
  /\ \A i \in DOMAIN records : i \in DOMAIN records' /\ records'[i] = records[i]
  /\ broken \subseteq broken'

LEMMA ListedParts ==
  ASSUME Shapes, NEW m \in Messages
  PROVE  /\ IsList(Listed(m))
         /\ \A i \in DOMAIN Listed(m) : Listed(m)[i].sha256 \in Digests
<1>1. IsMessage(mail[m])
  BY DEF Shapes
<1>2. \A a \in ToSet(mail[m].attachments) : BuildDocument(a).sha256 \in Digests
  BY <1>1 DEF IsMessage, IsAttachment, BuildDocument
<1>3. QED
  BY <1>1, <1>2, DocumentsAre DEF Listed

\* The file a request is putting.
LEMMA PuttingDigest ==
  ASSUME Shapes, NEW q \in Requests, Knows(q), req[q].at \in Putting
  PROVE  /\ req[q].message \in Messages
         /\ req[q].done + 1 \in DOMAIN Listed(req[q].message)
         /\ Digest(q) = Listed(req[q].message)[req[q].done + 1].sha256
         /\ Digest(q) \in Digests
<1>1. req[q].message \in Messages /\ req[q].done \in Nat
  BY DEF Shapes, IsRequest, Putting
<1>2. req[q].outcome = IngestMessage(MailOf(q)) /\ req[q].done < Len(Listed(req[q].message))
  BY DEF Knows, Putting, Storing, Checked, Read
<1>3. DOMAIN Listed(req[q].message) = 1..Len(Listed(req[q].message))
      /\ Len(Listed(req[q].message)) \in Nat
  BY <1>1, ListedParts, ListParts
<1>4. req[q].done + 1 \in DOMAIN Listed(req[q].message)
  BY ONLY <1>1, <1>2, <1>3
<1>5. Digest(q) = Listed(req[q].message)[req[q].done + 1].sha256
  BY <1>2 DEF Digest, Documents, Listed, MailOf
<1>6. QED
  BY <1>1, <1>4, <1>5, ListedParts

\* How the object store changes.
LEMMA ObjectsChange ==
  ASSUME [Next]_vars
  PROVE  \/ objects' = objects
         \/ \E q \in Requests :
               \/ CreateFile(q) /\ ~ Exists(q) /\ NewVersion(q, FALSE)
               \/ PutIfNone(q) /\ ~ Exists(q) /\ NewVersion(q, TRUE)
               \/ PutPlain(q) /\ NewVersion(q, TRUE)
               \/ WriteBytes(q) \/ WriteSidecar(q)
<1>1. ASSUME NEW q \in Requests, CreateFile(q), objects' # objects
      PROVE  ~ Exists(q) /\ NewVersion(q, FALSE)
  BY <1>1 DEF CreateFile
<1>2. ASSUME NEW q \in Requests, PutIfNone(q), objects' # objects
      PROVE  ~ Exists(q) /\ NewVersion(q, TRUE)
  BY <1>2 DEF PutIfNone
<1>3. ASSUME NEW q \in Requests, PutPlain(q)
      PROVE  NewVersion(q, TRUE)
  BY <1>3 DEF PutPlain
<1>4. QED
  BY <1>1, <1>2, <1>3
     DEF Next, vars, disk, Deliver, Verify, ReadRecords, LoadSeen, Check, PutObject,
         AppendRecords, Answer, HeadObject, Fails, AppendIsCut, Restart, Tick

\* The versions of one file change, and are all whole if that was so.
FileChanges(d) ==
  /\ objects' = [e \in Digests |-> objects'[e]]
  /\ \A e \in Digests : e # d => objects'[e] = objects[e]
  /\ objects'[d] \in Seq(Versions) /\ objects'[d] # <<>>
  /\ IsWhole(d) => IsWhole(d)'

\* A new version goes behind the others of its file.
LEMMA VersionAdded ==
  ASSUME Shapes, ObjectsKnown, NEW q \in Requests, Knows(q), req[q].at \in Putting,
         NEW r \in BOOLEAN, NewVersion(q, r), r \/ ~ Exists(q), NEW d, d = Digest(q)
  PROVE  /\ FileChanges(d)
         /\ Len(objects'[d]) = Len(objects[d]) + 1
         /\ r => \E i \in DOMAIN objects'[d] :
                     objects'[d][i].whole /\ objects'[d][i].retained
<1>1. d \in Digests
  BY PuttingDigest
<1>2. objects = [e \in Digests |-> objects[e]] /\ objects[d] \in Seq(Versions)
  BY <1>1 DEF ObjectsKnown
<1> DEFINE new == [whole |-> r, retained |-> r]
<1>3. objects' = [objects EXCEPT ![d] = Append(@, new)]
  BY DEF NewVersion
<1>4. new \in Versions /\ new.whole = r /\ new.retained = r
  BY DEF Versions
<1> HIDE DEF new
<1>5. /\ objects' = [e \in Digests |-> objects'[e]]
      /\ \A e \in Digests : e # d => objects'[e] = objects[e]
      /\ objects'[d] = Append(objects[d], new)
  BY ONLY <1>1, <1>2, <1>3
<1>6. /\ objects'[d] \in Seq(Versions) /\ objects'[d] # <<>>
      /\ Len(objects'[d]) = Len(objects[d]) + 1
      /\ Len(objects[d]) + 1 \in DOMAIN objects'[d]
      /\ objects'[d][Len(objects[d]) + 1] = new
  BY ONLY <1>2, <1>4, <1>5, AppendParts
<1>7. \A i \in DOMAIN objects'[d] :
         \/ i \in DOMAIN objects[d] /\ objects'[d][i] = objects[d][i]
         \/ objects'[d][i] = new
  BY ONLY <1>2, <1>4, <1>5, AppendParts
<1>8. IsWhole(d) => IsWhole(d)'
  <2>1. CASE r
    BY <1>4, <1>6, <1>7, <2>1 DEF IsWhole
  <2>2. CASE ~ Exists(q)
    BY <2>2 DEF IsWhole, Exists
  <2>3. QED
    BY <2>1, <2>2
<1>9. r => \E i \in DOMAIN objects'[d] : objects'[d][i].whole /\ objects'[d][i].retained
  BY <1>4, <1>6
<1>10. QED
  BY <1>5, <1>6, <1>8, <1>9 DEF FileChanges

\* The bytes make the versions of a file whole, and the sidecar puts them
\* under retention.
LEMMA FileFilled ==
  ASSUME Shapes, ObjectsKnown, NEW q \in Requests, Knows(q),
         WriteBytes(q) \/ WriteSidecar(q), NEW d, d = Digest(q)
  PROVE  /\ d \in Digests
         /\ FileChanges(d)
         /\ Len(objects'[d]) = Len(objects[d])
         /\ IsWhole(d)'
         /\ WriteSidecar(q) => \E i \in DOMAIN objects'[d] :
                                  objects'[d][i].whole /\ objects'[d][i].retained
<1> DEFINE seq == objects[d]
<1>1. d \in Digests /\ seq # <<>>
  BY PuttingDigest DEF WriteBytes, WriteSidecar, Putting, Knows, Exists, HalfWritten
<1>2. objects = [e \in Digests |-> objects[e]] /\ seq \in Seq(Versions)
  BY <1>1 DEF ObjectsKnown
<1>3. /\ DOMAIN seq = 1..Len(seq) /\ Len(seq) \in Nat /\ Len(seq) # 0
      /\ \A i \in DOMAIN seq : seq[i] \in Versions
  BY ONLY <1>1, <1>2, LenProperties, EmptySeq, ElementOfSeq
<1>4. ASSUME NEW new, objects' = [objects EXCEPT ![d] = new],
             DOMAIN new = DOMAIN seq, new = [i \in DOMAIN seq |-> new[i]],
             \A i \in DOMAIN seq : new[i] \in Versions /\ new[i].whole
      PROVE  /\ FileChanges(d) /\ Len(objects'[d]) = Len(seq) /\ IsWhole(d)'
             /\ objects'[d] = new /\ 1 \in DOMAIN new /\ new[1].whole
  <2>1. /\ objects' = [e \in Digests |-> objects'[e]]
        /\ \A e \in Digests : e # d => objects'[e] = objects[e]
        /\ objects'[d] = new
    BY ONLY <1>1, <1>2, <1>4
  <2>2. new \in [1..Len(seq) -> Versions]
    BY ONLY <1>3, <1>4
  <2>3. new \in Seq(Versions) /\ Len(new) = Len(seq)
    BY ONLY <1>3, <2>2, NumberedIsSeq
  <2>4. 1 \in DOMAIN new
    BY ONLY <1>3, <1>4
  <2>5. new # <<>>
    BY ONLY <2>4
  <2>6. IsWhole(d)'
    BY <1>4, <2>1, <2>5 DEF IsWhole
  <2>7. new[1].whole
    BY ONLY <1>4, <2>4
  <2>8. QED
    BY <2>1, <2>3, <2>4, <2>5, <2>6, <2>7 DEF FileChanges
<1>5. CASE WriteBytes(q)
  <2> DEFINE new == [i \in DOMAIN seq |-> [whole |-> TRUE, retained |-> seq[i].retained]]
  <2>1. objects' = [objects EXCEPT ![d] = new]
    BY <1>1, <1>2, <1>5 DEF WriteBytes
  <2>2. \A i \in DOMAIN seq : new[i] \in Versions /\ new[i].whole
    BY <1>3 DEF Versions
  <2>3. DOMAIN new = DOMAIN seq /\ new = [i \in DOMAIN seq |-> new[i]]
    OBVIOUS
  <2>4. ~ WriteSidecar(q)
    BY <1>5 DEF WriteBytes, WriteSidecar
  <2> HIDE DEF new, seq
  <2>5. FileChanges(d) /\ Len(objects'[d]) = Len(seq) /\ IsWhole(d)'
    BY <1>4, <2>1, <2>2, <2>3
  <2>6. QED
    BY <1>1, <2>4, <2>5 DEF seq
<1>6. CASE WriteSidecar(q)
  <2> DEFINE new == [i \in DOMAIN seq |-> [whole |-> seq[i].whole, retained |-> TRUE]]
  <2>1. objects' = [objects EXCEPT ![d] = new]
    BY <1>1, <1>2, <1>6 DEF WriteSidecar
  <2>2. \A i \in DOMAIN seq : seq[i].whole
    BY <1>6 DEF WriteSidecar, Knows, IsWhole
  <2>3. \A i \in DOMAIN seq : new[i] \in Versions /\ new[i].whole /\ new[i].retained
    BY <1>3, <2>2 DEF Versions
  <2>4. DOMAIN new = DOMAIN seq /\ new = [i \in DOMAIN seq |-> new[i]]
    OBVIOUS
  <2> HIDE DEF new, seq
  <2>5. /\ FileChanges(d) /\ Len(objects'[d]) = Len(seq) /\ IsWhole(d)'
        /\ objects'[d] = new /\ 1 \in DOMAIN new /\ new[1].whole
    BY <1>4, <2>1, <2>3, <2>4
  <2>6. 1 \in DOMAIN objects'[d] /\ objects'[d][1].whole /\ objects'[d][1].retained
    BY <2>3, <2>4, <2>5
  <2>7. QED
    BY <1>1, <2>5, <2>6 DEF seq
<1>7. QED
  BY <1>5, <1>6

LEMMA GrowsStep ==
  ASSUME IInv, [Next]_vars
  PROVE  Grows
<1>a. /\ Shapes /\ ObjectsKnown /\ RecordsKnown
      /\ \A q \in Requests : Knows(q)
  BY DEF IInv
<1>1. mail' = mail /\ backend' = backend /\ broken \subseteq broken'
  <2>1. mail' = mail /\ backend' = backend
    BY Frame
  <2>2. Stops => broken \subseteq broken'
    BY DEF Stops, BreaksOff
  <2>3. ASSUME NEW q \in Requests, Acts(q)
        PROVE  broken \subseteq broken'
    BY <2>3
       DEF Acts, disk, Deliver, Verify, ReadRecords, LoadSeen, Check, PutObject,
           AppendRecords, Answer, CreateFile, WriteBytes, WriteSidecar, PutIfNone,
           HeadObject, PutPlain, Fails, BreaksOff, CutAnswered
  <2>4. broken' = broken => broken \subseteq broken'
    OBVIOUS
  <2>5. QED
    BY <2>1, <2>2, <2>3, <2>4, SomeoneActs DEF disk
<1>2. ASSUME NEW d \in Digests
      PROVE  /\ objects[d] # <<>> => objects'[d] # <<>>
             /\ IsWhole(d) => IsWhole(d)'
  <2>1. ASSUME NEW f, FileChanges(f)
        PROVE  /\ objects[d] # <<>> => objects'[d] # <<>>
               /\ IsWhole(d) => IsWhole(d)'
    <3>1. CASE d = f
      BY <2>1, <3>1 DEF FileChanges
    <3>2. CASE d # f
      <4>1. objects'[d] = objects[d]
        BY <2>1, <3>2 DEF FileChanges
      <4>2. QED
        BY <4>1 DEF IsWhole
    <3>3. QED
      BY <3>1, <3>2
  <2>2. objects' = objects => /\ objects[d] # <<>> => objects'[d] # <<>>
                              /\ IsWhole(d) => IsWhole(d)'
    BY DEF IsWhole
  <2>3. ASSUME NEW q \in Requests, NEW r \in BOOLEAN, NewVersion(q, r), r \/ ~ Exists(q),
               req[q].at \in Putting
        PROVE  \E f : FileChanges(f)
    BY <1>a, <2>3, VersionAdded
  <2>4. ASSUME NEW q \in Requests, WriteBytes(q) \/ WriteSidecar(q)
        PROVE  \E f : FileChanges(f)
    BY <1>a, <2>4, FileFilled
  <2>5. ASSUME NEW q \in Requests, CreateFile(q) \/ PutIfNone(q) \/ PutPlain(q)
        PROVE  req[q].at \in Putting
    BY <2>5 DEF CreateFile, PutIfNone, PutPlain, Putting
  <2>6. objects' = objects \/ \E f : FileChanges(f)
    BY <2>3, <2>4, <2>5, ObjectsChange
  <2>7. QED
    BY <2>1, <2>2, <2>6
<1>3. ASSUME NEW i \in DOMAIN records
      PROVE  i \in DOMAIN records' /\ records'[i] = records[i]
  <2>1. ASSUME NEW e, records' = Append(records, e)
        PROVE  i \in DOMAIN records' /\ records'[i] = records[i]
    <3>1. records \in Seq(ToSet(records) \cup {e})
      BY <1>a, SeqMonotonic DEF RecordsKnown
    <3>2. QED
      BY <2>1, <3>1, AppendParts
  <2>2. CASE records' = records
    BY <2>2
  <2>3. QED
    BY <2>1, <2>2
       DEF Next, vars, disk, Deliver, Verify, ReadRecords, LoadSeen, Check, PutObject,
           AppendRecords, Answer, CreateFile, WriteBytes, WriteSidecar, PutIfNone, HeadObject,
           PutPlain, Fails, AppendIsCut, Restart, Tick
<1>4. QED
  BY <1>1, <1>2, <1>3 DEF Grows

LEMMA OnRecordStays ==
  ASSUME Grows
  PROVE  /\ IdsWritten \subseteq IdsWritten'
         /\ \A m, id : IsOnRecord(m, id) => IsOnRecord(m, id)'
BY DEF Grows, IdsWritten, IsOnRecord

\* An id that can be read was written.
LEMMA IdsAreWritten ==
  ASSUME RecordsKnown
  PROVE  IdsOnRecord \subseteq IdsWritten
<1>1. ASSUME NEW i \in DOMAIN records, LegibleLines(i) # {}
      PROVE  records[i].lines > 0
  <2>1. PICK k : k \in 1..records[i].lines
    BY <1>1 DEF LegibleLines
  <2>2. records[i].lines \in Nat
    BY DEF RecordsKnown, IsRecord
  <2>3. QED
    BY ONLY <2>1, <2>2
<1>2. QED
  BY <1>1 DEF IdsOnRecord, IdsWritten

LEMMA ListedStays ==
  ASSUME Grows
  PROVE  \A m : Listed(m)' = Listed(m)
BY DEF Grows, Listed

\* What a request knows stays true until its own next step.
LEMMA KnowsStays ==
  ASSUME Shapes, Grows, NEW q \in Requests, Knows(q), req'[q] = req[q]
  PROVE  Knows(q)'
<1> DEFINE m == req[q].message
<1>1. req'[q].at \in Read => req'[q].outcome = IngestMessage(mail'[req'[q].message])
  BY DEF Knows, Grows, MailOf
<1>2. req'[q].read \subseteq IdsWritten'
  BY OnRecordStays DEF Knows
<1>3. req'[q].at \in Storing =>
        /\ req'[q].done <= Len(Listed(m)')
        /\ \A j \in 1..req'[q].done : objects'[Listed(m)'[j].sha256] # <<>>
  <2> SUFFICES ASSUME req[q].at \in Storing
               PROVE  /\ req[q].done <= Len(Listed(m))
                      /\ \A j \in 1..req[q].done : objects'[Listed(m)[j].sha256] # <<>>
    BY ListedStays
  <2>1. /\ req[q].done <= Len(Listed(m))
        /\ \A j \in 1..req[q].done : objects[Listed(m)[j].sha256] # <<>>
    BY DEF Knows
  <2>2. m \in Messages /\ req[q].done \in Nat
    BY DEF Shapes, IsRequest, Storing, Putting
  <2>3. DOMAIN Listed(m) = 1..Len(Listed(m)) /\ Len(Listed(m)) \in Nat
        /\ \A j \in DOMAIN Listed(m) : Listed(m)[j].sha256 \in Digests
    BY <2>2, ListedParts, ListParts
  <2>4. \A j \in 1..req[q].done : j \in DOMAIN Listed(m)
    BY ONLY <2>1, <2>2, <2>3
  <2>5. QED
    BY <2>1, <2>3, <2>4 DEF Grows
<1>4. req'[q].at \in Putting => req'[q].done < Len(Listed(m)')
  BY ListedStays DEF Knows
<1>5. /\ HalfWritten(q)' => Exists(q)'
      /\ req'[q].at = "sidecar" => IsWhole(Digest(q))'
  <2> SUFFICES ASSUME HalfWritten(q)
               PROVE  Exists(q)' /\ (req[q].at = "sidecar" => IsWhole(Digest(q))')
    BY DEF HalfWritten
  <2>1. PICK d : d = Digest(q)
    OBVIOUS
  <2>2. d \in Digests /\ objects[d] # <<>> /\ (req[q].at = "sidecar" => IsWhole(d))
    BY <2>1, PuttingDigest DEF Putting, Knows, Exists, HalfWritten
  <2>3. Digest(q)' = d
    BY <2>1 DEF Digest, Documents
  <2>4. objects'[d] # <<>> /\ (req[q].at = "sidecar" => IsWhole(d)')
    BY <2>2 DEF Grows
  <2>5. QED
    BY <2>3, <2>4 DEF Exists, IsWhole
<1>6. req'[q].at = "recorded" => IsOnRecord(m, ProviderMessageId(q))'
  <2>1. ProviderMessageId(q)' = ProviderMessageId(q)
    BY DEF ProviderMessageId, MailOf, TokenOf, Grows
  <2>2. req[q].at = "recorded" => IsOnRecord(m, ProviderMessageId(q))
    BY DEF Knows
  <2>3. QED
    BY <2>1, <2>2 DEF Grows, IsOnRecord
<1>7. QED
  BY <1>1, <1>2, <1>3, <1>4, <1>5, <1>6 DEF Knows, MailOf

\* A request that is over, or has just begun, knows nothing.
LEMMA BeginsKnowing ==
  ASSUME NEW q \in Requests, req'[q].at \in {"idle", "verify"},
         req'[q].read = {}, req'[q].done = 0
  PROVE  Knows(q)'
BY DEF Knows, Putting, Storing, Checked, Read, HalfWritten

\* The next document comes when the last one is there.
LEMMA NextKnows ==
  ASSUME Shapes, Grows, NEW q \in Requests, Knows(q), req[q].at \in Putting,
         NextDocument(q), objects'[Digest(q)] # <<>>
  PROVE  Knows(q)'
<1> DEFINE m == req[q].message
           n == req[q].done
<1>1. RowIs(q, "store", req[q].set, req[q].read, req[q].outcome, n + 1)
  BY NextDocumentRow
<1>2. /\ req'[q].at = "store" /\ req'[q].set = req[q].set /\ req'[q].read = req[q].read
      /\ req'[q].outcome = req[q].outcome /\ req'[q].done = n + 1 /\ req'[q].message = m
  BY <1>1 DEF RowIs
<1>3. /\ m \in Messages /\ n \in Nat
      /\ n + 1 \in DOMAIN Listed(m) /\ Digest(q) = Listed(m)[n + 1].sha256
  BY PuttingDigest DEF Shapes, IsRequest
<1>4. /\ DOMAIN Listed(m) = 1..Len(Listed(m)) /\ Len(Listed(m)) \in Nat
      /\ \A j \in DOMAIN Listed(m) : Listed(m)[j].sha256 \in Digests
  BY <1>3, ListedParts, ListParts
<1>5. n + 1 <= Len(Listed(m))
  BY ONLY <1>3, <1>4
<1>6. \A j \in 1..(n + 1) : objects'[Listed(m)[j].sha256] # <<>>
  <2>1. \A j \in 1..n : objects[Listed(m)[j].sha256] # <<>>
    BY DEF Knows, Storing
  <2>2. \A j \in 1..(n + 1) : j \in DOMAIN Listed(m) /\ (j = n + 1 \/ j \in 1..n)
    BY ONLY <1>3, <1>4, <1>5
  <2>3. QED
    BY <1>3, <1>4, <2>1, <2>2 DEF Grows
<1>7. req'[q].outcome = IngestMessage(mail'[m])
  BY <1>2 DEF Knows, Grows, MailOf, Putting, Storing, Checked, Read
<1>8. req'[q].read \subseteq IdsWritten' /\ req'[q].set \in Requests
  BY <1>2, OnRecordStays DEF Knows, Storing, Checked
<1> HIDE DEF m, n
<1>9. QED
  BY <1>2, <1>5, <1>6, <1>7, <1>8, ListedStays DEF Knows, MailOf, Putting, HalfWritten

\* A request that only moves on with what it has.
LEMMA MovesKnowing ==
  ASSUME Shapes, Grows, NEW q \in Requests, Knows(q), NEW at,
         RowIs(q, at, req[q].set, req[q].read, req[q].outcome, req[q].done),
         \/ at = "store" /\ req[q].at = "check"
         \/ at \in Putting /\ req[q].at \in Storing
              /\ req[q].done < Len(Listed(req[q].message))
              /\ (at \in {"writing", "sidecar"} => objects'[Digest(q)] # <<>>)
              /\ (at = "sidecar" => \E d : d = Digest(q) /\ IsWhole(d)')
         \/ at = "recorded" /\ req[q].at = "store"
              /\ IsOnRecord(req[q].message, ProviderMessageId(q))'
  PROVE  Knows(q)'
<1> DEFINE m == req[q].message
           n == req[q].done
<1>2. /\ req'[q].at = at /\ req'[q].set = req[q].set /\ req'[q].read = req[q].read
      /\ req'[q].outcome = req[q].outcome /\ req'[q].done = n /\ req'[q].message = m
      /\ req'[q].token = req[q].token
  BY DEF RowIs
<1>3. m \in Messages /\ n \in Nat
  BY DEF Shapes, IsRequest, Storing, Putting
<1>4. /\ DOMAIN Listed(m) = 1..Len(Listed(m)) /\ Len(Listed(m)) \in Nat
      /\ \A j \in DOMAIN Listed(m) : Listed(m)[j].sha256 \in Digests
  BY <1>3, ListedParts, ListParts
<1>5. at \in Storing =>
        /\ n <= Len(Listed(m))
        /\ \A j \in 1..n : objects'[Listed(m)[j].sha256] # <<>>
  <2>1. CASE req[q].at = "check"
    <3>1. n = 0
      BY <2>1 DEF Knows
    <3>2. QED
      BY <1>4, <3>1
  <2>2. CASE req[q].at \in Storing
    <3>1. n <= Len(Listed(m)) /\ \A j \in 1..n : objects[Listed(m)[j].sha256] # <<>>
      BY <2>2 DEF Knows
    <3>2. \A j \in 1..n : j \in DOMAIN Listed(m)
      BY ONLY <1>3, <1>4, <3>1
    <3>3. QED
      BY <1>4, <3>1, <3>2 DEF Grows
  <2>3. QED
    BY <2>1, <2>2 DEF Storing, Putting
<1>6. at \in Putting => n < Len(Listed(m))
  BY DEF Putting
<1>7. req'[q].outcome = IngestMessage(mail'[m])
  BY <1>2 DEF Knows, Grows, MailOf, Putting, Storing, Checked, Read
<1>8. req'[q].read \subseteq IdsWritten' /\ req'[q].set \in Requests
  BY <1>2, OnRecordStays DEF Knows, Storing, Checked, Putting
<1>9. /\ HalfWritten(q)' => Exists(q)'
      /\ at = "sidecar" => IsWhole(Digest(q))'
  <2>1. Digest(q)' = Digest(q)
    BY <1>2 DEF Digest, Documents
  <2>2. HalfWritten(q)' => at \in {"writing", "sidecar"}
    BY <1>2 DEF HalfWritten
  <2>3. HalfWritten(q)' => Exists(q)'
    BY <2>1, <2>2 DEF Exists, Putting
  <2>4. ASSUME at = "sidecar"
        PROVE  IsWhole(Digest(q))'
    <3>1. PICK d : d = Digest(q) /\ IsWhole(d)'
      BY <2>4 DEF Putting
    <3>2. QED
      BY <2>1, <3>1 DEF IsWhole
  <2>5. QED
    BY <2>3, <2>4
<1>10. at = "recorded" => IsOnRecord(m, ProviderMessageId(q))'
  BY DEF Putting
<1>11. at \notin {"verify", "load", "loaded", "check"}
  BY DEF Putting
<1>12. mail' = mail
  BY DEF Grows
<1>13. /\ Listed(req[q].message)' = Listed(m)
       /\ IsOnRecord(req[q].message, ProviderMessageId(q))' = IsOnRecord(m, ProviderMessageId(q))'
  BY <1>2, <1>12 DEF Listed, IsOnRecord
<1>14. IngestMessage(MailOf(q))' = IngestMessage(mail'[m])
  BY <1>2 DEF MailOf
<1> HIDE DEF m, n
<1>15. req'[q].at \in Storing =>
         /\ req'[q].done <= Len(Listed(req[q].message)')
         /\ \A j \in 1..req'[q].done : objects'[(Listed(req[q].message)')[j].sha256] # <<>>
  BY <1>2, <1>5, <1>13
<1>16. req'[q].at \in Putting => req'[q].done < Len(Listed(req[q].message)')
  BY <1>2, <1>6, <1>13
<1>17. req'[q].at = "recorded" => IsOnRecord(req[q].message, ProviderMessageId(q))'
  BY <1>2, <1>10, <1>13
<1>18. QED
  BY <1>2, <1>7, <1>8, <1>9, <1>11, <1>14, <1>15, <1>16, <1>17 DEF Knows

\* How many lines a message has: one for each document, and at least one.
LEMMA LinesAre ==
  ASSUME Shapes, NEW q \in Requests, Knows(q), req[q].at \in Read
  PROVE  /\ req[q].message \in Messages
         /\ Documents(q) = Listed(req[q].message)
         /\ NumberOfLines(q) \in Nat /\ NumberOfLines(q) > 0
         /\ DOMAIN Documents(q) \subseteq 1..NumberOfLines(q)
<1> DEFINE docs == Listed(req[q].message)
<1>1. req[q].message \in Messages
  BY DEF Shapes, IsRequest, Read, Checked, Storing, Putting
<1>2. Documents(q) = docs
  BY DEF Knows, Documents, Listed, MailOf
<1>3. IsList(docs)
  BY <1>1, ListedParts
<1>4. Len(docs) \in Nat /\ DOMAIN docs = 1..Len(docs)
  BY <1>3, ListParts
<1>5. docs # <<>> => Len(docs) # 0
  BY <1>3, EmptySeq DEF IsList
<1> HIDE DEF docs
<1>6. NumberOfLines(q) = IF docs = <<>> THEN 1 ELSE Len(docs)
  BY <1>2 DEF NumberOfLines
<1>7. docs = <<>> => DOMAIN docs = {}
  OBVIOUS
<1>8. NumberOfLines(q) \in Nat /\ NumberOfLines(q) > 0
  BY ONLY <1>4, <1>5, <1>6
<1>9. DOMAIN docs \subseteq 1..NumberOfLines(q)
  <2>1. CASE docs = <<>>
    BY <1>7, <2>1
  <2>2. CASE docs # <<>>
    BY ONLY <1>4, <1>6, <2>2
  <2>3. QED
    BY <2>1, <2>2
<1>10. QED
  BY <1>1, <1>2, <1>8, <1>9 DEF docs

LEMMA KnowsStep ==
  ASSUME IInv, [Next]_vars
  PROVE  \A q \in Requests : Knows(q)'
<1>a. Shapes /\ ObjectsKnown /\ RecordsKnown /\ ProcessKnows /\ Grows
  BY GrowsStep DEF IInv
<1>b. \A q \in Requests : Knows(q)
  BY DEF IInv
<1>c. /\ \A p \in Requests : proc.seen = p \/ proc.seen # p
      /\ proc.seen \in Requests \cup {None}
  BY <1>a DEF Shapes, IsProcess
<1> DEFINE Goal == \A q \in Requests : Knows(q)'
<1>1. ASSUME NEW q \in Requests, Knows(q)', \A p \in Requests : p # q => req'[p] = req[p]
      PROVE  Goal
  BY <1>a, <1>b, <1>1, KnowsStays
<1> HIDE DEF Goal
<1>2. ASSUME NEW q \in Requests, Over(q)
      PROVE  Goal
  <2>1. req'[q].at = "idle" /\ req'[q].read = {} /\ req'[q].done = 0
    BY <1>2 DEF Over, Idle
  <2>2. QED
    BY <1>1, <1>2, <2>1, BeginsKnowing DEF Over
<1>3. ASSUME NEW q \in Requests, NEW at, RowIs(q, at, req[q].set, req[q].read,
                                              req[q].outcome, req[q].done),
             \/ at = "store" /\ req[q].at = "check"
             \/ at \in Putting /\ req[q].at \in Storing
                  /\ req[q].done < Len(Listed(req[q].message))
                  /\ (at \in {"writing", "sidecar"} => objects'[Digest(q)] # <<>>)
                  /\ (at = "sidecar" => \E d : d = Digest(q) /\ IsWhole(d)')
             \/ at = "recorded" /\ req[q].at = "store"
                  /\ IsOnRecord(req[q].message, ProviderMessageId(q))'
      PROVE  Goal
  <2>1. Knows(q)'
    BY <1>a, <1>b, <1>3, MovesKnowing
  <2>2. QED
    BY <1>1, <1>3, <2>1 DEF RowIs
<1>4. ASSUME NEW q \in Requests, req[q].at \in Putting, NextDocument(q),
             objects'[Digest(q)] # <<>>
      PROVE  Goal
  <2>1. Knows(q)'
    BY <1>a, <1>b, <1>4, NextKnows
  <2>2. \A p \in Requests : p # q => req'[p] = req[p]
    BY <1>a, <1>4, NextDocumentRow DEF RowIs
  <2>3. QED
    BY <1>1, <2>1, <2>2
<1>5. ASSUME NEW q \in Requests, Answered(q)
      PROVE  Goal
  BY <1>a, <1>2, <1>5, AnsweredRow
<1>6. ASSUME NEW q \in Requests, NEW m \in Messages, Deliver(q, m)
      PROVE  Goal
  <2>1. /\ req'[q].at = "verify" /\ req'[q].read = {} /\ req'[q].done = 0
        /\ \A p \in Requests : p # q => req'[p] = req[p]
    BY <1>a, <1>6, DeliverRow
  <2>2. QED
    BY <1>1, <2>1, BeginsKnowing
<1>7. ASSUME NEW q \in Requests, Verify(q)
      PROVE  Goal
  <2>1. CASE VerifiedRow(q)
    <3>0. req[q].at = "verify"
      BY <1>7 DEF Verify
    <3>1. /\ req'[q].at = IF proc.seen = None THEN "load" ELSE "check"
          /\ req'[q].set = proc.seen /\ req'[q].read = req[q].read
          /\ req'[q].outcome = IngestMessage(MailOf(q)) /\ req'[q].done = req[q].done
          /\ req'[q].message = req[q].message
          /\ \A p \in Requests : p # q => req'[p] = req[p]
      BY <2>1 DEF VerifiedRow, RowIs
    <3>2. req[q].done = 0 /\ req[q].read \subseteq IdsWritten
      BY <1>b, <3>0 DEF Knows
    <3>3. MailOf(q) = mail'[req'[q].message]
      BY <1>a, <3>1 DEF MailOf, Grows
    <3>4. req'[q].read \subseteq IdsWritten'
      BY <1>a, <3>1, <3>2, OnRecordStays
    <3>5. req'[q].at = "check" => req'[q].set \in Requests
      BY <1>c, <3>1
    <3>6. Knows(q)'
      BY <3>1, <3>2, <3>3, <3>4, <3>5
         DEF Knows, MailOf, Putting, Storing, Checked, HalfWritten
    <3>7. QED
      BY <1>1, <3>1, <3>6
  <2>2. QED
    BY <1>2, <1>7, <1>a, <2>1, VerifyRow
<1>8. ASSUME NEW q \in Requests, ReadRecords(q)
      PROVE  Goal
  <2>1. /\ req'[q].at = "loaded" /\ req'[q].read = IdsOnRecord
        /\ req'[q].outcome = req[q].outcome /\ req'[q].done = req[q].done
        /\ req'[q].message = req[q].message
        /\ \A p \in Requests : p # q => req'[p] = req[p]
    BY <1>a, <1>8, ReadRow DEF RowIs
  <2>2. req[q].done = 0 /\ req[q].outcome = IngestMessage(mail'[req'[q].message])
    BY <1>a, <1>b, <1>8, <2>1 DEF Knows, ReadRecords, Read, Grows, MailOf
  <2>3. req'[q].read \subseteq IdsWritten'
    BY <1>a, <2>1, OnRecordStays, IdsAreWritten
  <2>4. Knows(q)'
    BY <2>1, <2>2, <2>3 DEF Knows, MailOf, Putting, Storing, Checked, HalfWritten
  <2>5. QED
    BY <1>1, <2>1, <2>4
<1>9. ASSUME NEW q \in Requests, LoadSeen(q)
      PROVE  Goal
  <2>1. /\ req'[q].at = "check" /\ req'[q].read = {} /\ req'[q].set = q
        /\ req'[q].outcome = req[q].outcome /\ req'[q].done = req[q].done
        /\ req'[q].message = req[q].message
        /\ \A p \in Requests : p # q => req'[p] = req[p]
    BY <1>a, <1>9, LoadRow DEF RowIs
  <2>2. req[q].done = 0 /\ req[q].outcome = IngestMessage(mail'[req'[q].message])
    BY <1>a, <1>b, <1>9, <2>1 DEF Knows, LoadSeen, Read, Grows, MailOf
  <2>3. Knows(q)'
    BY <2>1, <2>2 DEF Knows, MailOf, Putting, Storing, Checked, HalfWritten
  <2>4. QED
    BY <1>1, <2>1, <2>3
<1>10. ASSUME NEW q \in Requests, Check(q)
       PROVE  Goal
  BY <1>a, <1>3, <1>5, <1>10, GoesRow DEF Check
<1>11. ASSUME NEW q \in Requests, PutObject(q)
       PROVE  Goal
  <2>1. req[q].done < Len(Listed(req[q].message)) /\ req[q].at \in Storing
    <3>1. /\ req[q].message \in Messages /\ req[q].done \in Nat
          /\ req[q].at = "store" /\ req[q].at \in Storing /\ req[q].at \in Read
      BY <1>a, <1>11 DEF PutObject, Shapes, IsRequest, Storing, Checked, Read
    <3>2. req[q].done <= Len(Listed(req[q].message))
      BY <1>b, <3>1 DEF Knows
    <3>3. Len(Listed(req[q].message)) \in Nat
      BY <1>a, <3>1, ListedParts, ListParts
    <3>4. req[q].done # Len(Listed(req[q].message))
      BY <1>b, <1>11, <3>1 DEF Knows, PutObject, Stored, Documents, Listed, MailOf
    <3>5. QED
      BY ONLY <3>1, <3>2, <3>3, <3>4
  <2>2. ASSUME NEW at \in {"write", "put if none", "head"}, Goes(q, at)
        PROVE  Goal
    BY <1>a, <1>3, <2>1, <2>2, GoesRow DEF Putting
  <2>3. QED
    BY <1>11, <2>2 DEF PutObject
<1>12. ASSUME NEW q \in Requests, AppendRecords(q)
       PROVE  Goal
  <2>1. RowIs(q, "recorded", req[q].set, req[q].read, req[q].outcome, req[q].done)
    BY <1>a, <1>12, GoesRow DEF AppendRecords
  <2>2. req'[q].message = req[q].message /\ req'[q].token = req[q].token
    BY <2>1 DEF RowIs
  <2>3. ProviderMessageId(q)' = ProviderMessageId(q)
    BY <1>a, <2>2 DEF ProviderMessageId, MailOf, TokenOf, Grows
  <2>4. PICK e : e = Entry(q, NumberOfLines(q), "nowhere")
    OBVIOUS
  <2>5. records' = Append(records, e)
    BY <1>12, <2>4 DEF AppendRecords
  <2>6. e.message = req[q].message /\ e.id = ProviderMessageId(q) /\ e.lines = NumberOfLines(q)
    BY <2>4 DEF Entry
  <2>7. NumberOfLines(q) > 0
    BY <1>a, <1>b, <1>12, LinesAre DEF AppendRecords, Read, Checked, Storing
  <2>8. records \in Seq(ToSet(records) \cup {e})
    BY <1>a, SeqMonotonic DEF RecordsKnown
  <2>9. Len(records) + 1 \in DOMAIN records' /\ records'[Len(records) + 1] = e
    BY <2>5, <2>8, AppendParts
  <2>10. IsOnRecord(req[q].message, ProviderMessageId(q))'
    BY <2>2, <2>3, <2>6, <2>7, <2>9 DEF IsOnRecord
  <2>11. QED
    BY <1>3, <1>12, <2>1, <2>10 DEF AppendRecords
<1>13. ASSUME NEW q \in Requests, Answer(q) \/ Fails(q) \/ CutAnswered(q)
       PROVE  Goal
  BY <1>5, <1>13 DEF Answer, Fails, CutAnswered
<1>14. ASSUME NEW q \in Requests,
              \/ CreateFile(q) \/ WriteBytes(q) \/ WriteSidecar(q) \/ PutIfNone(q)
              \/ HeadObject(q) \/ PutPlain(q)
       PROVE  Goal
  <2>1. req[q].at \in Putting /\ req[q].at \in Storing
    BY <1>14
       DEF CreateFile, WriteBytes, WriteSidecar, PutIfNone, HeadObject, PutPlain, Putting,
           Storing
  <2>2. Digest(q) \in Digests
    BY <1>a, <1>b, <2>1, PuttingDigest
  <2>3. Exists(q) => objects'[Digest(q)] # <<>>
    BY <1>a, <2>2 DEF Exists, Grows
  <2>4. ASSUME NEW r \in BOOLEAN, NewVersion(q, r), r \/ ~ Exists(q)
        PROVE  objects'[Digest(q)] # <<>>
    BY <1>a, <1>b, <2>1, <2>4, VersionAdded DEF FileChanges
  <2>5. ASSUME NEW at \in {"writing", "sidecar", "head", "put"}, Goes(q, at),
               at \in {"writing", "sidecar"} => objects'[Digest(q)] # <<>>,
               at = "sidecar" => \E d : d = Digest(q) /\ IsWhole(d)'
        PROVE  Goal
    <3>1. req[q].done < Len(Listed(req[q].message))
      BY <1>b, <2>1 DEF Knows
    <3>2. RowIs(q, at, req[q].set, req[q].read, req[q].outcome, req[q].done)
      BY <1>a, <2>5, GoesRow
    <3>3. at \in Putting
      BY DEF Putting
    <3>4. QED
      BY <1>3, <2>1, <2>5, <3>1, <3>2, <3>3
  <2>6. CASE CreateFile(q)
    BY <1>4, <2>1, <2>3, <2>4, <2>5, <2>6 DEF CreateFile
  <2>7. ASSUME WriteBytes(q) \/ WriteSidecar(q)
        PROVE  \E d : d = Digest(q) /\ IsWhole(d)' /\ objects'[d] # <<>>
    BY <1>a, <1>b, <2>7, FileFilled DEF FileChanges
  <2>8. CASE WriteBytes(q)
    BY <2>5, <2>7, <2>8 DEF WriteBytes
  <2>9. CASE WriteSidecar(q)
    BY <1>4, <2>1, <2>7, <2>9 DEF WriteSidecar
  <2>10. CASE PutIfNone(q)
    BY <1>4, <2>1, <2>3, <2>4, <2>5, <2>10 DEF PutIfNone
  <2>11. CASE HeadObject(q)
    BY <1>4, <2>1, <2>3, <2>5, <2>11 DEF HeadObject
  <2>12. CASE PutPlain(q)
    BY <1>4, <2>1, <2>4, <2>12 DEF PutPlain
  <2>13. QED
    BY <1>14, <2>6, <2>8, <2>9, <2>10, <2>11, <2>12
<1>15. CASE UNCHANGED req
  BY <1>a, <1>b, <1>15, KnowsStays DEF Goal
<1>16. CASE Stops
  <2>1. ASSUME NEW q \in Requests
        PROVE  req'[q].at = "idle" /\ req'[q].read = {} /\ req'[q].done = 0
    BY <1>16 DEF Stops, Idle
  <2>2. QED
    BY <2>1, BeginsKnowing DEF Goal
<1>17. QED
  BY <1>6, <1>7, <1>8, <1>9, <1>10, <1>11, <1>12, <1>13, <1>14, <1>15, <1>16, SomeoneActs
     DEF Acts, Goal

LEMMA OneActs ==
  ASSUME Shapes, [Next]_vars
  PROVE  \/ Stops
         \/ UNCHANGED <<req, proc, disk, acked, failures>>
         \/ \E q \in Requests : Acts(q) /\ \A p \in Requests : p # q => req'[p] = req[p]
<1>1. ASSUME NEW q \in Requests, Acts(q)
      PROVE  \A p \in Requests : p # q => req'[p] = req[p]
  <2> DEFINE Goal == \A p \in Requests : p # q => req'[p] = req[p]
  <2>1. (\E m \in Messages : Deliver(q, m)) => Goal
    BY DeliverRow
  <2>2. Verify(q) => Goal
    BY VerifyRow DEF Over, VerifiedRow, RowIs
  <2>3. ReadRecords(q) \/ LoadSeen(q) => Goal
    BY ReadRow, LoadRow DEF RowIs
  <2>4. \A at : Goes(q, at) => Goal
    BY GoesRow DEF RowIs
  <2>5. Answered(q) \/ NextDocument(q) => Goal
    BY AnsweredRow, NextDocumentRow DEF RowIs, Over
  <2> HIDE DEF Goal
  <2>6. Check(q) \/ PutObject(q) \/ AppendRecords(q) \/ Answer(q) \/ Fails(q)
          \/ CutAnswered(q) => Goal
    BY <2>4, <2>5 DEF Check, PutObject, AppendRecords, Answer, Fails, CutAnswered
  <2>7. CreateFile(q) \/ WriteBytes(q) \/ WriteSidecar(q) \/ PutIfNone(q) => Goal
    BY <2>4, <2>5 DEF CreateFile, WriteBytes, WriteSidecar, PutIfNone
  <2>8. HeadObject(q) \/ PutPlain(q) => Goal
    BY <2>4, <2>5 DEF HeadObject, PutPlain
  <2>9. Goal
    BY <1>1, <2>1, <2>2, <2>3, <2>6, <2>7, <2>8 DEF Acts
  <2>10. QED
    BY <2>9 DEF Goal
<1>2. QED
  BY <1>1, SomeoneActs

LEMMA StoreStepsStep ==
  ASSUME IInv, [Next]_vars
  PROVE  \A q \in Requests : StoreSteps(q)'
<1>a. Shapes /\ ProcessKnows /\ Grows /\ \A q \in Requests : StoreSteps(q)
  BY GrowsStep DEF IInv
<1>b. backend' = backend /\ backend \in {"files", "s3", "s3 plain"}
  BY <1>a DEF Grows, Shapes
<1>1. ASSUME NEW q \in Requests, req'[q] = req[q]
      PROVE  StoreSteps(q)'
  BY <1>a, <1>b, <1>1 DEF StoreSteps
<1>2. ASSUME NEW q \in Requests,
             req'[q].at \notin {"write", "writing", "sidecar", "put if none", "head", "put"}
      PROVE  StoreSteps(q)'
  BY <1>2 DEF StoreSteps
<1>3. ASSUME NEW q \in Requests, Acts(q)
      PROVE  StoreSteps(q)'
  <2>1. ASSUME NEW at, Goes(q, at) PROVE req'[q].at = at
    BY <1>a, <2>1, GoesRow DEF RowIs
  <2>2. Answered(q) => req'[q].at = "idle"
    BY <1>a, AnsweredRow DEF Over, Idle
  <2>3. NextDocument(q) => req'[q].at = "store"
    BY <1>a, NextDocumentRow DEF RowIs
  <2>4. (\E m \in Messages : Deliver(q, m)) => StoreSteps(q)'
    BY <1>a, <1>2, DeliverRow
  <2>5. Verify(q) => StoreSteps(q)'
    <3>1. Over(q) => req'[q].at = "idle"
      BY DEF Over, Idle
    <3>2. VerifiedRow(q) => req'[q].at \in {"load", "check"}
      BY DEF VerifiedRow, RowIs
    <3>3. QED
      BY <1>a, <1>2, <3>1, <3>2, VerifyRow
  <2>6. ReadRecords(q) \/ LoadSeen(q) => StoreSteps(q)'
    BY <1>a, <1>2, ReadRow, LoadRow DEF RowIs
  <2>7. Check(q) \/ AppendRecords(q) \/ Answer(q) \/ Fails(q) \/ CutAnswered(q)
          => StoreSteps(q)'
    BY <1>2, <2>1, <2>2 DEF Check, AppendRecords, Answer, Fails, CutAnswered
  <2>8. PutObject(q) => StoreSteps(q)'
    <3>1. PutObject(q) => \/ Goes(q, "write") /\ backend = "files"
                          \/ Goes(q, "put if none") /\ backend # "files"
                          \/ Goes(q, "head") /\ backend = "s3 plain"
      BY <1>a DEF PutObject, ProcessKnows, Shapes, IsProcess
    <3>2. PutObject(q) => \/ req'[q].at = "write" /\ backend' = "files"
                          \/ req'[q].at = "put if none" /\ backend' \in {"s3", "s3 plain"}
                          \/ req'[q].at = "head" /\ backend' = "s3 plain"
      <4>1. \A at : Goes(q, at) => req'[q].at = at
        BY <2>1
      <4>2. backend # "files" => backend \in {"s3", "s3 plain"}
        BY <1>b
      <4>3. QED
        BY ONLY <1>b, <3>1, <4>1, <4>2
    <3>3. QED
      BY <3>2 DEF StoreSteps
  <2>9. CreateFile(q) \/ WriteBytes(q) \/ WriteSidecar(q) => StoreSteps(q)'
    BY <1>a, <1>b, <2>1, <2>3 DEF CreateFile, WriteBytes, WriteSidecar, StoreSteps
  <2>10. PutIfNone(q) \/ HeadObject(q) \/ PutPlain(q) => StoreSteps(q)'
    BY <1>a, <1>b, <2>1, <2>3 DEF PutIfNone, HeadObject, PutPlain, StoreSteps
  <2>11. QED
    BY <1>3, <2>4, <2>5, <2>6, <2>7, <2>8, <2>9, <2>10 DEF Acts
<1>4. CASE Stops
  BY <1>2, <1>4 DEF Stops, Idle
<1>5. QED
  BY <1>a, <1>1, <1>3, <1>4, OneActs

LEMMA ProcessKnowsStep ==
  ASSUME IInv, [Next]_vars
  PROVE  ProcessKnows'
<1>a. Shapes /\ ProcessKnows /\ Grows /\ \A q \in Requests : Knows(q)
  BY GrowsStep DEF IInv
<1>b. backend' = backend /\ IdsWritten \subseteq IdsWritten'
  BY <1>a, OnRecordStays DEF Grows
<1>c. proc.sets = [p \in Requests |-> proc.sets[p]]
  BY <1>a DEF Shapes, IsProcess
<1>1. ASSUME proc'.sets = proc.sets, proc'.conditionalWrites = proc.conditionalWrites
      PROVE  ProcessKnows'
  BY <1>a, <1>b, <1>1 DEF ProcessKnows
<1>2. ASSUME NEW q \in Requests, NEW ids, ids \subseteq IdsWritten,
             proc'.sets = [proc.sets EXCEPT ![q] = ids]
      PROVE  \A p \in Requests : proc'.sets[p] \subseteq IdsWritten'
  <2>1. \A p \in Requests : proc'.sets[p] = IF p = q THEN ids ELSE proc.sets[p]
    BY <1>c, <1>2
  <2>2. QED
    BY <1>a, <1>b, <1>2, <2>1 DEF ProcessKnows
<1>3. ASSUME NEW q \in Requests, Verify(q)
      PROVE  ProcessKnows'
  BY <1>a, <1>1, <1>3, VerifyMemory DEF MemoryIs
<1>4. ASSUME NEW q \in Requests, LoadSeen(q)
      PROVE  ProcessKnows'
  <2>1. proc'.sets = [proc.sets EXCEPT ![q] = req[q].read]
        /\ proc'.conditionalWrites = proc.conditionalWrites
    BY <1>a, <1>4, LoadMemory DEF MemoryIs
  <2>2. req[q].read \subseteq IdsWritten
    BY <1>a DEF Knows
  <2>3. \A p \in Requests : proc'.sets[p] \subseteq IdsWritten'
    BY <1>2, <2>1, <2>2
  <2>4. QED
    BY <1>a, <1>b, <2>1, <2>3 DEF ProcessKnows
<1>5. ASSUME NEW q \in Requests, Answer(q)
      PROVE  ProcessKnows'
  <2>1. CASE ProviderMessageId(q) # None
    <3> DEFINE id == ProviderMessageId(q)
               set == req[q].set
    <3>1. /\ proc'.sets = [proc.sets EXCEPT ![set] = @ \cup {id}]
          /\ proc'.conditionalWrites = proc.conditionalWrites
      BY <1>a, <1>5, <2>1, AnswerMemory DEF MemoryIs
    <3>2. set \in Requests /\ IsOnRecord(req[q].message, id)
      BY <1>a, <1>5 DEF Answer, Knows, Checked
    <3>3. id \in IdsWritten
      BY <3>2 DEF IsOnRecord, IdsWritten
    <3>4. proc.sets[set] \cup {id} \subseteq IdsWritten
      BY <1>a, <3>2, <3>3 DEF ProcessKnows
    <3> HIDE DEF id, set
    <3>5. proc'.sets = [proc.sets EXCEPT ![set] = proc.sets[set] \cup {id}]
      BY <3>1
    <3>6. \A p \in Requests : proc'.sets[p] \subseteq IdsWritten'
      BY <1>2, <3>2, <3>4, <3>5
    <3>7. QED
      BY <1>a, <1>b, <3>1, <3>6 DEF ProcessKnows
  <2>2. CASE ProviderMessageId(q) = None
    BY <1>1, <1>5, <2>2 DEF Answer
  <2>3. QED
    BY <2>1, <2>2
<1>6. ASSUME NEW q \in Requests, PutIfNone(q)
      PROVE  ProcessKnows'
  <2>1. CASE backend = "s3 plain"
    <3>1. proc'.sets = proc.sets
      BY <1>a, <1>6, <2>1, PlainMemory DEF MemoryIs
    <3>2. QED
      BY <1>a, <1>b, <2>1, <3>1 DEF ProcessKnows
  <2>2. CASE backend # "s3 plain"
    BY <1>1, <1>6, <2>2 DEF PutIfNone
  <2>3. QED
    BY <2>1, <2>2
<1>7. CASE Stops
  <2>1. proc' = Started
    BY <1>7 DEF Stops
  <2>2. (\A p \in Requests : Started.sets[p] = {}) /\ Started.conditionalWrites
    BY DEF Started
  <2>3. QED
    BY <2>1, <2>2 DEF ProcessKnows
<1>8. CASE proc' = proc
  BY <1>1, <1>8
<1>9. QED
  BY <1>3, <1>4, <1>5, <1>6, <1>7, <1>8, SomeoneActs
     DEF Acts, Deliver, ReadRecords, Check, PutObject, AppendRecords, CreateFile,
         WriteBytes, WriteSidecar, HeadObject, PutPlain, Fails, CutAnswered

\* A file that somebody is writing goes on being written, gets its sidecar, or
\* is broken from now on.
LEMMA HalfWrittenStays ==
  ASSUME IInv, [Next]_vars, NEW q \in Requests, HalfWritten(q), NEW d, d = Digest(q)
  PROVE  \/ HalfWritten(q)' /\ Digest(q)' = d
         \/ d \in broken'
         \/ WriteSidecar(q)
<1>a. Shapes /\ req[q].at \in {"writing", "sidecar"}
  BY DEF IInv, HalfWritten
<1>1. ASSUME Acts(q)
      PROVE  WriteBytes(q) \/ WriteSidecar(q) \/ Fails(q)
  <2>1. ~ \E m \in Messages : Deliver(q, m)
    <3>1. \A m \in Messages : Deliver(q, m) => req[q] = Idle
      BY DEF Deliver
    <3>2. Idle.at = "idle"
      BY DEF Idle
    <3>3. QED
      BY <1>a, <3>1, <3>2
  <2>2. /\ Verify(q) => req[q].at = "verify"
        /\ ReadRecords(q) => req[q].at = "load"
        /\ LoadSeen(q) => req[q].at = "loaded"
        /\ Check(q) => req[q].at = "check"
    BY DEF Verify, ReadRecords, LoadSeen, Check
  <2>3. /\ PutObject(q) \/ AppendRecords(q) \/ CutAnswered(q) => req[q].at = "store"
        /\ Answer(q) => req[q].at = "recorded"
        /\ CreateFile(q) => req[q].at = "write"
    BY DEF PutObject, AppendRecords, CutAnswered, AppendIsCut, Answer, CreateFile
  <2>4. /\ PutIfNone(q) => req[q].at = "put if none"
        /\ HeadObject(q) => req[q].at = "head"
        /\ PutPlain(q) => req[q].at = "put"
    BY DEF PutIfNone, HeadObject, PutPlain
  <2>5. QED
    BY <1>a, <1>1, <2>1, <2>2, <2>3, <2>4 DEF Acts
<1>2. WriteBytes(q) => HalfWritten(q)' /\ Digest(q)' = d
  <2>1. ASSUME WriteBytes(q)
        PROVE  RowIs(q, "sidecar", req[q].set, req[q].read, req[q].outcome, req[q].done)
    BY <1>a, <2>1, GoesRow DEF WriteBytes
  <2>2. QED
    BY <2>1 DEF RowIs, HalfWritten, Digest, Documents
<1>3. Fails(q) \/ Stops => d \in broken'
  BY DEF Fails, Stops, BreaksOff
<1>4. req'[q] = req[q] => HalfWritten(q)' /\ Digest(q)' = d
  BY DEF HalfWritten, Digest, Documents
<1>5. QED
  BY <1>a, <1>1, <1>2, <1>3, <1>4, OneActs

LEMMA ObjectsStep ==
  ASSUME IInv, [Next]_vars
  PROVE  ObjectsKnown'
<1>a. /\ Shapes /\ ObjectsKnown /\ Grows
      /\ \A q \in Requests : Knows(q) /\ StoreSteps(q)
  BY GrowsStep DEF IInv
<1>b. /\ backend' = backend
      /\ \A d \in Digests :
           /\ objects[d] \in Seq(Versions)
           /\ backend # "s3 plain" => Len(objects[d]) <= 1
           /\ objects[d] # <<>> => IsKept(d)
  BY <1>a DEF ObjectsKnown, Grows
<1> DEFINE IsKnown(d) == /\ objects'[d] \in Seq(Versions)
                         /\ backend' # "s3 plain" => Len(objects'[d]) <= 1
                         /\ objects'[d] # <<>> => IsKept(d)'
<1>0. ASSUME objects' = [d \in Digests |-> objects'[d]], \A d \in Digests : IsKnown(d)
      PROVE  ObjectsKnown'
  BY <1>0 DEF ObjectsKnown
<1>s. ASSUME NEW p \in Requests, WriteSidecar(p)
      PROVE  req[p].at = "sidecar" /\ req'[p] # req[p]
  BY <1>a, <1>s, NextDocumentRow DEF WriteSidecar, RowIs
\* What is kept by something else than the step stays kept.
<1>1. ASSUME NEW d \in Digests, objects[d] # <<>>, objects'[d] = objects[d],
             \A q \in Requests : WriteSidecar(q) => Digest(q) # d
      PROVE  IsKept(d)'
  <2>1. CASE \E i \in DOMAIN objects[d] : objects[d][i].whole /\ objects[d][i].retained
    BY <1>1, <2>1 DEF IsKept
  <2>2. CASE backend = "files" /\ d \in broken
    BY <1>a, <2>2 DEF IsKept, Grows
  <2>3. ASSUME NEW q \in Requests, HalfWritten(q), Digest(q) = d, backend = "files"
        PROVE  IsKept(d)'
    <3>1. (HalfWritten(q)' /\ Digest(q)' = d) \/ d \in broken' \/ WriteSidecar(q)
      BY <2>3, HalfWrittenStays
    <3>2. QED
      BY <1>1, <1>b, <2>3, <3>1 DEF IsKept
  <2>4. QED
    BY <1>1, <1>b, <2>1, <2>2, <2>3 DEF IsKept
\* One file changes.
<1>2. ASSUME NEW f \in Digests, FileChanges(f), IsKept(f)',
             backend # "s3 plain" => Len(objects'[f]) <= 1,
             \A p \in Requests : WriteSidecar(p) => Digest(p) = f
      PROVE  ObjectsKnown'
  <2>1. /\ objects' = [d \in Digests |-> objects'[d]]
        /\ \A d \in Digests : d # f => objects'[d] = objects[d]
        /\ objects'[f] \in Seq(Versions)
    BY <1>2 DEF FileChanges
  <2>2. ASSUME NEW d \in Digests, d # f
        PROVE  IsKnown(d)
    <3>1. objects'[d] = objects[d] /\ \A p \in Requests : WriteSidecar(p) => Digest(p) # d
      BY <1>2, <2>1, <2>2
    <3>2. objects'[d] # <<>> => IsKept(d)'
      BY <1>1, <3>1
    <3>3. objects'[d] \in Seq(Versions)
      BY <1>b, <3>1, Zenon
    <3>4. backend' # "s3 plain" => Len(objects'[d]) <= 1
      BY <1>b, <3>1, Zenon
    <3>5. QED
      BY <3>2, <3>3, <3>4
  <2>3. IsKnown(f)
    BY <1>2, <1>b, <2>1, Zenon
  <2> HIDE DEF IsKnown
  <2>4. QED
    BY <1>0, <2>1, <2>2, <2>3
<1>3. CASE objects' = objects
  <2>1. ASSUME NEW d \in Digests, objects[d] # <<>>
        PROVE  IsKept(d)'
    <3>1. ASSUME NEW q \in Requests, WriteSidecar(q), Digest(q) = d
          PROVE  IsKept(d)'
      BY <1>a, <3>1, FileFilled DEF IsKept
    <3>2. QED
      BY <1>1, <1>3, <2>1, <3>1
  <2>2. objects' = [d \in Digests |-> objects'[d]]
    BY <1>3, <1>a DEF ObjectsKnown
  <2>3. \A d \in Digests : IsKnown(d)
    BY <1>3, <1>b, <2>1
  <2> HIDE DEF IsKnown
  <2>4. QED
    BY <1>0, <2>2, <2>3
\* A request that is not at its sidecar is the only one that moves.
<1>4. ASSUME NEW q \in Requests, req[q].at # "sidecar",
             \A p \in Requests : p # q => req'[p] = req[p]
      PROVE  \A p \in Requests : ~ WriteSidecar(p)
  BY <1>s, <1>4
<1>5. ASSUME NEW q \in Requests, NewVersion(q, TRUE) \/ NewVersion(q, FALSE), ~ Exists(q),
             req[q].at \in Putting, NEW f, f = Digest(q)
      PROVE  Len(objects'[f]) <= 1
  <2>1. Len(objects'[f]) = Len(objects[f]) + 1
    BY <1>a, <1>5, VersionAdded
  <2>2. objects[f] = <<>> /\ Len(<<>>) = 0
    BY <1>5 DEF Exists
  <2>3. Len(objects[f]) = 0
    BY <2>2, Zenon
  <2>4. QED
    BY ONLY <2>1, <2>3
<1>6. ASSUME NEW q \in Requests, CreateFile(q), ~ Exists(q), NewVersion(q, FALSE)
      PROVE  ObjectsKnown'
  <2>1. req[q].at \in Putting /\ req[q].at = "write" /\ backend = "files"
    BY <1>a, <1>6 DEF CreateFile, Putting, StoreSteps
  <2>2. RowIs(q, "writing", req[q].set, req[q].read, req[q].outcome, req[q].done)
    BY <1>a, <1>6, GoesRow DEF CreateFile
  <2>3. PICK f : f = Digest(q)
    OBVIOUS
  <2>4. HalfWritten(q)' /\ Digest(q)' = f
    BY <2>2, <2>3 DEF RowIs, HalfWritten, Digest, Documents
  <2>5. IsKept(f)'
    BY <1>b, <2>1, <2>4 DEF IsKept
  <2>6. FileChanges(f)
    BY <1>a, <1>6, <2>1, <2>3, VersionAdded
  <2>7. f \in Digests /\ Len(objects'[f]) <= 1
    BY <1>a, <1>5, <1>6, <2>1, <2>3, PuttingDigest
  <2>8. \A p \in Requests : ~ WriteSidecar(p)
    BY <1>4, <2>1, <2>2 DEF RowIs
  <2>9. QED
    BY <1>2, <2>5, <2>6, <2>7, <2>8
<1>7. ASSUME NEW q \in Requests, req[q].at \in {"put if none", "put"},
             NewVersion(q, TRUE), NextDocument(q), backend # "s3 plain" => ~ Exists(q)
      PROVE  ObjectsKnown'
  <2>1. req[q].at \in Putting /\ req[q].at # "sidecar"
    BY <1>7 DEF Putting
  <2>2. PICK f : f = Digest(q)
    OBVIOUS
  <2>3. /\ FileChanges(f)
        /\ \E i \in DOMAIN objects'[f] : objects'[f][i].whole /\ objects'[f][i].retained
    BY <1>a, <1>7, <2>1, <2>2, VersionAdded
  <2>4. IsKept(f)'
    BY <2>3 DEF IsKept
  <2>5. \A p \in Requests : p # q => req'[p] = req[p]
    BY <1>a, <1>7, NextDocumentRow DEF RowIs
  <2>6. f \in Digests /\ (backend # "s3 plain" => Len(objects'[f]) <= 1)
    BY <1>a, <1>5, <1>7, <2>1, <2>2, PuttingDigest
  <2>7. \A p \in Requests : ~ WriteSidecar(p)
    BY <1>4, <2>1, <2>5
  <2>8. QED
    BY <1>2, <2>3, <2>4, <2>6, <2>7
<1>8. ASSUME NEW q \in Requests, WriteBytes(q)
      PROVE  ObjectsKnown'
  <2>1. PICK f : f = Digest(q)
    OBVIOUS
  <2>2. /\ f \in Digests /\ FileChanges(f) /\ Len(objects'[f]) = Len(objects[f])
    BY <1>a, <1>8, <2>1, FileFilled
  <2>3. RowIs(q, "sidecar", req[q].set, req[q].read, req[q].outcome, req[q].done)
    BY <1>a, <1>8, GoesRow DEF WriteBytes
  <2>4. req[q].at = "writing" /\ backend = "files"
    BY <1>a, <1>8 DEF WriteBytes, StoreSteps
  <2>5. HalfWritten(q)' /\ Digest(q)' = f
    BY <2>1, <2>3 DEF RowIs, HalfWritten, Digest, Documents
  <2>6. IsKept(f)'
    BY <1>b, <2>4, <2>5 DEF IsKept
  <2>7. \A p \in Requests : ~ WriteSidecar(p)
    BY <1>4, <2>3, <2>4 DEF RowIs
  <2>8. backend # "s3 plain" => Len(objects'[f]) <= 1
    BY <1>b, <2>2, Zenon
  <2>9. QED
    BY <1>2, <2>2, <2>6, <2>7, <2>8
<1>9. ASSUME NEW q \in Requests, WriteSidecar(q)
      PROVE  ObjectsKnown'
  <2>1. PICK f : f = Digest(q)
    OBVIOUS
  <2>2. /\ f \in Digests /\ FileChanges(f) /\ Len(objects'[f]) = Len(objects[f])
        /\ \E i \in DOMAIN objects'[f] : objects'[f][i].whole /\ objects'[f][i].retained
    BY <1>a, <1>9, <2>1, FileFilled
  <2>3. \A p \in Requests : WriteSidecar(p) => Digest(p) = f
    <3>1. \A p \in Requests : p # q => req'[p] = req[p]
      BY <1>a, <1>9, NextDocumentRow DEF WriteSidecar, RowIs
    <3>2. QED
      BY <1>s, <2>1, <3>1
  <2>4. IsKept(f)'
    BY <2>2 DEF IsKept
  <2>5. backend # "s3 plain" => Len(objects'[f]) <= 1
    BY <1>b, <2>2, Zenon
  <2>6. QED
    BY <1>2, <2>2, <2>3, <2>4, <2>5
<1>10. ASSUME NEW q \in Requests, PutIfNone(q), ~ Exists(q), NewVersion(q, TRUE)
       PROVE  objects' = objects \/ ObjectsKnown'
  BY <1>7, <1>10 DEF PutIfNone
<1>11. ASSUME NEW q \in Requests, PutPlain(q)
       PROVE  ObjectsKnown'
  BY <1>7, <1>11, <1>a DEF PutPlain, StoreSteps
<1>12. QED
  BY <1>3, <1>6, <1>8, <1>9, <1>10, <1>11, ObjectsChange

\* What a record says is what its message is read as.
LEMMA IsRecordStays ==
  ASSUME Shapes, Grows, NEW l, IsRecord(l)
  PROVE  IsRecord(l)'
<1> DEFINE m == l.message
<1>1. m \in Messages /\ mail' = mail /\ Listed(m)' = Listed(m)
  BY ListedStays DEF Grows, IsRecord
<1>2. \A i \in DOMAIN Listed(m) : objects'[Listed(m)[i].sha256] # <<>>
  BY <1>1, ListedParts DEF Grows, IsRecord
<1>3. QED
  BY <1>1, <1>2 DEF IsRecord

\* What a request appends is a record, wherever it is cut.
LEMMA NewRecord ==
  ASSUME Shapes, NEW q \in Requests, Knows(q), req[q].at = "store", Stored(q),
         NEW lines \in 0..NumberOfLines(q), NEW cut,
         cut = "nowhere" => lines = NumberOfLines(q)
  PROVE  IsRecord(Entry(q, lines, cut))
<1> DEFINE m == req[q].message
           out == req[q].outcome
           says == [i \in (1..lines) \cap DOMAIN Documents(q) |->
                [sha256 |-> Documents(q)[i].sha256,
                 detection |-> Documents(q)[i].detection,
                 status |-> IF /\ Documents(q)[i].detection.error = None
                               /\ Documents(q)[i].detection.profile.legalClass = "einvoice"
                            THEN "pending" ELSE "not_einvoice"]]
           l == Entry(q, lines, cut)
<1>1. req[q].at \in Read
  BY DEF Read, Checked, Storing
<1>2. /\ m \in Messages /\ Documents(q) = Listed(m)
      /\ NumberOfLines(q) \in Nat /\ DOMAIN Documents(q) \subseteq 1..NumberOfLines(q)
  BY <1>1, LinesAre
<1>3. req[q].token \in Nat
  BY DEF Shapes, IsRequest
<1>4. /\ out = IngestMessage(mail[m])
      /\ \A j \in 1..req[q].done : objects[Listed(m)[j].sha256] # <<>>
  BY <1>1 DEF Knows, MailOf, Storing
<1>5. DOMAIN Listed(m) = 1..Len(Listed(m)) /\ req[q].done = Len(Listed(m))
  BY <1>2, ListedParts, ListParts DEF Stored
<1>6. \A i \in DOMAIN Listed(m) : objects[Listed(m)[i].sha256] # <<>>
  BY <1>4, <1>5
<1>7. \/ ProviderMessageId(q) = mail[m].id
      \/ ProviderMessageId(q) \in {m} \X Nat /\ mail[m].id = None
  BY <1>2, <1>3 DEF ProviderMessageId, MailOf, TokenOf
<1>8. /\ says = [i \in (1..lines) \cap DOMAIN Listed(m) |->
                   [sha256 |-> Listed(m)[i].sha256, detection |-> Listed(m)[i].detection,
                    status |-> says[i].status]]
      /\ \A i \in (1..lines) \cap DOMAIN Listed(m) : says[i].status =
            IF /\ Listed(m)[i].detection.error = None
               /\ Listed(m)[i].detection.profile.legalClass = "einvoice"
            THEN "pending" ELSE "not_einvoice"
  BY <1>2
<1>9. /\ l.message = m /\ l.id = ProviderMessageId(q) /\ l.inboxSlug = out.inboxSlug
      /\ l.warnings = out.warnings /\ l.documents = says /\ l.lines = lines /\ l.cut = cut
  BY DEF Entry
<1>10. lines \in Nat /\ (cut = "nowhere" => DOMAIN Listed(m) \subseteq 1..lines)
  BY <1>2
<1> HIDE DEF says, l, m, out
<1>11. IsRecord(l)
  BY <1>2, <1>4, <1>6, <1>7, <1>8, <1>9, <1>10 DEF IsRecord
<1>12. QED
  BY <1>11 DEF l

LEMMA RecordsStep ==
  ASSUME IInv, [Next]_vars
  PROVE  RecordsKnown'
<1>a. Shapes /\ RecordsKnown /\ Grows /\ \A q \in Requests : Knows(q)
  BY GrowsStep DEF IInv
<1>1. ASSUME NEW l, IsRecord(l)
      PROVE  IsRecord(l)'
  BY <1>a, <1>1, IsRecordStays
<1>2. CASE records' = records
  BY <1>a, <1>1, <1>2 DEF RecordsKnown
<1>3. ASSUME NEW l, records' = Append(records, l), IsRecord(l)
      PROVE  RecordsKnown'
  <2>2. records \in Seq(ToSet(records) \cup {l})
    BY <1>a, SeqMonotonic DEF RecordsKnown
  <2>3. PICK S : records \in Seq(S) /\ l \in S
    BY <2>2
  <2>4. /\ records' \in Seq(S)
        /\ \A i \in DOMAIN records : records'[i] = records[i]
        /\ records'[Len(records) + 1] = l
        /\ \A i \in DOMAIN records' : i \in DOMAIN records \/ i = Len(records) + 1
    BY ONLY <1>3, <2>3, AppendParts
  <2>5. ASSUME NEW i \in DOMAIN records'
        PROVE  IsRecord(records[i])'
    <3>1. PICK r : r = records'[i]
      OBVIOUS
    <3>2. IsRecord(r)
      BY <1>a, <1>3, <2>4, <3>1 DEF RecordsKnown
    <3>3. IsRecord(r)'
      BY <1>1, <3>2
    <3>4. QED
      BY <3>1, <3>3 DEF IsRecord
  <2>6. records' \in Seq(ToSet(records'))
    <3>1. /\ Len(records') \in Nat /\ DOMAIN records' = 1..Len(records')
          /\ records' \in [1..Len(records') -> S]
      BY ONLY <2>4, LenProperties
    <3>2. records' = [i \in 1..Len(records') |-> records'[i]]
      BY ONLY <3>1
    <3>3. QED
      BY <3>1, <3>2, NumberedIsList DEF IsList
  <2>7. QED
    BY <2>5, <2>6 DEF RecordsKnown
<1>4. ASSUME NEW q \in Requests, AppendRecords(q)
      PROVE  RecordsKnown'
  <2>1. req[q].at = "store" /\ Stored(q) /\ NumberOfLines(q) \in 0..NumberOfLines(q)
    BY <1>a, <1>4, LinesAre DEF AppendRecords, Read, Checked, Storing
  <2>2. IsRecord(Entry(q, NumberOfLines(q), "nowhere"))
    BY <1>a, <2>1, NewRecord
  <2>3. QED
    BY <1>3, <1>4, <2>2 DEF AppendRecords
<1>5. ASSUME NEW q \in Requests, AppendIsCut(q)
      PROVE  RecordsKnown'
  <2>1. PICK lines \in 0..NumberOfLines(q), cut \in {"between", "within", "unended"} :
           records' = Append(records, Entry(q, lines, cut))
    BY <1>5 DEF AppendIsCut
  <2>2. IsRecord(Entry(q, lines, cut))
    BY <1>a, <1>5, NewRecord DEF AppendIsCut
  <2>3. QED
    BY <1>3, <2>1, <2>2
<1>6. QED
  BY <1>2, <1>4, <1>5
     DEF Next, vars, disk, Deliver, Verify, ReadRecords, LoadSeen, Check, PutObject,
         Answer, CreateFile, WriteBytes, WriteSidecar, PutIfNone, HeadObject, PutPlain,
         Fails, Restart, Tick

\* A message that was seen is on record: under its own id, or under the token
\* that made it its own.
LEMMA SeenIsOnRecord ==
  ASSUME Shapes, ProcessKnows, RecordsKnown, NEW q \in Requests, Knows(q),
         req[q].at = "check", Seen(q)
  PROVE  \E i \in DOMAIN records :
            /\ records[i].lines > 0
            /\ \/ records[i].message = req[q].message
               \/ records[i].id # None /\ records[i].id = MailOf(q).id
<1>1. ProviderMessageId(q) # None /\ ProviderMessageId(q) \in IdsWritten
  BY DEF Seen, Knows, ProcessKnows
<1>2. PICK i \in DOMAIN records : records[i].lines > 0 /\ records[i].id = ProviderMessageId(q)
  BY <1>1 DEF IdsWritten
<1>3. CASE ProviderMessageId(q) = MailOf(q).id
  BY <1>1, <1>2, <1>3
<1>4. CASE ProviderMessageId(q) = TokenOf(q)
  <2>1. req[q].message \in Messages /\ req[q].token \in Nat
    BY DEF Shapes, IsRequest
  <2>2. IsRecord(records[i])
    BY DEF RecordsKnown
  <2>3. records[i].id # mail[records[i].message].id
    <3>1. mail[records[i].message].id \notin Messages \X Nat
      BY <2>2 DEF IsRecord, Shapes, IsMessage
    <3>2. records[i].id \in Messages \X Nat
      BY <1>2, <1>4, <2>1 DEF TokenOf
    <3>3. QED
      BY <3>1, <3>2
  <2>4. records[i].id \in {records[i].message} \X Nat
    BY <2>2, <2>3 DEF IsRecord
  <2>5. records[i].message = req[q].message
    BY <1>2, <1>4, <2>4 DEF TokenOf
  <2>6. QED
    BY <1>2, <2>5
<1>5. QED
  BY <1>3, <1>4 DEF ProviderMessageId

LEMMA AckedStep ==
  ASSUME IInv, [Next]_vars
  PROVE  AckedKnown'
<1>a. /\ Shapes /\ ProcessKnows /\ RecordsKnown /\ AckedKnown /\ Grows
      /\ \A q \in Requests : Knows(q)
  BY GrowsStep DEF IInv
<1> DEFINE OnRecord(m) == \E i \in DOMAIN records :
              /\ records[i].lines > 0
              /\ \/ records[i].message = m
                 \/ records[i].id # None /\ records[i].id = mail[m].id
<1>1. ASSUME NEW m, OnRecord(m)
      PROVE  OnRecord(m)'
  BY <1>a, <1>1 DEF Grows
<1>2. acked \subseteq Messages /\ \A m \in acked : OnRecord(m)
  BY <1>a DEF AckedKnown
<1>3. ASSUME NEW q \in Requests, Check(q), acked' # acked
      PROVE  acked' = acked \cup {req[q].message} /\ OnRecord(req[q].message)
  BY <1>a, <1>3, SeenIsOnRecord DEF Check, MailOf
<1>4. ASSUME NEW q \in Requests, Answer(q)
      PROVE  acked' = acked \cup {req[q].message} /\ OnRecord(req[q].message)
  BY <1>a, <1>4 DEF Answer, Knows, IsOnRecord
<1>5. ASSUME NEW q \in Requests, Check(q) \/ Answer(q)
      PROVE  req[q].message \in Messages
  BY <1>a, <1>5 DEF Check, Answer, Shapes, IsRequest
<1>6. \/ acked' = acked
      \/ \E m \in Messages : acked' = acked \cup {m} /\ OnRecord(m)
  <2>1. \/ acked' = acked
        \/ \E q \in Requests : Check(q) \/ Answer(q)
    BY DEF Next, vars, Deliver, Verify, ReadRecords, LoadSeen, PutObject, AppendRecords,
           CreateFile, WriteBytes, WriteSidecar, PutIfNone, HeadObject, PutPlain, Fails,
           AppendIsCut, Restart, Tick
  <2> HIDE DEF OnRecord
  <2>2. QED
    BY <1>3, <1>4, <1>5, <2>1
<1>7. acked' \subseteq Messages /\ \A m \in acked' : OnRecord(m)'
  <2> HIDE DEF OnRecord
  <2>1. QED
    BY <1>1, <1>2, <1>6
<1>8. QED
  BY <1>7 DEF AckedKnown

LEMMA InvInit == Init => IInv
<1> SUFFICES ASSUME Init PROVE IInv
  OBVIOUS
<1>1. Shapes
  BY ShapesInit
<1>2. ASSUME NEW q \in Requests
      PROVE  Knows(q) /\ StoreSteps(q)
  BY DEF Init, Idle, Knows, StoreSteps, Read, Checked, Storing, Putting, HalfWritten
<1>3. ProcessKnows
  <2>1. proc = Started
    BY DEF Init
  <2>2. (\A p \in Requests : Started.sets[p] = {}) /\ Started.conditionalWrites
    BY DEF Started
  <2>3. QED
    BY <2>1, <2>2 DEF ProcessKnows
<1>4. ObjectsKnown
  <2>1. objects = [d \in Digests |-> <<>>]
    BY DEF Init
  <2>2. <<>> \in Seq(Versions) /\ Len(<<>>) = 0
    OBVIOUS
  <2>3. QED
    BY ONLY <2>1, <2>2 DEF ObjectsKnown
<1>5. RecordsKnown
  <2>1. records = <<>>
    BY DEF Init
  <2>2. QED
    BY <2>1 DEF RecordsKnown
<1>6. AckedKnown
  BY DEF Init, AckedKnown
<1>7. QED
  BY <1>1, <1>2, <1>3, <1>4, <1>5, <1>6 DEF IInv

LEMMA InvStep ==
  ASSUME IInv, [Next]_vars
  PROVE  IInv'
<1>1. Shapes'
  BY ShapesStep DEF IInv
<1>2. QED
  BY <1>1, KnowsStep, StoreStepsStep, ProcessKnowsStep, ObjectsStep, RecordsStep, AckedStep
     DEF IInv

\* The invariant says what was promised to the provider.
LEMMA InvIsEnough ==
  ASSUME IInv
  PROVE  AckedIsKept
<1>a. Shapes /\ ObjectsKnown /\ RecordsKnown /\ AckedKnown
  BY DEF IInv
<1>1. ASSUME NEW i \in DOMAIN records
      PROVE  LET listed == {d.sha256 : d \in DocumentsOnRecord(i)}
             IN  /\ listed \subseteq KeptOf(records[i].message)
                 /\ records[i].cut = "nowhere" /\ ~ RunsOn(i) =>
                        listed = KeptOf(records[i].message)
                 /\ \A d \in listed : objects[d] # <<>> /\ d \in Digests
  <2> DEFINE l == records[i]
             m == mail[l.message]
             docs == Listed(l.message)
             legible == LegibleLines(i) \cap DOMAIN l.documents
             listed == {d.sha256 : d \in DocumentsOnRecord(i)}
  <2>1. IsRecord(l) /\ l.message \in Messages /\ l.lines \in Nat
    BY <1>a DEF RecordsKnown, IsRecord
  <2>2. DOMAIN l.documents = (1..l.lines) \cap DOMAIN docs
        /\ \A j \in (1..l.lines) \cap DOMAIN docs : l.documents[j].sha256 = docs[j].sha256
    BY <2>1 DEF IsRecord
  <2>3. listed = {docs[j].sha256 : j \in legible} /\ legible \subseteq DOMAIN docs
    BY <2>2 DEF DocumentsOnRecord
  <2>4. \A j \in DOMAIN docs : objects[docs[j].sha256] # <<>> /\ docs[j].sha256 \in Digests
    BY <1>a, <2>1, ListedParts DEF IsRecord
  <2>5. IsMessage(m)
    BY <1>a, <2>1 DEF Shapes
  <2>6. \A a : BuildDocument(a).sha256 = a.sha256
    BY DEF BuildDocument
  <2>7. /\ \A j \in DOMAIN docs : \E a \in ToSet(m.attachments) :
              Kept(a) /\ docs[j].sha256 = a.sha256
        /\ \A a \in ToSet(m.attachments) : Kept(a) =>
              \E j \in DOMAIN docs : docs[j].sha256 = a.sha256
    BY <2>5, <2>6, DocumentsAre DEF Listed
  <2>8. ASSUME l.cut = "nowhere", ~ RunsOn(i)
        PROVE  legible = DOMAIN docs
    <3>1. LegibleLines(i) = 1..l.lines
      BY <2>8 DEF LegibleLines
    <3>2. DOMAIN docs \subseteq 1..l.lines
      BY <2>1, <2>8 DEF IsRecord
    <3> HIDE DEF docs, l
    <3>3. QED
      BY <2>2, <3>1, <3>2
  <2>9. KeptOf(l.message) = {a.sha256 : a \in {b \in ToSet(m.attachments) : Kept(b)}}
    BY DEF KeptOf
  <2> HIDE DEF docs, m, legible, l, listed
  <2>10. {docs[j].sha256 : j \in DOMAIN docs} = KeptOf(l.message)
    BY <2>7, <2>9
  <2>11. listed \subseteq KeptOf(l.message)
    BY <2>3, <2>10
  <2>12. l.cut = "nowhere" /\ ~ RunsOn(i) => listed = KeptOf(l.message)
    BY <2>3, <2>8, <2>10
  <2>13. \A d \in listed : objects[d] # <<>> /\ d \in Digests
    BY <2>3, <2>4
  <2>14. QED
    BY <2>11, <2>12, <2>13 DEF l, listed
<1>2. AckedIsOnRecord
  BY <1>a, <1>1 DEF AckedIsOnRecord, AckedKnown
<1>3. ASSUME NEW d \in Digests, Recorded(d)
      PROVE  IsKept(d)
  <2>1. objects[d] # <<>>
    <3>1. PICK i \in DOMAIN records : \E e \in DocumentsOnRecord(i) : e.sha256 = d
      BY <1>3 DEF Recorded
    <3>2. QED
      BY <1>1, <3>1
  <2>2. QED
    BY <1>a, <2>1 DEF ObjectsKnown
<1>4. ObjectsAreKept
  <2>1. \A d \in Digests : IsKept(d) =>
          \/ \E v \in ToSet(objects[d]) : v.whole /\ v.retained
          \/ /\ backend = "files"
             /\ \/ d \in broken
                \/ \E q \in Requests : HalfWritten(q) /\ Digest(q) = d
    BY DEF IsKept, ToSet
  <2>2. QED
    BY <1>a, <1>3, <2>1 DEF ObjectsAreKept, ObjectsKnown
<1>5. QED
  BY <1>2, <1>4 DEF AckedIsKept

\* A message that was answered 2xx has a line on record, or its Message-Id has;
\* an append that was not cut lists every file; and what is on record is
\* stored, whole and under retention, but for a file that somebody is writing
\* or did not finish: whatever failed or stopped before, and whatever ran
\* beside it.
THEOREM AckedKept == Spec => []AckedIsKept
BY InvInit, InvStep, InvIsEnough, PTL DEF Spec


-----------------------------------------------------------------------------
(* Documents are recorded as what they are.                                *)

\* The first of four marks that a URN contains.
LEMMA FirstOfFour ==
  ASSUME NEW urn, NEW a, NEW b, NEW c, NEW d
  PROVE  FirstMark(<<a, b, c, d>>, urn) =
           IF a \in urn.marks THEN a ELSE IF b \in urn.marks THEN b
           ELSE IF c \in urn.marks THEN c ELSE IF d \in urn.marks THEN d ELSE None
<1> DEFINE order == <<a, b, c, d>>
           found == {i \in DOMAIN order : order[i] \in urn.marks}
<1>1. /\ DOMAIN order = {1, 2, 3, 4}
      /\ order[1] = a /\ order[2] = b /\ order[3] = c /\ order[4] = d
  OBVIOUS
<1>2. FirstMark(order, urn) = IF found = {} THEN None ELSE order[Min(found)]
  BY DEF FirstMark
<1> HIDE DEF order
<1>3. \A i : i \in found <=> i \in {1, 2, 3, 4} /\ order[i] \in urn.marks
  BY <1>1
<1>4. found \in SUBSET Nat
  BY <1>3
<1> HIDE DEF found
<1>5. found # {} => Min(found) \in found /\ \A j \in found : Min(found) <= j
  BY <1>4, Least
<1>6. FirstMark(order, urn) =
           IF a \in urn.marks THEN a ELSE IF b \in urn.marks THEN b
           ELSE IF c \in urn.marks THEN c ELSE IF d \in urn.marks THEN d ELSE None
  BY ONLY <1>1, <1>2, <1>3, <1>5
<1>7. QED
  BY <1>6 DEF order

\* What is recognised, and as what.
LEMMA DetectedAre ==
  ASSUME NEW x, Detect(x).error = None
  PROVE  /\ x.root # "FatturaElettronica" /\ x.markup # "broken" /\ x.urn # None
         /\ SyntaxOf(x) \notin {"zugferd_v1", "unknown_root"}
         /\ Detect(x).format = ResolveFormat(SyntaxOf(x), x.urn)
         /\ Detect(x).profile = ClassifyProfile(x.urn)
<1>1. \A code \in Codes : Refusal(code).error # None
  BY MissingAssumption DEF Refusal
<1>2. Detect(x) # Refusal("foreign_format") /\ Detect(x) # Refusal("unknown")
      /\ Detect(x) # Refusal("zugferd_v1") /\ Detect(x) # Refusal("unknown_root")
      /\ Detect(x) # Refusal("missing_profile")
  BY <1>1 DEF Codes
<1>3. Detect(x) = [error |-> None, format |-> ResolveFormat(SyntaxOf(x), x.urn),
                   profile |-> ClassifyProfile(x.urn)]
      /\ x.root # "FatturaElettronica" /\ x.markup # "broken" /\ x.urn # None
      /\ SyntaxOf(x) \notin {"zugferd_v1", "unknown_root"}
  BY <1>2 DEF Detect
<1>4. QED
  BY <1>3

LEMMA SyntaxIs ==
  ASSUME NEW x, SyntaxOf(x) \notin {"zugferd_v1", "unknown_root"}
  PROVE  /\ SyntaxOf(x) \in {"ubl", "cii"}
         /\ SyntaxOf(x) = "ubl" => /\ x.root \in {"Invoice", "CreditNote"}
                                   /\ x.namespace \in {"absent", "ubl"}
         /\ SyntaxOf(x) = "cii" => /\ x.root = "CrossIndustryInvoice"
                                   /\ x.namespace # "zugferd_v1"
BY DEF SyntaxOf

LEMMA SyntaxOfInvoice ==
  ASSUME NEW x, <<x.root, x.namespace>> \in
           ({"Invoice", "CreditNote"} \X {"ubl", "absent"})
             \cup ({"CrossIndustryInvoice"} \X {"ubl", "cii", "absent", "other"})
  PROVE  SyntaxOf(x) \in {"ubl", "cii"}
BY DEF SyntaxOf

\* What passes for an invoice begins as one with its lines.
LEMMA DetectedIsFull ==
  ASSUME NEW x, IsXml(x), Detect(x).error = None,
         Detect(x).profile.legalClass = "einvoice"
  PROVE  FullHeader(x)
<1> DEFINE mark == FirstMark(<<"zugferd", "cius", "peppol", "en16931">>, x.urn)
<1>1. /\ mark # None /\ ~ (mark = "zugferd" /\ x.urn.level \notin FullLevels)
      /\ x.markup # "broken" /\ x.urn # None
  <2>1. ClassifyProfile(x.urn).legalClass = "einvoice" /\ x.markup # "broken" /\ x.urn # None
    BY DetectedAre
  <2>2. ClassifyProfile(x.urn) =
          [urn |-> x.urn, family |-> mark,
           legalClass |-> IF mark = None \/ (mark = "zugferd"
                                             /\ x.urn.level \notin FullLevels)
                          THEN "not_einvoice" ELSE "einvoice"]
    BY DEF ClassifyProfile
  <2> HIDE DEF mark
  <2>3. QED
    BY <2>1, <2>2
<1>2. mark = IF "zugferd" \in x.urn.marks THEN "zugferd"
             ELSE IF "cius" \in x.urn.marks THEN "cius"
             ELSE IF "peppol" \in x.urn.marks THEN "peppol"
             ELSE IF "en16931" \in x.urn.marks THEN "en16931" ELSE None
  BY FirstOfFour
<1>3. SyntaxOf(x) \in {"ubl", "cii"}
      /\ (SyntaxOf(x) = "ubl" => /\ x.root \in {"Invoice", "CreditNote"}
                                 /\ x.namespace \in {"absent", "ubl"})
      /\ (SyntaxOf(x) = "cii" => /\ x.root = "CrossIndustryInvoice"
                                 /\ x.namespace # "zugferd_v1")
  BY DetectedAre, SyntaxIs
<1>4. x.namespace \in {"absent", "ubl", "cii", "zugferd_v1", "other"}
  BY DEF IsXml
<1> HIDE DEF mark
<1>5. QED
  BY <1>1, <1>2, <1>3, <1>4 DEF FullHeader

LEMMA FullIsDetected ==
  ASSUME NEW x, FullHeader(x)
  PROVE  Detect(x).error = None /\ Detect(x).profile.legalClass = "einvoice"
<1> DEFINE mark == FirstMark(<<"zugferd", "cius", "peppol", "en16931">>, x.urn)
<1>1. mark = IF "zugferd" \in x.urn.marks THEN "zugferd"
             ELSE IF "cius" \in x.urn.marks THEN "cius"
             ELSE IF "peppol" \in x.urn.marks THEN "peppol"
             ELSE IF "en16931" \in x.urn.marks THEN "en16931" ELSE None
  BY FirstOfFour
<1>2. mark # None /\ ~ (mark = "zugferd" /\ x.urn.level \notin FullLevels)
  BY <1>1, MissingAssumption DEF FullHeader, Marks
<1>3. ClassifyProfile(x.urn).legalClass = "einvoice"
  BY <1>2 DEF ClassifyProfile
<1>4. SyntaxOf(x) \in {"ubl", "cii"}
  BY SyntaxOfInvoice DEF FullHeader
<1>5. x.root # "FatturaElettronica" /\ x.markup # "broken" /\ x.urn # None
  BY DEF FullHeader
<1>6. Detect(x) = [error |-> None, format |-> ResolveFormat(SyntaxOf(x), x.urn),
                   profile |-> ClassifyProfile(x.urn)]
  BY <1>4, <1>5 DEF Detect
<1>7. QED
  BY <1>3, <1>6

\* In a set of at most one element any two are the same.
LEMMA AtMostOne ==
  ASSUME NEW S, IsFiniteSet(S), Cardinality(S) <= 1, NEW a \in S, NEW b \in S
  PROVE  a = b
<1>1. {a, b} \in SUBSET S /\ IsFiniteSet({a, b}) /\ Cardinality({a, b}) <= Cardinality(S)
  BY FS_Subset
<1>2. a # b => Cardinality({a, b}) = 2
  <2>1. Cardinality({a}) = 1 /\ IsFiniteSet({a})
    BY FS_Singleton
  <2>2. a # b => Cardinality({a} \cup {b}) = Cardinality({a}) + 1
    BY <2>1, FS_AddElement
  <2>3. {a} \cup {b} = {a, b}
    OBVIOUS
  <2>4. QED
    BY <2>1, <2>2, <2>3
<1>3. Cardinality(S) \in Nat /\ Cardinality({a, b}) \in Nat
  BY <1>1, FS_CardinalityType
<1>4. QED
  BY <1>1, <1>2, <1>3

\* The two orders find one answer in a URN of one family.
LEMMA FormatAndProfile ==
  ASSUME NEW x, Detect(x).error = None, OneFamily(x.urn)
  PROVE  Detect(x).profile.family \in FamilyOf(Detect(x).format)
<1> DEFINE marks == x.urn.marks
           mark == FirstMark(<<"kosit", "peppol", "zugferd", "en16931">>, x.urn)
           family == FirstMark(<<"zugferd", "cius", "peppol", "en16931">>, x.urn)
           vendors == marks \cap {"zugferd", "kosit", "peppol"}
           format == ResolveFormat(SyntaxOf(x), x.urn)
<1>1. mark = IF "kosit" \in marks THEN "kosit" ELSE IF "peppol" \in marks THEN "peppol"
             ELSE IF "zugferd" \in marks THEN "zugferd"
             ELSE IF "en16931" \in marks THEN "en16931" ELSE None
  BY FirstOfFour
<1>2. family = IF "zugferd" \in marks THEN "zugferd" ELSE IF "cius" \in marks THEN "cius"
               ELSE IF "peppol" \in marks THEN "peppol"
               ELSE IF "en16931" \in marks THEN "en16931" ELSE None
  BY FirstOfFour
<1>3. \A a, b \in vendors : a = b
  <2>1. IsFiniteSet({"zugferd", "kosit", "peppol"})
    <3>1. IsFiniteSet({}) /\ {"zugferd", "kosit", "peppol"}
                               = (({} \cup {"zugferd"}) \cup {"kosit"}) \cup {"peppol"}
      BY FS_EmptySet
    <3>2. IsFiniteSet({} \cup {"zugferd"})
      BY <3>1, FS_AddElement
    <3>3. IsFiniteSet(({} \cup {"zugferd"}) \cup {"kosit"})
      BY <3>2, FS_AddElement
    <3>4. IsFiniteSet((({} \cup {"zugferd"}) \cup {"kosit"}) \cup {"peppol"})
      BY <3>3, FS_AddElement
    <3>5. QED
      BY <3>1, <3>4
  <2>2. IsFiniteSet(vendors)
    BY <2>1, FS_Subset
  <2>3. Cardinality(vendors) <= 1
    BY DEF OneFamily
  <2> HIDE DEF vendors
  <2>4. QED
    BY <2>2, <2>3, AtMostOne
<1>4. "kosit" \in marks <=> "cius" \in marks
  BY DEF OneFamily
<1>5. /\ Detect(x).format = format /\ Detect(x).profile.family = family
      /\ SyntaxOf(x) \in {"ubl", "cii"}
  <2>1. ClassifyProfile(x.urn).family = family
    BY DEF ClassifyProfile
  <2>2. QED
    BY <2>1, DetectedAre, SyntaxIs
<1>6. /\ mark = "kosit" => format = <<"xrechnung", SyntaxOf(x)>>
      /\ mark = "peppol" => format = <<"peppol_bis">>
      /\ mark = "zugferd" => format = <<"zugferd">>
      /\ mark = "en16931" => format \in {<<"zugferd">>, <<"en16931", "ubl">>}
      /\ mark = None => format = <<"other">>
  <2>1. format = CASE mark = "kosit"   -> <<"xrechnung", SyntaxOf(x)>>
                   [] mark = "peppol"  -> <<"peppol_bis">>
                   [] mark = "zugferd" -> <<"zugferd">>
                   [] mark = "en16931" -> IF SyntaxOf(x) = "cii" THEN <<"zugferd">>
                                                                 ELSE <<"en16931", "ubl">>
                   [] OTHER            -> <<"other">>
    BY DEF ResolveFormat
  <2> HIDE DEF mark, format
  <2>2. QED
    BY <2>1, MissingAssumption DEF Marks
<1>7. /\ FamilyOf(<<"xrechnung", SyntaxOf(x)>>) = {"cius"}
      /\ FamilyOf(<<"peppol_bis">>) = {"peppol"}
      /\ FamilyOf(<<"zugferd">>) = {"zugferd", "en16931"}
      /\ FamilyOf(<<"en16931", "ubl">>) = {"en16931"}
      /\ FamilyOf(<<"other">>) = {None}
  BY DEF FamilyOf
<1> HIDE DEF mark, family, format
<1>8. family \in FamilyOf(format)
  BY <1>1, <1>2, <1>3, <1>4, <1>6, <1>7
<1>9. QED
  BY <1>5, <1>8


\* A stream that can be read gives the file it holds, or a part of it.
Readable(s) == IsEmbeddedFileDict(s) /\ DecodeStream(s) # None

CanBeRead(s) ==
  /\ s.dict # "font" /\ s.ended /\ s.filter # "lzw"
  /\ s.keyword # "absent" => s.length \in {"direct", "reference"}

IsCutOff(s) ==
  /\ s.filter = "absent" /\ s.keyword # "absent"
  /\ s.ended => s.length \notin {"direct", "reference"}

LEMMA StreamIsRead ==
  ASSUME NEW s, IsStream(s)
  PROVE  /\ Readable(s) => s.dict # "font"
         /\ DecodeStream(s) # None =>
              \/ DecodeStream(s) = Part(s.holds, s.keyword) /\ IsCutOff(s)
              \/ DecodeStream(s) = s.holds /\ (Readable(s) => CanBeRead(s))
         /\ CanBeRead(s) => Readable(s) /\ DecodeStream(s) = s.holds
<1> DEFINE raw == StreamBytes(s)
<1>1. s.holds.whole /\ s.holds # None
  <2>1. s.holds = [whole |-> TRUE, xml |-> s.holds.xml] /\ s.holds # None
    BY DEF IsStream, IsFile
  <2>2. QED
    BY ONLY <2>1
<1>2. ~ Part(s.holds, s.keyword).whole
  BY DEF Part
<1>0. /\ ResolveNumber(s) = "size" <=> s.length \in {"direct", "reference"}
      /\ raw = IF ResolveNumber(s) = "size" /\ s.ended THEN s.holds
               ELSE IF s.keyword # "absent" THEN Part(s.holds, s.keyword)
               ELSE IF s.ended THEN s.holds ELSE None
  <2>1. s.length \in {"direct", "reference", "wrong", "absent"}
    BY DEF IsStream
  <2>2. "size" # None
    BY MissingAssumption DEF Lengths
  <2>3. QED
    BY <2>1, <2>2 DEF StreamBytes, ResolveNumber
<1>3. \/ raw = None
      \/ /\ raw = Part(s.holds, s.keyword) /\ s.keyword # "absent"
         /\ s.ended => s.length \notin {"direct", "reference"}
      \/ raw = s.holds /\ s.ended /\ (s.keyword # "absent" => s.length \in {"direct", "reference"})
  BY ONLY <1>0
<1>4. s.ended /\ (s.keyword # "absent" => s.length \in {"direct", "reference"}) => raw = s.holds
  BY ONLY <1>0
<1>5. DecodeStream(s) = IF s.filter = "absent" \/ raw = None THEN raw
                        ELSE IF s.filter \in {"zlib", "deflate"} /\ raw.whole
                        THEN raw ELSE None
  BY DEF DecodeStream
<1>6. /\ s.dict \in {"EmbeddedFile", "text/xml", "font"}
      /\ s.filter \in {"absent", "zlib", "deflate", "lzw"}
  BY DEF IsStream
<1>7. IsEmbeddedFileDict(s) <=> s.dict # "font"
  BY <1>6 DEF IsEmbeddedFileDict
<1> HIDE DEF raw
<1>8. DecodeStream(s) # None =>
        /\ DecodeStream(s) = raw /\ s.filter # "lzw"
        /\ s.filter = "absent" \/ raw.whole
  BY <1>5, <1>6
<1>9. CanBeRead(s) => DecodeStream(s) = s.holds /\ s.dict # "font"
  BY <1>1, <1>4, <1>5, <1>6 DEF CanBeRead
<1>10. QED
  BY <1>1, <1>2, <1>3, <1>7, <1>8, <1>9 DEF Readable, CanBeRead, IsCutOff

\* The files of a PDF are those of the streams that can be read.
FileOf(s) == [filename |-> FilespecName(s), bytes |-> DecodeStream(s)]

LEMMA FilesAre ==
  ASSUME NEW pdf, IsList(pdf.streams), ~ pdf.encrypted
  PROVE  /\ \E n \in Nat : DOMAIN ExtractEmbeddedFiles(pdf) = 1..n
         /\ \A k \in DOMAIN ExtractEmbeddedFiles(pdf) : \E s \in ToSet(pdf.streams) :
               Readable(s) /\ ExtractEmbeddedFiles(pdf)[k] = FileOf(s)
         /\ \A s \in ToSet(pdf.streams) : Readable(s) =>
               \E k \in DOMAIN ExtractEmbeddedFiles(pdf) :
                  ExtractEmbeddedFiles(pdf)[k] = FileOf(s)
<1> DEFINE indices == {i \in DOMAIN pdf.streams : Readable(pdf.streams[i])}
           found == Picked(pdf.streams, indices)
<1>1. indices \in SUBSET Nat /\ IsFiniteSet(indices)
  BY ListParts, FS_Subset
<1>2. ExtractEmbeddedFiles(pdf) = [i \in DOMAIN found |-> FileOf(found[i])]
  BY DEF ExtractEmbeddedFiles, Readable, FileOf
<1>3. /\ \A i \in indices : Readable(pdf.streams[i]) /\ pdf.streams[i] \in ToSet(pdf.streams)
      /\ \A s \in ToSet(pdf.streams) : Readable(s) =>
            \E i \in indices : pdf.streams[i] = s
  BY DEF ToSet
<1> HIDE DEF indices
<1>4. /\ Cardinality(indices) \in Nat /\ DOMAIN found = 1..Cardinality(indices)
      /\ \A k \in DOMAIN found : \E i \in indices : found[k] = pdf.streams[i]
      /\ \A i \in indices : \E k \in DOMAIN found : found[k] = pdf.streams[i]
  BY <1>1, PickedAre
<1> HIDE DEF found
<1>5. DOMAIN ExtractEmbeddedFiles(pdf) = DOMAIN found
      /\ \A k \in DOMAIN found : ExtractEmbeddedFiles(pdf)[k] = FileOf(found[k])
  BY <1>2
<1>6. ASSUME NEW k \in DOMAIN ExtractEmbeddedFiles(pdf)
      PROVE  \E s \in ToSet(pdf.streams) :
                Readable(s) /\ ExtractEmbeddedFiles(pdf)[k] = FileOf(s)
  <2>1. PICK i \in indices : found[k] = pdf.streams[i]
    BY <1>4, <1>5
  <2>2. QED
    BY <1>3, <1>5, <2>1
<1>7. ASSUME NEW s \in ToSet(pdf.streams), Readable(s)
      PROVE  \E k \in DOMAIN ExtractEmbeddedFiles(pdf) :
                ExtractEmbeddedFiles(pdf)[k] = FileOf(s)
  <2>1. PICK i \in indices : pdf.streams[i] = s
    BY <1>3, <1>7
  <2>2. PICK k \in DOMAIN found : found[k] = s
    BY <1>4, <2>1
  <2>3. QED
    BY <1>5, <2>2
<1>8. QED
  BY <1>4, <1>5, <1>6, <1>7

\* What could be taken for the invoice.
Candidate(s) ==
  Readable(s) /\ (IsKnownInvoiceName(FilespecName(s)) \/ DecodeStream(s).xml # None)

LEMMA PayloadIs ==
  ASSUME NEW pdf, IsList(pdf.streams), ~ pdf.encrypted
  PROVE  /\ PayloadFromPdf(pdf) # None =>
              \E s \in ToSet(pdf.streams) :
                 Candidate(s) /\ PayloadFromPdf(pdf) = DecodeStream(s)
         /\ (\E s \in ToSet(pdf.streams) : Candidate(s)) => PayloadFromPdf(pdf) # None
<1> DEFINE files == ExtractEmbeddedFiles(pdf)
           known == {i \in DOMAIN files : IsKnownInvoiceName(files[i].filename)}
           xml == {i \in DOMAIN files : files[i].bytes.xml # None}
           indices == IF known # {} THEN known ELSE xml
           candidates == Picked(files, indices)
           good == {i \in DOMAIN candidates : Detectable(candidates[i].bytes)}
<1>1. SelectInvoiceCandidates(files) = candidates
  BY DEF SelectInvoiceCandidates
<1>2. PayloadFromPdf(pdf) = CASE candidates = <<>> -> None
                              [] good # {}         -> candidates[Min(good)].bytes
                              [] OTHER             -> candidates[1].bytes
  BY <1>1 DEF PayloadFromPdf
<1>3. \A s : FileOf(s).filename = FilespecName(s) /\ FileOf(s).bytes = DecodeStream(s)
  BY DEF FileOf
<1>4. \A i \in indices : \E s \in ToSet(pdf.streams) : Candidate(s) /\ files[i] = FileOf(s)
  BY <1>3, FilesAre DEF Candidate
<1>5. (\E s \in ToSet(pdf.streams) : Candidate(s)) => indices # {}
  <2> SUFFICES ASSUME NEW s \in ToSet(pdf.streams), Candidate(s) PROVE indices # {}
    OBVIOUS
  <2>1. PICK k \in DOMAIN files : files[k] = FileOf(s)
    BY FilesAre DEF Candidate
  <2>2. k \in known \/ k \in xml
    BY <1>3, <2>1 DEF Candidate
  <2>3. QED
    BY <2>2
<1>6. indices \in SUBSET Nat /\ IsFiniteSet(indices)
  <2>1. PICK n \in Nat : DOMAIN files = 1..n
    BY FilesAre
  <2>2. IsFiniteSet(DOMAIN files) /\ DOMAIN files \in SUBSET Nat
    BY <2>1, FS_Interval
  <2>3. indices \in SUBSET (DOMAIN files)
    OBVIOUS
  <2> HIDE DEF files, indices
  <2>4. QED
    BY <2>2, <2>3, FS_Subset
<1> HIDE DEF files, indices
<1>7. /\ Cardinality(indices) \in Nat /\ DOMAIN candidates = 1..Cardinality(indices)
      /\ \A k \in DOMAIN candidates : \E i \in indices : candidates[k] = files[i]
  BY <1>6, PickedAre
<1>8. indices # {} => Cardinality(indices) # 0
  BY <1>6, FS_EmptySet
<1> HIDE DEF candidates
<1>9. good # {} => Min(good) \in good
  <2>1. good \in SUBSET Nat
    BY <1>7
  <2>2. QED
    BY <2>1, Least
<1>10. \A k \in DOMAIN candidates : \E s \in ToSet(pdf.streams) :
          Candidate(s) /\ candidates[k].bytes = DecodeStream(s)
  BY <1>3, <1>4, <1>7
<1>11. candidates # <<>> => 1 \in DOMAIN candidates
  <2>1. IsList(candidates)
    <3>1. candidates = [k \in 1..Cardinality(indices) |-> candidates[k]]
      BY <1>7 DEF candidates, Picked
    <3>2. QED
      BY <1>7, <3>1, NumberedIsList
  <2>2. candidates # <<>> => Len(candidates) # 0
    BY <2>1, EmptySeq DEF IsList
  <2>3. QED
    BY <2>1, <2>2, ListParts
<1>12. candidates # <<>> => \E k \in DOMAIN candidates : PayloadFromPdf(pdf) = candidates[k].bytes
  <2>1. good \subseteq DOMAIN candidates
    OBVIOUS
  <2> HIDE DEF good
  <2>2. QED
    BY <1>2, <1>9, <1>11, <2>1
<1>13. candidates = <<>> => good = {}
  OBVIOUS
<1>14. candidates = <<>> => PayloadFromPdf(pdf) = None
  <2> HIDE DEF good
  <2>1. QED
    BY <1>2, <1>13
<1>15. indices # {} => candidates # <<>>
  BY <1>7, <1>8
<1>16. \A s : Candidate(s) => DecodeStream(s) # None
  BY DEF Candidate, Readable
<1>17. QED
  BY <1>5, <1>10, <1>12, <1>14, <1>15, <1>16


\* A part of a file passes for an invoice if it is cut behind the URN, and the
\* file begins as one.
LEMMA PartIsBegun ==
  ASSUME NEW b, IsFile(b), NEW place \in {"markup", "before", "behind"},
         NEW p, p = Part(b, place), p.xml # None
  PROVE  /\ b.xml # None /\ IsXml(p.xml)
         /\ FullHeader(p.xml) => place = "behind" /\ FullHeader(b.xml)
<1>1. b.xml # None
      /\ p.xml = [b.xml EXCEPT
                    !.markup = IF @ = "broken" \/ place = "markup" THEN "broken"
                               ELSE "open",
                    !.urn = IF place = "before" THEN None ELSE @]
  BY DEF Part
<1>2. /\ b.xml = [markup |-> b.xml.markup, root |-> b.xml.root,
                  namespace |-> b.xml.namespace, urn |-> b.xml.urn]
      /\ b.xml.namespace \in {"absent", "ubl", "cii", "zugferd_v1", "other"}
  BY <1>1 DEF IsFile, IsXml
<1> DEFINE ends == IF b.xml.markup = "broken" \/ place = "markup" THEN "broken" ELSE "open"
           urn == IF place = "before" THEN None ELSE b.xml.urn
<1>3. p.xml = [markup |-> ends, root |-> b.xml.root,
               namespace |-> b.xml.namespace, urn |-> urn]
  BY ONLY <1>1, <1>2
<1>4. ends \in {"open", "broken"}
  OBVIOUS
<1> HIDE DEF ends, urn
<1>5. /\ p.xml.markup = ends /\ p.xml.root = b.xml.root
      /\ p.xml.namespace = b.xml.namespace /\ p.xml.urn = urn
  BY ONLY <1>3
<1>6. IsXml(p.xml)
  BY ONLY <1>2, <1>3, <1>4, <1>5 DEF IsXml
<1>7. FullHeader(p.xml) => place = "behind"
  BY <1>5 DEF FullHeader, ends, urn
<1>8. FullHeader(p.xml) => FullHeader(b.xml)
  BY <1>5, <1>7 DEF FullHeader, ends, urn
<1>9. QED
  BY <1>1, <1>6, <1>7, <1>8

\* What is recorded as an invoice begins as one.
LEMMA InvoiceIsCarried ==
  ASSUME NEW a, IsAttachment(a), Kept(a), BuildDocument(a).detection.error = None,
         BuildDocument(a).detection.profile.legalClass = "einvoice"
  PROVE  \E x \in Begun(a) : FullHeader(x)
<1> DEFINE payload == PayloadOf(a)
<1>1. payload # None /\ BuildDocument(a).detection = DetectBytes(payload)
  BY MissingAssumption DEF BuildDocument, Refusal, Codes
<1>2. /\ DetectBytes(payload).error = None
      /\ DetectBytes(payload).profile.legalClass = "einvoice"
  BY <1>1
<1>3. payload.xml # None /\ DetectBytes(payload) = Detect(payload.xml)
  BY <1>2, MissingAssumption DEF DetectBytes, Refusal, Codes
<1>4. ASSUME IsXml(payload.xml)
      PROVE  FullHeader(payload.xml)
  BY <1>2, <1>3, <1>4, DetectedIsFull
<1> HIDE DEF payload
<1>5. CASE a.kind = "pdf"
  <2>1. payload = PayloadFromPdf(a.pdf) /\ IsList(a.pdf.streams)
        /\ \A s \in ToSet(a.pdf.streams) : IsStream(s)
    BY <1>5 DEF PayloadOf, IsAttachment, payload
  <2>2. ~ a.pdf.encrypted
    <3> SUFFICES ASSUME a.pdf.encrypted PROVE FALSE
      OBVIOUS
    <3>1. ExtractEmbeddedFiles(a.pdf) = <<>>
      BY DEF ExtractEmbeddedFiles
    <3>2. SelectInvoiceCandidates(<<>>) = <<>>
      <4>1. SelectInvoiceCandidates(<<>>) = Picked(<<>>, {})
        BY DEF SelectInvoiceCandidates
      <4>2. Cardinality({}) = 0 /\ IsFiniteSet({})
        BY FS_EmptySet
      <4>3. Picked(<<>>, {}) = <<>>
        BY <4>2 DEF Picked
      <4>4. QED
        BY <4>1, <4>3
    <3>3. PayloadFromPdf(a.pdf) = None
      BY <3>1, <3>2 DEF PayloadFromPdf
    <3>4. QED
      BY <1>1, <2>1, <3>3
  <2>3. PICK s \in ToSet(a.pdf.streams) : Candidate(s) /\ payload = DecodeStream(s)
    BY <1>1, <2>1, <2>2, PayloadIs
  <2>4. IsStream(s) /\ IsFile(s.holds) /\ Readable(s)
    BY <2>1, <2>3 DEF IsStream, Candidate
  <2>5. CASE payload = s.holds /\ CanBeRead(s)
    <3>1. FullHeader(s.holds.xml) /\ s.holds.xml # None
      BY <1>3, <1>4, <2>4, <2>5 DEF IsFile
    <3>2. s \in Legible(a.pdf)
      BY <2>2, <2>5 DEF Legible, CanBeRead
    <3>3. s.holds.xml \in Carried(a)
      BY <1>5, <3>1, <3>2 DEF Carried
    <3>4. QED
      BY <3>1, <3>3 DEF Begun
  <2>6. CASE payload = Part(s.holds, s.keyword) /\ IsCutOff(s)
    <3>1. s.keyword \in {"markup", "before", "behind"} /\ s.dict # "font"
      BY <2>1, <2>4, <2>6, StreamIsRead DEF IsStream, IsCutOff
    <3>2. /\ s.holds.xml # None /\ IsXml(payload.xml)
          /\ FullHeader(payload.xml) => s.keyword = "behind" /\ FullHeader(s.holds.xml)
      BY <1>3, <2>4, <2>6, <3>1, PartIsBegun
    <3>3. s.keyword = "behind" /\ FullHeader(s.holds.xml)
      BY <1>4, <3>2
    <3>4. s \in CutBehindUrn(a.pdf)
      BY <2>2, <2>6, <3>1, <3>3 DEF CutBehindUrn, IsCutOff
    <3>5. s.holds.xml \in Begun(a)
      BY <1>5, <3>2, <3>4 DEF Begun
    <3>6. QED
      BY <3>3, <3>5
  <2>7. QED
    BY <2>3, <2>4, <2>5, <2>6, StreamIsRead DEF Readable
<1>6. CASE a.kind # "pdf"
  <2>1. payload = a.bytes /\ IsFile(a.bytes)
    BY <1>6 DEF PayloadOf, IsAttachment, Kept, payload
  <2>2. a.bytes.xml \in Carried(a)
    BY <1>3, <1>6, <2>1 DEF Carried
  <2>3. FullHeader(a.bytes.xml)
    BY <1>3, <1>4, <2>1 DEF IsFile
  <2>4. QED
    BY <2>2, <2>3 DEF Begun
<1>7. QED
  BY <1>5, <1>6

\* An invoice that nothing else in its file competes with is recorded as one.
LEMMA CarriedIsInvoice ==
  ASSUME NEW a, IsAttachment(a), Kept(a), Alone(a),
         NEW x \in Carried(a), FullInvoice(x)
  PROVE  /\ BuildDocument(a).detection.error = None
         /\ BuildDocument(a).detection.profile.legalClass = "einvoice"
<1> DEFINE payload == PayloadOf(a)
<1>1. ASSUME payload # None, payload.xml = x
      PROVE  /\ BuildDocument(a).detection.error = None
             /\ BuildDocument(a).detection.profile.legalClass = "einvoice"
  <2>1. x # None
    BY DEF Carried
  <2>2. BuildDocument(a).detection = Detect(x)
    BY <1>1, <2>1 DEF BuildDocument, DetectBytes
  <2>3. QED
    BY <2>2, FullIsDetected DEF FullInvoice
<1>2. CASE a.kind = "pdf"
  <2> DEFINE streams == ToSet(a.pdf.streams)
             rivals == {s \in streams : /\ s.dict # "font"
                                        /\ s.holds.xml # None \/ IsKnownInvoiceName(s.filename)}
  <2>1. IsList(a.pdf.streams) /\ \A s \in streams : IsStream(s)
    BY <1>2 DEF IsAttachment
  <2>2. PICK s \in Legible(a.pdf) : s.holds.xml = x /\ x # None
    BY <1>2 DEF Carried
  <2>3. ~ a.pdf.encrypted /\ s \in streams /\ CanBeRead(s)
    BY <2>2 DEF Legible, CanBeRead
  <2>4. Readable(s) /\ DecodeStream(s) = s.holds
    BY <2>1, <2>3, StreamIsRead
  <2>5. Candidate(s)
    BY <2>2, <2>4 DEF Candidate
  <2>6. \A t \in rivals : t = s
    <3>1. s \in rivals
      BY <2>2, <2>3 DEF CanBeRead
    <3>2. IsFiniteSet(streams)
      <4>1. IsFiniteSet(DOMAIN a.pdf.streams)
        BY <2>1, ListParts
      <4>2. a.pdf.streams \in [DOMAIN a.pdf.streams -> streams]
        BY <2>1, LenProperties DEF IsList
      <4>3. a.pdf.streams \in Surjection(DOMAIN a.pdf.streams, streams)
        BY <4>2 DEF Surjection, ToSet
      <4>4. QED
        BY <4>1, <4>3, FS_Surjection
    <3>3. IsFiniteSet(rivals) /\ Cardinality(rivals) = 1
      BY <1>2, <3>2, FS_Subset DEF Alone
    <3> HIDE DEF rivals
    <3>4. QED
      BY <3>1, <3>3, AtMostOne
  <2>7. ASSUME NEW t \in streams, Candidate(t)
        PROVE  t = s
    <3>1. IsStream(t) /\ Readable(t)
      BY <2>1, <2>7 DEF Candidate
    <3>2. t.dict # "font"
      BY <3>1, StreamIsRead
    <3>3. IsKnownInvoiceName(FilespecName(t)) => IsKnownInvoiceName(t.filename)
      BY DEF FilespecName, IsKnownInvoiceName
    <3>4. DecodeStream(t).xml # None => t.holds.xml # None
      <4>1. DecodeStream(t) \in {t.holds, Part(t.holds, t.keyword)}
        BY <3>1, StreamIsRead DEF Readable
      <4>2. Part(t.holds, t.keyword).xml # None => t.holds.xml # None
        BY DEF Part
      <4>3. QED
        BY <4>1, <4>2
    <3>5. QED
      BY <2>6, <2>7, <3>2, <3>3, <3>4 DEF Candidate
  <2>8. payload = PayloadFromPdf(a.pdf)
    BY <1>2 DEF PayloadOf
  <2>9. payload # None /\ payload = s.holds
    BY <2>1, <2>3, <2>4, <2>5, <2>7, <2>8, PayloadIs
  <2>10. QED
    BY <1>1, <2>2, <2>9
<1>3. CASE a.kind # "pdf"
  <2>1. payload = a.bytes /\ IsFile(a.bytes) /\ x = a.bytes.xml
    BY <1>3 DEF PayloadOf, IsAttachment, Kept, Carried
  <2>2. QED
    BY <1>1, <2>1 DEF IsFile
<1>4. QED
  BY <1>2, <1>3

\* A sender who is not warned about has a result that speaks for it.
LEMMA UnwarnedIsSpokenFor ==
  ASSUME NEW m, IsMessage(m),
         IngestMessage(m).warnings \cap {"sender_auth_failed", "sender_auth_missing"} = {}
  PROVE  \E r \in ToSet(m.header) : r.result = "pass"
<1> DEFINE auth == ParseAuthenticationResults(m.header)
<1>1. /\ HasAuthFailure(auth) => "sender_auth_failed" \in IngestMessage(m).warnings
      /\ ~ HasAuthFailure(auth) /\ IsUnauthenticated(auth) =>
           "sender_auth_missing" \in IngestMessage(m).warnings
  BY DEF IngestMessage, WarningsOf
<1>2. "pass" \in {auth.dmarc, auth.spf, auth.dkim}
  BY <1>1 DEF IsUnauthenticated
<1>3. auth = [method \in {"spf", "dkim", "dmarc"} |->
                LET said == {i \in DOMAIN m.header : m.header[i].method = method}
                IN  IF said = {} THEN "unknown" ELSE ToVerdict(m.header[Min(said)].result)]
  BY DEF ParseAuthenticationResults
<1>4. IsList(m.header)
  BY DEF IsMessage
<1>5. ASSUME NEW method \in {"spf", "dkim", "dmarc"}, auth[method] = "pass"
      PROVE  \E r \in ToSet(m.header) : r.result = "pass"
  <2> DEFINE said == {i \in DOMAIN m.header : m.header[i].method = method}
  <2>1. auth[method] = IF said = {} THEN "unknown" ELSE ToVerdict(m.header[Min(said)].result)
    BY <1>3
  <2>2. said # {} /\ ToVerdict(m.header[Min(said)].result) = "pass"
    BY <1>5, <2>1
  <2>3. said \in SUBSET Nat /\ said \subseteq DOMAIN m.header
    BY <1>4, ListParts
  <2> HIDE DEF said
  <2>4. Min(said) \in DOMAIN m.header
    BY <2>2, <2>3, Least
  <2>5. m.header[Min(said)].result = "pass"
    BY <2>2 DEF ToVerdict
  <2>6. QED
    BY <2>4, <2>5 DEF ToSet
<1> HIDE DEF auth
<1>6. QED
  BY <1>2, <1>5

\* A message goes where its address says.
LEMMA AddressNamesInbox ==
  ASSUME NEW a, IsList(a.parts), ParseInboxAddress(a) # None
  PROVE  \E part \in ToSet(a.parts) : /\ part.slug = ParseInboxAddress(a)
                                      /\ part.suffix = "hex"
<1> DEFINE local == IF Len(a.parts) > 1 THEN Tail(a.parts) ELSE a.parts
<1>1. Len(local) = 1 /\ local[1].suffix = "hex" /\ ParseInboxAddress(a) = local[1].slug
  BY DEF ParseInboxAddress
<1>2. /\ Len(a.parts) \in Nat /\ DOMAIN a.parts = 1..Len(a.parts)
      /\ \A i \in DOMAIN a.parts : a.parts[i] \in ToSet(a.parts)
  BY ListParts
<1>3. local[1] \in ToSet(a.parts)
  <2>1. CASE Len(a.parts) > 1
    <3>1. a.parts \in Seq(ToSet(a.parts))
      BY DEF IsList
    <3>2. Tail(a.parts)[1] = a.parts[2]
      BY <2>1, <3>1, <1>2, <1>1
    <3>3. 2 \in DOMAIN a.parts
      BY <2>1, <1>2
    <3>4. QED
      BY <1>2, <2>1, <3>2, <3>3
  <2>2. CASE ~ (Len(a.parts) > 1)
    BY <1>1, <1>2, <2>2
  <2>3. QED
    BY <2>1, <2>2
<1>4. QED
  BY <1>1, <1>3

LEMMA RoutedIsNamed ==
  ASSUME NEW m, IsMessage(m), IngestMessage(m).inboxSlug # None
  PROVE  \E part \in ToSet(m.to.parts) \cup ToSet(m.mailboxHash) :
            part.slug = IngestMessage(m).inboxSlug /\ part.suffix = "hex"
<1> DEFINE hash == [parts |-> m.mailboxHash, domain |-> TRUE]
<1>1. IngestMessage(m).inboxSlug = Route(m)
  BY DEF IngestMessage
<1>2. IsList(m.to.parts) /\ IsList(m.mailboxHash) /\ hash.parts = m.mailboxHash
  BY DEF IsMessage
<1>3. \/ Route(m) = ParseInboxAddress(m.to) /\ ParseInboxAddress(m.to) # None
      \/ Route(m) = ParseInboxAddress(hash)
  BY DEF Route
<1> HIDE DEF hash
<1>4. QED
  BY <1>1, <1>2, <1>3, AddressNamesInbox


\* The attachment of a document is the one it was built from.
LEMMA AttachmentOfDocument ==
  ASSUME Shapes, NEW l, IsRecord(l), NEW d \in ToSet(l.documents)
  PROVE  LET a == Attachment(l.message, d.sha256)
         IN  /\ IsAttachment(a) /\ Kept(a) /\ d.detection = BuildDocument(a).detection
             /\ d.status = IF /\ d.detection.error = None
                              /\ d.detection.profile.legalClass = "einvoice"
                           THEN "pending" ELSE "not_einvoice"
<1> DEFINE m == mail[l.message]
           docs == Listed(l.message)
<1>1. l.message \in Messages /\ IsMessage(m)
  BY DEF IsRecord, Shapes
<1>2. PICK i \in (1..l.lines) \cap DOMAIN docs : d = l.documents[i]
  BY DEF IsRecord, ToSet
<1>3. /\ d.sha256 = docs[i].sha256 /\ d.detection = docs[i].detection
      /\ d.status = IF /\ docs[i].detection.error = None
                       /\ docs[i].detection.profile.legalClass = "einvoice"
                    THEN "pending" ELSE "not_einvoice"
  <2>1. l.documents = [j \in (1..l.lines) \cap DOMAIN docs |->
                          [sha256 |-> docs[j].sha256, detection |-> docs[j].detection,
                           status |-> l.documents[j].status]]
    BY DEF IsRecord
  <2>2. d = [sha256 |-> docs[i].sha256, detection |-> docs[i].detection,
             status |-> l.documents[i].status]
    BY <1>2, <2>1
  <2>3. l.documents[i].status = IF /\ docs[i].detection.error = None
                                   /\ docs[i].detection.profile.legalClass = "einvoice"
                                THEN "pending" ELSE "not_einvoice"
    BY DEF IsRecord
  <2> HIDE DEF docs
  <2>4. QED
    BY <1>2, <2>2, <2>3
<1>4. PICK a \in ToSet(m.attachments) : Kept(a) /\ docs[i] = BuildDocument(a)
  BY <1>1, DocumentsAre DEF Listed
<1>5. a.sha256 = d.sha256
  BY <1>3, <1>4 DEF BuildDocument
<1>6. Attachment(l.message, d.sha256) = a
  <2>1. \A b \in ToSet(m.attachments) : b.sha256 = d.sha256 => b = a
    BY <1>1, <1>5 DEF IsMessage
  <2>2. QED
    BY <1>5, <2>1 DEF Attachment
<1>7. IsAttachment(a)
  BY <1>1 DEF IsMessage
<1>8. QED
  BY <1>3, <1>4, <1>6, <1>7

\* What the records say holds of what their messages are.
LEMMA RecordsAreTrue ==
  ASSUME Shapes, RecordsKnown
  PROVE  ReadAsWhatItIs
<1> SUFFICES ASSUME NEW i \in DOMAIN records
             PROVE  LET l == records[i]
                        m == mail[l.message]
        IN  /\ \A d \in ToSet(l.documents) :
                   LET a == Attachment(l.message, d.sha256)
                   IN  /\ d.status = "pending" => \E x \in Begun(a) : FullHeader(x)
                       /\ (\E x \in Carried(a) : FullInvoice(x)) /\ Alone(a) =>
                              d.status = "pending"
                       /\ d.detection.error = None
                            /\ OneFamily(d.detection.profile.urn) =>
                              d.detection.profile.family
                                  \in FamilyOf(d.detection.format)
            /\ l.warnings \cap {"sender_auth_failed", "sender_auth_missing"} = {} =>
                   \E r \in ToSet(m.header) : r.result = "pass"
            /\ l.inboxSlug # None =>
                   \E part \in ToSet(m.to.parts) \cup ToSet(m.mailboxHash) :
                       part.slug = l.inboxSlug /\ part.suffix = "hex"
  BY DEF ReadAsWhatItIs
<1> DEFINE l == records[i]
           m == mail[l.message]
<1>1. IsRecord(l)
  BY DEF RecordsKnown
<1>2. IsMessage(m) /\ l.inboxSlug = IngestMessage(m).inboxSlug
      /\ l.warnings = IngestMessage(m).warnings
  BY <1>1 DEF IsRecord, Shapes
<1>3. ASSUME NEW d \in ToSet(l.documents)
      PROVE  LET a == Attachment(l.message, d.sha256)
             IN  /\ d.status = "pending" => \E x \in Begun(a) : FullHeader(x)
                 /\ (\E x \in Carried(a) : FullInvoice(x)) /\ Alone(a) =>
                        d.status = "pending"
                 /\ d.detection.error = None
                      /\ OneFamily(d.detection.profile.urn) =>
                        d.detection.profile.family \in FamilyOf(d.detection.format)
  <2> DEFINE a == Attachment(l.message, d.sha256)
  <2>1. /\ IsAttachment(a) /\ Kept(a) /\ d.detection = BuildDocument(a).detection
        /\ d.status = IF /\ d.detection.error = None
                         /\ d.detection.profile.legalClass = "einvoice"
                      THEN "pending" ELSE "not_einvoice"
    BY <1>1, AttachmentOfDocument
  <2> HIDE DEF a
  <2>2. d.status = "pending" => \E x \in Begun(a) : FullHeader(x)
    BY <2>1, InvoiceIsCarried
  <2>3. (\E x \in Carried(a) : FullInvoice(x)) /\ Alone(a) => d.status = "pending"
    BY <2>1, CarriedIsInvoice
  <2>4. ASSUME d.detection.error = None, OneFamily(d.detection.profile.urn)
        PROVE  d.detection.profile.family \in FamilyOf(d.detection.format)
    <3>1. d.detection = IF PayloadOf(a) = None THEN Refusal("no_payload")
                        ELSE IF PayloadOf(a).xml = None THEN Refusal("not_xml")
                        ELSE Detect(PayloadOf(a).xml)
      BY <2>1 DEF BuildDocument, DetectBytes
    <3>2. d.detection = Detect(PayloadOf(a).xml)
      BY <2>4, <3>1, MissingAssumption DEF Refusal, Codes
    <3>3. d.detection.profile.urn = PayloadOf(a).xml.urn
      <4>1. d.detection.profile = ClassifyProfile(PayloadOf(a).xml.urn)
        BY <2>4, <3>2, DetectedAre
      <4>2. QED
        BY <4>1 DEF ClassifyProfile
    <3>4. QED
      BY <2>4, <3>2, <3>3, FormatAndProfile
  <2>5. QED
    BY <2>2, <2>3, <2>4 DEF a
<1>4. l.warnings \cap {"sender_auth_failed", "sender_auth_missing"} = {} =>
         \E r \in ToSet(m.header) : r.result = "pass"
  BY <1>2, UnwarnedIsSpokenFor
<1>5. l.inboxSlug # None =>
         \E part \in ToSet(m.to.parts) \cup ToSet(m.mailboxHash) :
            part.slug = l.inboxSlug /\ part.suffix = "hex"
  BY <1>2, RoutedIsNamed
<1>6. QED
  BY <1>3, <1>4, <1>5

\* Every document is recorded as what it is, for every message: what waits for
\* validation begins as an invoice does, in whatever way a PDF is spelled, and
\* an invoice that stands alone in its file waits.
THEOREM ReadRight == Spec => []ReadAsWhatItIs
<1>1. IInv => ReadAsWhatItIs
  BY RecordsAreTrue DEF IInv
<1>2. QED
  BY <1>1, InvInit, InvStep, PTL DEF Spec

=============================================================================
