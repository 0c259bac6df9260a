------------------------- MODULE ArchiveChainProofs -------------------------
(***************************************************************************)
(* What holds of ArchiveChain for every set of documents, days and         *)
(* connections.  IInv says what a transaction knows between its            *)
(* statements: without it none of the invariants is inductive, because     *)
(* SealCommit and ProofServe write what was read several steps earlier.    *)
(* Then Merkle, for every number of leaves: the tree is taken level by     *)
(* level, where prover and verifier can be compared, and AuditInv says     *)
(* what every verdict reached so far is worth.                             *)
(***************************************************************************)
EXTENDS ArchiveChain, Merkle, TLAPS, WellFoundedInduction, SequenceTheorems

\* A sealing transaction has read a committed earlier link and committed
\* entries of its day.
SealerKnows ==
  \A p \in Procs :
    /\ tx[p].at \in {"sealing", "previousRead", "entriesRead"} => tx[p].day \in Days
    /\ tx[p].at \in {"previousRead", "entriesRead"} =>
         \A l \in tx[p].link : l \in chain /\ l.day < tx[p].day
    /\ tx[p].at = "entriesRead" =>
         /\ tx[p].entries \subseteq EntriesForDay(tx[p].day)
         /\ EntriesForDay(tx[p].day) \ tx[p].entries \subseteq overlapped

\* An archiving transaction that shares its day with an open sealing
\* transaction, or with a link, has been recorded.
ArchiverKnows ==
  \A q \in Procs : tx[q].at = "archiving" =>
    /\ tx[q].day \in Days
    /\ (\E p \in Procs : SealOpen(p, tx[q].day)) => tx[q].doc \subseteq overlapped
    /\ LinkForDay(tx[q].day) # {} => tx[q].doc \subseteq overlapped

\* A proving transaction holds the link of its document's day.
ProverKnows ==
  \A p \in Procs : tx[p].at \in {"proving", "proved"} =>
    /\ tx[p].day \in Days
    /\ tx[p].doc \subseteq EntriesForDay(tx[p].day)
    /\ tx[p].link \subseteq LinkForDay(tx[p].day)
    /\ tx[p].at = "proved" => \A l \in tx[p].link : tx[p].doc \subseteq l.root

IInv ==
  /\ TypeOK
  /\ OneLinkPerDay
  /\ RootsAreArchived
  /\ SealedDayComplete
  /\ PrevRootIsEarlierLink
  /\ ServedProofsHold
  /\ SealerKnows
  /\ ArchiverKnows
  /\ ProverKnows

-----------------------------------------------------------------------------
\* Nullable values: what is needed to see that a query that returns at most
\* one row is well typed.
LEMMA OptionalOne ==
  ASSUME NEW S, NEW T, T \subseteq S, \A a, b \in T : a = b
  PROVE  T \in Optional(S)
<1>1. CASE T = {}
  BY <1>1 DEF Optional
<1>2. CASE \E a \in T : TRUE
  <2>1. PICK a \in T : TRUE
    BY <1>2
  <2>2. T = {a}
    BY <2>1
  <2>. QED
    BY <2>1, <2>2 DEF Optional
<1>. QED
  BY <1>1, <1>2

LEMMA OptionalSingle == ASSUME NEW S, NEW v \in S PROVE {v} \in Optional(S)
BY DEF Optional

LEMMA OptionalElement ==
  ASSUME NEW S, NEW T \in Optional(S)
  PROVE  T \subseteq S /\ \A a, b \in T : a = b
BY DEF Optional

\* linkForDay and the read of the previous link return at most one row.
LEMMA LinkQueries ==
  ASSUME TypeOK, OneLinkPerDay
  PROVE  /\ LatestLink \in Optional(Link)
         /\ \A day : LinkForDay(day) \in Optional(Link)
<1>1. ASSUME NEW a \in LatestLink, NEW b \in LatestLink PROVE a = b
  <2>1. a \in chain /\ b \in chain /\ a.day <= b.day /\ b.day <= a.day
    BY <1>1 DEF LatestLink
  <2>2. a.day \in Int /\ b.day \in Int
    BY <2>1, MaxDayAssumption DEF TypeOK, Link, Days
  <2>. QED
    BY <2>1, <2>2 DEF OneLinkPerDay
<1>2. LatestLink \subseteq Link
  BY DEF LatestLink, TypeOK
<1>3. ASSUME NEW day PROVE LinkForDay(day) \in Optional(Link)
  <2>1. LinkForDay(day) \subseteq Link
    BY DEF LinkForDay, TypeOK
  <2>2. \A a, b \in LinkForDay(day) : a = b
    BY DEF LinkForDay, OneLinkPerDay
  <2>. QED
    BY <2>1, <2>2, OptionalOne
<1>. QED
  BY <1>1, <1>2, <1>3, OptionalOne

LEMMA IdleIsTx == Idle \in Tx
BY MaxDayAssumption DEF Idle, Tx, Steps, Optional

\* The link a seal writes is a row of archive_chain.
LEMMA SealedLinkType ==
  ASSUME TypeOK, NEW p \in Procs, tx[p].day \in Days
  PROVE  SealedLink(p) \in Link
<1>1. tx[p] \in Tx
  BY DEF TypeOK
<1>2. tx[p].link \in Optional(Link) /\ tx[p].entries \in SUBSET Docs
  BY <1>1 DEF Tx
<1>3. {l.root : l \in tx[p].link} \in Optional(SUBSET Docs)
  <2>1. \A l \in tx[p].link : l.root \in SUBSET Docs
    <3>1. tx[p].link \subseteq Link
      BY <1>2, OptionalElement
    <3>. QED
      BY <3>1 DEF Link
  <2>2. \A a, b \in tx[p].link : a = b
    BY <1>2, OptionalElement
  <2>3. \A r, s \in {l.root : l \in tx[p].link} : r = s
    BY <2>2
  <2>4. {l.root : l \in tx[p].link} \subseteq SUBSET Docs
    BY <2>1
  <2>. QED
    BY <2>3, <2>4, OptionalOne
<1>. QED
  BY <1>2, <1>3 DEF SealedLink, Link

-----------------------------------------------------------------------------
LEMMA TypeInit == Init => TypeOK
BY MaxDayAssumption, IdleIsTx DEF Init, TypeOK

LEMMA TypeStep ==
  ASSUME TypeOK, OneLinkPerDay, SealerKnows, [Next]_vars
  PROVE  TypeOK'
<1>. USE MaxDayAssumption DEF TypeOK, db
<1>a. \A p \in Procs : tx[p] \in Tx
  OBVIOUS
<1>1. ASSUME NEW p \in Procs, NEW d \in Docs, NEW day \in Days, ArchiveCheck(p, d, day)
      PROVE  TypeOK'
  <2>1. {d} \in Optional(Docs) /\ day \in 0..MaxDay
    BY OptionalSingle DEF Days
  <2>2. [Idle EXCEPT !.at = "archiving", !.doc = {d}, !.day = day] \in Tx
    BY <2>1, IdleIsTx DEF Tx, Steps
  <2>. QED
    BY <1>1, <2>2 DEF ArchiveCheck, Begin
<1>2. ASSUME NEW p \in Procs, ArchiveCommit(p)
      PROVE  TypeOK'
  BY <1>2, <1>a, IdleIsTx DEF ArchiveCommit, End, Tx
<1>3. ASSUME NEW p \in Procs, NEW day \in Days, SealBegin(p, day)
      PROVE  TypeOK'
  <2>1. [Idle EXCEPT !.at = "sealing", !.day = day] \in Tx
    <3>1. day \in 0..MaxDay
      BY DEF Days
    <3>. QED
      BY <3>1, IdleIsTx DEF Tx, Steps
  <2>2. \A q \in Procs : tx[q].doc \subseteq Docs
    BY <1>a, OptionalElement DEF Tx
  <2>. QED
    BY <1>3, <2>1, <2>2 DEF SealBegin, Begin
<1>4. ASSUME NEW p \in Procs, SealReadPrevious(p)
      PROVE  TypeOK'
  <2>1. [tx[p] EXCEPT !.at = "previousRead", !.link = LatestLink] \in Tx
    BY <1>a, LinkQueries DEF Tx, Steps
  <2>2. tx' = [tx EXCEPT ![p] = [tx[p] EXCEPT !.at = "previousRead", !.link = LatestLink]]
    BY <1>4, <1>a DEF SealReadPrevious, Tx
  <2>. QED
    BY <1>4, <2>1, <2>2 DEF SealReadPrevious
<1>5. ASSUME NEW p \in Procs, SealReadEntries(p)
      PROVE  TypeOK'
  <2>1. EntriesForDay(tx[p].day) \in SUBSET Docs
    BY DEF EntriesForDay
  <2>. QED
    BY <1>5, <1>a, <2>1 DEF SealReadEntries, Tx, Steps
<1>6. ASSUME NEW p \in Procs, SealCommit(p)
      PROVE  TypeOK'
  <2>1. SealedLink(p) \in Link
    BY <1>6, SealedLinkType DEF SealerKnows, SealCommit
  <2>. QED
    BY <1>6, <2>1, IdleIsTx DEF SealCommit, End
<1>7. ASSUME NEW p \in Procs, NEW d \in Docs, ProofReadLink(p, d)
      PROVE  TypeOK'
  <2>1. [Idle EXCEPT !.at = "proving", !.doc = {d}, !.day = archivedOn[d],
                     !.link = LinkForDay(archivedOn[d])] \in Tx
    <3>1. {d} \in Optional(Docs)
      BY OptionalSingle
    <3>2. LinkForDay(archivedOn[d]) \in Optional(Link)
      BY LinkQueries
    <3>. QED
      BY <3>1, <3>2, IdleIsTx DEF Tx, Steps
  <2>. QED
    BY <1>7, <2>1 DEF ProofReadLink, Begin
<1>8. ASSUME NEW p \in Procs, ProofReadEntries(p)
      PROVE  TypeOK'
  BY <1>8, <1>a DEF ProofReadEntries, Tx, Steps
<1>9. ASSUME NEW p \in Procs, ProofServe(p)
      PROVE  TypeOK'
  <2>1. tx[p].doc \subseteq Docs /\ tx[p].link \subseteq Link
    BY <1>a, OptionalElement DEF Tx
  <2>2. LinksUpTo(tx[p].day) \subseteq Link
    BY DEF LinksUpTo
  <2>3. served' \subseteq Proof
    BY <1>9, <2>1, <2>2 DEF ProofServe, Proof
  <2>. QED
    BY <1>9, <2>3, IdleIsTx DEF ProofServe, End
<1>10. ASSUME NEW p \in Procs, Abort(p)
       PROVE  TypeOK'
  BY <1>10, IdleIsTx DEF Abort, End
<1>11. ASSUME Midnight PROVE TypeOK'
  BY <1>11 DEF Midnight
<1>12. CASE UNCHANGED vars
  BY <1>12 DEF vars
<1>. QED
  BY <1>1, <1>2, <1>3, <1>4, <1>5, <1>6, <1>7, <1>8, <1>9, <1>10, <1>11, <1>12
     DEF Next, Archive, Seal, Prove, Procs

-----------------------------------------------------------------------------
\* Every step only adds: the rows of the chain and the archived columns are
\* written once.
LEMMA DbStep ==
  ASSUME TypeOK, [Next]_vars
  PROVE  /\ chain \subseteq chain'
         /\ overlapped \subseteq overlapped'
         /\ \A d \in Docs : archivedOn[d] # 0 => archivedOn'[d] = archivedOn[d]
<1>. USE DEF db
<1>1. ASSUME NEW p \in Procs, ArchiveCommit(p)
      PROVE  \A d \in Docs : archivedOn[d] # 0 => archivedOn'[d] = archivedOn[d]
  BY <1>1 DEF ArchiveCommit
<1>2. ASSUME NEW p \in Procs, ArchiveCommit(p)
      PROVE  chain' = chain /\ overlapped' = overlapped
  BY <1>2 DEF ArchiveCommit
<1>3. ASSUME NEW p \in Procs, SealCommit(p)
      PROVE  chain \subseteq chain' /\ UNCHANGED <<overlapped, archivedOn>>
  BY <1>3 DEF SealCommit
<1>4. ASSUME NEW p \in Procs, NEW d \in Docs, NEW day \in Days,
             ArchiveCheck(p, d, day) \/ SealBegin(p, day)
      PROVE  overlapped \subseteq overlapped' /\ UNCHANGED <<chain, archivedOn>>
  BY <1>4 DEF ArchiveCheck, SealBegin
<1>5. ASSUME NEW p \in Procs, NEW day \in Days, SealBegin(p, day)
      PROVE  overlapped \subseteq overlapped' /\ UNCHANGED <<chain, archivedOn>>
  BY <1>5 DEF SealBegin
<1>6. ASSUME NEW p \in Procs, NEW d \in Docs,
             \/ SealReadPrevious(p) \/ SealReadEntries(p) \/ ProofReadLink(p, d)
      PROVE  UNCHANGED <<overlapped, chain, archivedOn>>
  BY <1>6 DEF SealReadPrevious, SealReadEntries, ProofReadLink
<1>7. ASSUME NEW p \in Procs,
             \/ SealReadPrevious(p) \/ SealReadEntries(p) \/ ProofReadEntries(p)
             \/ ProofServe(p) \/ Abort(p)
      PROVE  UNCHANGED <<overlapped, chain, archivedOn>>
  BY <1>7 DEF SealReadPrevious, SealReadEntries, ProofReadEntries, ProofServe, Abort
<1>8. CASE Midnight \/ UNCHANGED vars
  BY <1>8 DEF Midnight, vars
<1>. QED
  BY <1>1, <1>2, <1>3, <1>4, <1>5, <1>6, <1>7, <1>8
     DEF Next, Archive, Seal, Prove, Procs

\* What a day's entries are only grows, and only for days of the calendar.
LEMMA EntriesGrow ==
  ASSUME TypeOK, [Next]_vars, NEW day \in Days
  PROVE  EntriesForDay(day) \subseteq EntriesForDay(day)'
BY DbStep DEF EntriesForDay, Days

\* The only writes: archiveDocument's to documents, sealArchiveDay's to
\* archive_chain, never both at once.
LEMMA WriteStep ==
  ASSUME [Next]_vars
  PROVE  \/ UNCHANGED <<chain, archivedOn>>
         \/ \E p \in Procs : SealCommit(p) /\ UNCHANGED archivedOn
         \/ \E p \in Procs : ArchiveCommit(p) /\ UNCHANGED chain
<1>. USE DEF db
<1>1. ASSUME NEW p \in Procs, NEW d \in Docs, NEW day \in Days,
             ArchiveCheck(p, d, day) \/ SealBegin(p, day) \/ ProofReadLink(p, d)
      PROVE  UNCHANGED <<chain, archivedOn>>
  BY <1>1 DEF ArchiveCheck, SealBegin, ProofReadLink
<1>2. ASSUME NEW p \in Procs, NEW day \in Days, SealBegin(p, day)
      PROVE  UNCHANGED <<chain, archivedOn>>
  BY <1>2 DEF SealBegin
<1>3. ASSUME NEW p \in Procs, NEW d \in Docs, ProofReadLink(p, d)
      PROVE  UNCHANGED <<chain, archivedOn>>
  BY <1>3 DEF ProofReadLink
<1>4. ASSUME NEW p \in Procs,
             \/ SealReadPrevious(p) \/ SealReadEntries(p) \/ ProofReadEntries(p)
             \/ ProofServe(p) \/ Abort(p)
      PROVE  UNCHANGED <<chain, archivedOn>>
  BY <1>4 DEF SealReadPrevious, SealReadEntries, ProofReadEntries, ProofServe, Abort
<1>5. ASSUME NEW p \in Procs, ArchiveCommit(p) PROVE UNCHANGED chain
  BY <1>5 DEF ArchiveCommit
<1>6. ASSUME NEW p \in Procs, SealCommit(p) PROVE UNCHANGED archivedOn
  BY <1>6 DEF SealCommit
<1>7. CASE Midnight \/ UNCHANGED vars
  BY <1>7 DEF Midnight, vars
<1>. QED
  BY <1>1, <1>2, <1>3, <1>4, <1>5, <1>6, <1>7 DEF Next, Archive, Seal, Prove, Procs

-----------------------------------------------------------------------------
LEMMA OneLinkStep ==
  ASSUME TypeOK, OneLinkPerDay, [Next]_vars
  PROVE  OneLinkPerDay'
<1>1. CASE chain' = chain
  BY <1>1 DEF OneLinkPerDay
<1>2. ASSUME NEW p \in Procs, SealCommit(p)
      PROVE  OneLinkPerDay'
  <2>1. \A k \in chain : k.day # SealedLink(p).day
    BY <1>2 DEF SealCommit, LinkForDay, SealedLink
  <2>2. chain' = chain \cup {SealedLink(p)}
    BY <1>2 DEF SealCommit
  <2>. QED
    BY <2>1, <2>2 DEF OneLinkPerDay
<1>. QED
  BY <1>1, <1>2, WriteStep

LEMMA RootsStep ==
  ASSUME TypeOK, RootsAreArchived, SealerKnows, [Next]_vars
  PROVE  RootsAreArchived'
<1>1. ASSUME NEW l \in chain
      PROVE  l.root \subseteq EntriesForDay(l.day)'
  <2>1. l.day \in Days
    BY DEF TypeOK, Link
  <2>. QED
    BY <2>1, EntriesGrow DEF RootsAreArchived
<1>2. ASSUME NEW p \in Procs, SealCommit(p)
      PROVE  RootsAreArchived'
  <2>1. chain' = chain \cup {SealedLink(p)} /\ tx[p].day \in Days
        /\ tx[p].entries \subseteq EntriesForDay(tx[p].day)
    BY <1>2 DEF SealCommit, SealerKnows
  <2>2. SealedLink(p).root = tx[p].entries /\ SealedLink(p).day = tx[p].day
    BY DEF SealedLink
  <2>3. archivedOn' = archivedOn
    BY <1>2 DEF SealCommit
  <2>4. ASSUME NEW l \in chain'
        PROVE  l.root \subseteq EntriesForDay(l.day)'
    <3>1. CASE l \in chain
      BY <1>1, <3>1
    <3>2. CASE l = SealedLink(p)
      <4>1. l.root \subseteq EntriesForDay(l.day)
        BY <2>1, <2>2, <3>2
      <4>. QED
        BY <4>1, <2>3 DEF EntriesForDay
    <3>. QED
      BY <2>1, <3>1, <3>2
  <2>. QED
    BY <2>4 DEF RootsAreArchived
<1>3. ASSUME chain' = chain
      PROVE  RootsAreArchived'
  BY <1>1, <1>3 DEF RootsAreArchived
<1>. QED
  BY <1>2, <1>3, WriteStep

LEMMA PrevRootStep ==
  ASSUME TypeOK, PrevRootIsEarlierLink, SealerKnows, [Next]_vars
  PROVE  PrevRootIsEarlierLink'
<1>1. CASE chain' = chain
  BY <1>1 DEF PrevRootIsEarlierLink
<1>2. ASSUME NEW p \in Procs, SealCommit(p)
      PROVE  PrevRootIsEarlierLink'
  <2>1. chain' = chain \cup {SealedLink(p)}
        /\ \A l \in tx[p].link : l \in chain /\ l.day < tx[p].day
    BY <1>2 DEF SealCommit, SealerKnows
  <2>2. SealedLink(p).prevRoot = {l.root : l \in tx[p].link}
        /\ SealedLink(p).day = tx[p].day
    BY DEF SealedLink
  <2>3. \A r \in SealedLink(p).prevRoot :
          \E k \in chain : k.day < SealedLink(p).day /\ k.root = r
    BY <2>1, <2>2
  <2>. QED
    BY <2>1, <2>3 DEF PrevRootIsEarlierLink
<1>. QED
  BY <1>1, <1>2, WriteStep

\* A document that reaches a sealed day without being under its root shared
\* the seal's time: ArchiverKnows carries the record to the commit of the
\* archive, SealerKnows to the commit of the seal.
LEMMA CompleteStep ==
  ASSUME TypeOK, SealedDayComplete, SealerKnows, ArchiverKnows, [Next]_vars
  PROVE  SealedDayComplete'
<1>a. overlapped \subseteq overlapped'
  BY DbStep
<1>1. CASE UNCHANGED <<chain, archivedOn>>
  BY <1>1, <1>a DEF SealedDayComplete, EntriesForDay
<1>2. ASSUME NEW p \in Procs, SealCommit(p), UNCHANGED archivedOn
      PROVE  SealedDayComplete'
  <2>1. /\ chain' = chain \cup {SealedLink(p)}
        /\ EntriesForDay(tx[p].day) \ tx[p].entries \subseteq overlapped
    BY <1>2 DEF SealCommit, SealerKnows
  <2>2. SealedLink(p).root = tx[p].entries /\ SealedLink(p).day = tx[p].day
    BY DEF SealedLink
  <2>3. \A l \in chain' : EntriesForDay(l.day) \ l.root \subseteq overlapped
    BY <2>1, <2>2 DEF SealedDayComplete
  <2>. QED
    BY <1>2, <1>a, <2>3 DEF SealedDayComplete, EntriesForDay
<1>3. ASSUME NEW p \in Procs, ArchiveCommit(p), UNCHANGED chain
      PROVE  SealedDayComplete'
  <2>1. SUFFICES ASSUME NEW l \in chain, NEW d \in Docs,
                        archivedOn'[d] = l.day, d \notin l.root
                 PROVE  d \in overlapped
    BY <1>3, <1>a DEF SealedDayComplete, EntriesForDay
  <2>2. CASE d \notin tx[p].doc
    <3>1. archivedOn[d] = l.day
      BY <1>3, <2>1, <2>2 DEF ArchiveCommit
    <3>. QED
      BY <2>1, <3>1 DEF SealedDayComplete, EntriesForDay
  <2>3. CASE d \in tx[p].doc
    <3>1. l.day = tx[p].day
      BY <1>3, <2>1, <2>3 DEF ArchiveCommit
    <3>2. LinkForDay(tx[p].day) # {}
      BY <2>1, <3>1 DEF LinkForDay
    <3>. QED
      BY <1>3, <2>3, <3>2 DEF ArchiveCommit, ArchiverKnows
  <2>. QED
    BY <2>2, <2>3
<1>. QED
  BY <1>1, <1>2, <1>3, WriteStep

LEMMA ServedStep ==
  ASSUME TypeOK, OneLinkPerDay, ServedProofsHold, ProverKnows, [Next]_vars
  PROVE  ServedProofsHold'
<1>a. chain \subseteq chain' /\ OneLinkPerDay'
  BY DbStep, OneLinkStep
<1>b. \A d \in Docs : archivedOn[d] # 0 => archivedOn'[d] = archivedOn[d]
  BY DbStep
<1>1. ASSUME NEW s \in served
      PROVE  /\ LinkForDay(s.link.day)' = {s.link}
             /\ s.doc \in s.link.root
             /\ archivedOn'[s.doc] = s.link.day
             /\ s.link \in s.chain
             /\ s.chain \subseteq chain'
  <2>1. s.doc \in Docs /\ s.link.day \in Days
    BY DEF TypeOK, Proof, Link
  <2>2. s.link \in chain
    BY DEF ServedProofsHold, LinkForDay
  <2>3. LinkForDay(s.link.day)' = {s.link}
    BY <1>a, <2>2 DEF LinkForDay, OneLinkPerDay
  <2>. QED
    BY <1>a, <1>b, <2>1, <2>3 DEF ServedProofsHold, Days
<1>2. CASE served' = served
  BY <1>1, <1>2 DEF ServedProofsHold
<1>3. ASSUME NEW p \in Procs, ProofServe(p)
      PROVE  ServedProofsHold'
  <2>1. chain' = chain /\ archivedOn' = archivedOn
    BY <1>3 DEF ProofServe, db
  <2>2. ASSUME NEW d \in tx[p].doc, NEW l \in tx[p].link
        PROVE  /\ l \in chain /\ l.day = tx[p].day
               /\ LinkForDay(l.day) = {l}
               /\ d \in l.root
               /\ archivedOn[d] = l.day
               /\ l \in LinksUpTo(tx[p].day)
    <3>1. l \in chain /\ l.day = tx[p].day
      BY <1>3 DEF ProofServe, ProverKnows, LinkForDay
    <3>2. d \in l.root /\ archivedOn[d] = l.day
      BY <1>3, <3>1 DEF ProofServe, ProverKnows, EntriesForDay
    <3>3. LinkForDay(l.day) = {l}
      BY <3>1 DEF LinkForDay, OneLinkPerDay
    <3>4. l.day \in Int
      BY <3>1 DEF TypeOK, Link, Days
    <3>. QED
      BY <3>1, <3>2, <3>3, <3>4 DEF LinksUpTo
  <2>3. LinksUpTo(tx[p].day) \subseteq chain
    BY DEF LinksUpTo
  <2>4. served' = served \cup
          {[doc |-> d, link |-> l, chain |-> LinksUpTo(tx[p].day)] :
             d \in tx[p].doc, l \in tx[p].link}
    BY <1>3 DEF ProofServe
  <2>5. ASSUME NEW s \in served', s \notin served
        PROVE  /\ LinkForDay(s.link.day) = {s.link}
               /\ s.doc \in s.link.root
               /\ archivedOn[s.doc] = s.link.day
               /\ s.link \in s.chain
               /\ s.chain \subseteq chain
    <3>1. PICK d \in tx[p].doc, l \in tx[p].link :
            s = [doc |-> d, link |-> l, chain |-> LinksUpTo(tx[p].day)]
      BY <2>4, <2>5
    <3>. QED
      BY <2>2, <2>3, <3>1
  <2>. QED
    BY <1>1, <2>1, <2>5 DEF ServedProofsHold, LinkForDay
<1>4. served' = served \/ \E p \in Procs : ProofServe(p)
  <2>1. ASSUME NEW p \in Procs, NEW d \in Docs, NEW day \in Days,
               \/ ArchiveCheck(p, d, day) \/ SealBegin(p, day) \/ ProofReadLink(p, d)
        PROVE  served' = served
    BY <2>1 DEF ArchiveCheck, SealBegin, ProofReadLink
  <2>2. ASSUME NEW p \in Procs, NEW day \in Days, SealBegin(p, day)
        PROVE  served' = served
    BY <2>2 DEF SealBegin
  <2>3. ASSUME NEW p \in Procs, NEW d \in Docs, ProofReadLink(p, d)
        PROVE  served' = served
    BY <2>3 DEF ProofReadLink
  <2>4. ASSUME NEW p \in Procs,
               \/ ArchiveCommit(p) \/ SealReadPrevious(p) \/ SealReadEntries(p)
               \/ SealCommit(p) \/ ProofReadEntries(p) \/ Abort(p)
        PROVE  served' = served
    BY <2>4 DEF ArchiveCommit, SealReadPrevious, SealReadEntries, SealCommit,
               ProofReadEntries, Abort
  <2>5. CASE Midnight \/ UNCHANGED vars
    BY <2>5 DEF Midnight, vars
  <2>. QED
    BY <2>1, <2>2, <2>3, <2>4, <2>5 DEF Next, Archive, Seal, Prove, Procs
<1>. QED
  BY <1>2, <1>3, <1>4

-----------------------------------------------------------------------------
\* What a step does to the transaction of one connection: nothing, end it, or
\* one of its own statements.
LEMMA TxStep ==
  ASSUME TypeOK, [Next]_vars, NEW q \in Procs
  PROVE  \/ tx'[q] = tx[q]
         \/ tx'[q] = Idle
         \/ \E d \in Docs, day \in Days : ArchiveCheck(q, d, day)
         \/ \E day \in Days : SealBegin(q, day)
         \/ SealReadPrevious(q)
         \/ SealReadEntries(q)
         \/ \E d \in Docs : ProofReadLink(q, d)
         \/ ProofReadEntries(q)
<1>a. \A p \in Procs : tx[p] \in Tx
  BY DEF TypeOK
<1>b. tx = [p \in Procs |-> tx[p]]
  BY DEF TypeOK
<1>1. ASSUME NEW p \in Procs, NEW d \in Docs, NEW day \in Days, ArchiveCheck(p, d, day), p # q
      PROVE  tx'[q] = tx[q]
  BY <1>1, <1>b DEF ArchiveCheck, Begin
<1>2. ASSUME NEW p \in Procs, NEW day \in Days, SealBegin(p, day), p # q
      PROVE  tx'[q] = tx[q]
  BY <1>2, <1>b DEF SealBegin, Begin
<1>3. ASSUME NEW p \in Procs, NEW d \in Docs, ProofReadLink(p, d), p # q
      PROVE  tx'[q] = tx[q]
  BY <1>3, <1>b DEF ProofReadLink, Begin
<1>4. ASSUME NEW p \in Procs, p # q,
             SealReadPrevious(p) \/ SealReadEntries(p) \/ ProofReadEntries(p)
      PROVE  tx'[q] = tx[q]
  BY <1>4, <1>b DEF SealReadPrevious, SealReadEntries, ProofReadEntries
<1>5. ASSUME NEW p \in Procs,
             ArchiveCommit(p) \/ SealCommit(p) \/ ProofServe(p) \/ Abort(p)
      PROVE  tx'[q] = tx[q] \/ tx'[q] = Idle
  BY <1>5, <1>b DEF ArchiveCommit, SealCommit, ProofServe, Abort, End
<1>6. CASE Midnight \/ UNCHANGED vars
  BY <1>6 DEF Midnight, vars
<1>. QED
  BY <1>1, <1>2, <1>3, <1>4, <1>5, <1>6 DEF Next, Archive, Seal, Prove, Procs

\* The record of overlapping transactions protects what a sealer has read from
\* a concurrent archive commit.
LEMMA SealerStep ==
  ASSUME TypeOK, OneLinkPerDay, SealerKnows, ArchiverKnows, [Next]_vars
  PROVE  SealerKnows'
<1>. DEFINE Good(q) ==
       /\ tx[q].at \in {"sealing", "previousRead", "entriesRead"} => tx[q].day \in Days
       /\ tx[q].at \in {"previousRead", "entriesRead"} =>
            \A l \in tx[q].link : l \in chain /\ l.day < tx[q].day
       /\ tx[q].at = "entriesRead" =>
            /\ tx[q].entries \subseteq EntriesForDay(tx[q].day)
            /\ EntriesForDay(tx[q].day) \ tx[q].entries \subseteq overlapped
<1>a. chain \subseteq chain' /\ overlapped \subseteq overlapped'
  BY DbStep
<1>b. \A q \in Procs : tx[q] \in Tx
  BY DEF TypeOK
<1>c. tx = [p \in Procs |-> tx[p]]
  BY DEF TypeOK
<1>1. SUFFICES ASSUME NEW q \in Procs PROVE Good(q)'
  BY DEF SealerKnows
<1>2. Good(q)
  BY DEF SealerKnows
<1>3. CASE tx'[q] = tx[q]
  <2>1. ASSUME tx[q].at = "entriesRead"
        PROVE  /\ tx[q].entries \subseteq {d \in Docs : archivedOn'[d] = tx[q].day}
               /\ {d \in Docs : archivedOn'[d] = tx[q].day} \ tx[q].entries \subseteq overlapped
    <3>1. CASE UNCHANGED archivedOn
      BY <1>2, <2>1, <3>1 DEF EntriesForDay
    <3>2. ASSUME NEW p \in Procs, ArchiveCommit(p)
          PROVE  {d \in Docs : archivedOn'[d] = tx[q].day} \ tx[q].entries \subseteq overlapped
      <4>1. CASE tx[p].day = tx[q].day
        <5>1. SealOpen(q, tx[p].day) /\ tx[p].at = "archiving"
          BY <2>1, <3>2, <4>1 DEF SealOpen, ArchiveCommit
        <5>2. tx[p].doc \subseteq overlapped
          BY <5>1 DEF ArchiverKnows
        <5>. QED
          BY <1>2, <2>1, <3>2, <5>2 DEF ArchiveCommit, EntriesForDay
      <4>2. CASE tx[p].day # tx[q].day
        BY <1>2, <2>1, <3>2, <4>2 DEF ArchiveCommit, EntriesForDay
      <4>. QED
        BY <4>1, <4>2
    <3>3. tx[q].entries \subseteq {d \in Docs : archivedOn'[d] = tx[q].day}
      BY <1>2, <2>1, EntriesGrow DEF EntriesForDay
    <3>. QED
      BY <3>1, <3>2, <3>3, WriteStep
  <2>. QED
    BY <1>2, <1>3, <1>a, <2>1 DEF EntriesForDay
<1>4. CASE tx'[q] = Idle
  BY <1>4 DEF Idle
<1>5. ASSUME NEW d \in Docs, NEW day \in Days, ArchiveCheck(q, d, day)
      PROVE  Good(q)'
  <2>1. tx'[q].at = "archiving"
    BY <1>5, <1>c DEF ArchiveCheck, Begin, Idle
  <2>. QED
    BY <2>1
<1>6. ASSUME NEW day \in Days, SealBegin(q, day)
      PROVE  Good(q)'
  <2>1. tx'[q].at = "sealing" /\ tx'[q].day = day
    BY <1>6, <1>c DEF SealBegin, Begin, Idle
  <2>. QED
    BY <2>1
<1>7. ASSUME SealReadPrevious(q)
      PROVE  Good(q)'
  <2>1. /\ tx'[q].at = "previousRead" /\ tx'[q].day = tx[q].day
        /\ tx'[q].link = LatestLink /\ tx[q].at = "sealing"
    BY <1>7, <1>b, <1>c DEF SealReadPrevious, Tx
  <2>2. \A l \in LatestLink : l \in chain /\ l.day < tx[q].day
    BY <1>7 DEF SealReadPrevious, LatestLink
  <2>. QED
    BY <1>2, <1>a, <2>1, <2>2
<1>8. ASSUME SealReadEntries(q)
      PROVE  Good(q)'
  <2>1. /\ tx'[q].at = "entriesRead" /\ tx'[q].day = tx[q].day
        /\ tx'[q].link = tx[q].link /\ tx[q].at = "previousRead"
        /\ tx'[q].entries = EntriesForDay(tx[q].day)
        /\ archivedOn' = archivedOn
    BY <1>8, <1>b, <1>c DEF SealReadEntries, Tx, db
  <2>. QED
    BY <1>2, <1>a, <2>1 DEF EntriesForDay
<1>9. ASSUME NEW d \in Docs, ProofReadLink(q, d)
      PROVE  Good(q)'
  <2>1. tx'[q].at = "proving"
    BY <1>9, <1>c DEF ProofReadLink, Begin, Idle
  <2>. QED
    BY <2>1
<1>10. ASSUME ProofReadEntries(q)
       PROVE  Good(q)'
  <2>1. tx'[q].at = "proved"
    BY <1>10, <1>b, <1>c DEF ProofReadEntries, Tx
  <2>. QED
    BY <2>1
<1>. HIDE DEF Good
<1>. QED
  BY <1>3, <1>4, <1>5, <1>6, <1>7, <1>8, <1>9, <1>10, TxStep

\* A sealing transaction that is open after a step was open before it, or has
\* just begun and recorded every archiving transaction of its day.
LEMMA SealOpenStep ==
  ASSUME TypeOK, [Next]_vars, NEW p \in Procs, NEW q \in Procs,
         SealOpen(p, tx[q].day)', tx'[q] = tx[q], tx[q].at = "archiving"
  PROVE  SealOpen(p, tx[q].day) \/ tx[q].doc \subseteq overlapped'
<1>a. tx[p] \in Tx /\ tx = [r \in Procs |-> tx[r]]
  BY DEF TypeOK
<1>b. tx'[p].day = tx[q].day /\ tx'[p].at \in {"sealing", "previousRead", "entriesRead"}
  BY DEF SealOpen
<1>1. CASE tx'[p] = tx[p]
  BY <1>b, <1>1 DEF SealOpen
<1>2. CASE tx'[p] = Idle
  BY <1>b, <1>2 DEF Idle
<1>3. ASSUME NEW d \in Docs, NEW day \in Days, ArchiveCheck(p, d, day)
      PROVE  FALSE
  BY <1>b, <1>3, <1>a DEF ArchiveCheck, Begin, Idle
<1>4. ASSUME NEW day \in Days, SealBegin(p, day)
      PROVE  tx[q].doc \subseteq overlapped'
  <2>1. tx'[p].day = day
    BY <1>4, <1>a DEF SealBegin, Begin, Idle
  <2>2. ArchiveOpen(q, day)
    BY <1>b, <2>1 DEF ArchiveOpen
  <2>. QED
    BY <1>4, <2>2 DEF SealBegin
<1>5. ASSUME SealReadPrevious(p) \/ SealReadEntries(p)
      PROVE  SealOpen(p, tx[q].day)
  <2>1. tx'[p].day = tx[p].day
    BY <1>5, <1>a DEF SealReadPrevious, SealReadEntries, Tx
  <2>. QED
    BY <1>b, <1>5, <2>1 DEF SealReadPrevious, SealReadEntries, SealOpen
<1>6. ASSUME NEW d \in Docs, ProofReadLink(p, d)
      PROVE  FALSE
  BY <1>b, <1>6, <1>a DEF ProofReadLink, Begin, Idle
<1>7. ASSUME ProofReadEntries(p)
      PROVE  FALSE
  BY <1>b, <1>7, <1>a DEF ProofReadEntries, Tx
<1>. QED
  BY <1>1, <1>2, <1>3, <1>4, <1>5, <1>6, <1>7, TxStep

LEMMA ArchiverStep ==
  ASSUME TypeOK, ArchiverKnows, SealerKnows, [Next]_vars
  PROVE  ArchiverKnows'
<1>a. chain \subseteq chain' /\ overlapped \subseteq overlapped'
  BY DbStep
<1>c. tx = [p \in Procs |-> tx[p]] /\ \A p \in Procs : tx[p] \in Tx
  BY DEF TypeOK
<1>1. SUFFICES ASSUME NEW q \in Procs, tx'[q].at = "archiving"
               PROVE  /\ tx'[q].day \in Days
                      /\ (\E p \in Procs : SealOpen(p, tx[q].day)') =>
                            tx'[q].doc \subseteq overlapped'
                      /\ LinkForDay(tx[q].day)' # {} => tx'[q].doc \subseteq overlapped'
  BY DEF ArchiverKnows
<1>2. CASE tx'[q] = tx[q]
  <2>1. ASSUME NEW p \in Procs, SealOpen(p, tx[q].day)'
        PROVE  tx[q].doc \subseteq overlapped'
    <3>1. CASE SealOpen(p, tx[q].day)
      BY <1>1, <1>2, <1>a, <3>1 DEF ArchiverKnows
    <3>. QED
      BY <1>1, <1>2, <2>1, <3>1, SealOpenStep
  <2>2. ASSUME LinkForDay(tx[q].day)' # {}
        PROVE  tx[q].doc \subseteq overlapped'
    <3>1. CASE LinkForDay(tx[q].day) # {}
      BY <1>1, <1>2, <1>a, <3>1 DEF ArchiverKnows
    <3>2. CASE UNCHANGED chain
      BY <1>1, <1>2, <2>2, <3>1, <3>2 DEF LinkForDay
    <3>3. ASSUME NEW p \in Procs, SealCommit(p)
          PROVE  tx[q].doc \subseteq overlapped'
      <4>1. CASE tx[p].day = tx[q].day
        <5>1. SealOpen(p, tx[q].day)
          BY <3>3, <4>1 DEF SealOpen, SealCommit
        <5>. QED
          BY <1>1, <1>2, <1>a, <5>1 DEF ArchiverKnows
      <4>2. CASE tx[p].day # tx[q].day
        <5>1. LinkForDay(tx[q].day) # {}
          BY <1>2, <2>2, <3>3, <4>2 DEF LinkForDay, SealCommit, SealedLink
        <5>. QED
          BY <3>1, <5>1
      <4>. QED
        BY <4>1, <4>2
    <3>. QED
      BY <3>2, <3>3, WriteStep
  <2>. QED
    BY <1>1, <1>2, <2>1, <2>2 DEF ArchiverKnows
<1>3. CASE tx'[q] = Idle
  BY <1>1, <1>3 DEF Idle
<1>4. ASSUME NEW d \in Docs, NEW day \in Days, ArchiveCheck(q, d, day)
      PROVE  /\ tx'[q].day \in Days
             /\ (\E p \in Procs : SealOpen(p, tx[q].day)') =>
                   tx'[q].doc \subseteq overlapped'
             /\ LinkForDay(tx[q].day)' # {} => tx'[q].doc \subseteq overlapped'
  <2>1. tx'[q].day = day /\ tx'[q].doc = {d} /\ tx'[q].at = "archiving"
    BY <1>4, <1>c DEF ArchiveCheck, Begin, Idle
  <2>2. LinkForDay(tx[q].day)' = {}
    BY <1>4, <2>1 DEF ArchiveCheck, LinkForDay, db
  <2>3. ASSUME NEW p \in Procs, SealOpen(p, tx[q].day)'
        PROVE  d \in overlapped'
    <3>1. p # q /\ tx'[p] = tx[p]
      BY <1>4, <1>c, <2>1, <2>3 DEF ArchiveCheck, Begin, SealOpen
    <3>2. SealOpen(p, day)
      BY <2>1, <2>3, <3>1 DEF SealOpen
    <3>. QED
      BY <1>4, <3>2 DEF ArchiveCheck
  <2>. QED
    BY <2>1, <2>2, <2>3
<1>5. ASSUME NEW day \in Days, SealBegin(q, day)
      PROVE  FALSE
  BY <1>1, <1>5, <1>c DEF SealBegin, Begin, Idle
<1>6. ASSUME NEW d \in Docs, ProofReadLink(q, d)
      PROVE  FALSE
  BY <1>1, <1>6, <1>c DEF ProofReadLink, Begin, Idle
<1>7. ASSUME SealReadPrevious(q) \/ SealReadEntries(q) \/ ProofReadEntries(q)
      PROVE  FALSE
  BY <1>1, <1>7, <1>c DEF SealReadPrevious, SealReadEntries, ProofReadEntries, Tx
<1>. QED
  BY <1>2, <1>3, <1>4, <1>5, <1>6, <1>7, TxStep

LEMMA ProverStep ==
  ASSUME TypeOK, OneLinkPerDay, ProverKnows, [Next]_vars
  PROVE  ProverKnows'
<1>. DEFINE Good(q) ==
       tx[q].at \in {"proving", "proved"} =>
         /\ tx[q].day \in Days
         /\ tx[q].doc \subseteq EntriesForDay(tx[q].day)
         /\ tx[q].link \subseteq LinkForDay(tx[q].day)
         /\ tx[q].at = "proved" => \A l \in tx[q].link : tx[q].doc \subseteq l.root
<1>a. chain \subseteq chain'
  BY DbStep
<1>c. tx = [p \in Procs |-> tx[p]] /\ \A p \in Procs : tx[p] \in Tx
  BY DEF TypeOK
<1>1. SUFFICES ASSUME NEW q \in Procs PROVE Good(q)'
  BY DEF ProverKnows
<1>2. Good(q)
  BY DEF ProverKnows
<1>3. CASE tx'[q] = tx[q]
  <2>1. ASSUME tx[q].day \in Days
        PROVE  /\ EntriesForDay(tx[q].day) \subseteq {d \in Docs : archivedOn'[d] = tx[q].day}
               /\ LinkForDay(tx[q].day) \subseteq {l \in chain' : l.day = tx[q].day}
    BY <2>1, <1>a, EntriesGrow DEF EntriesForDay, LinkForDay
  <2>. QED
    BY <1>2, <1>3, <2>1 DEF EntriesForDay, LinkForDay
<1>4. CASE tx'[q] = Idle
  BY <1>4 DEF Idle
<1>5. ASSUME NEW d \in Docs, NEW day \in Days, ArchiveCheck(q, d, day)
      PROVE  Good(q)'
  <2>1. tx'[q].at = "archiving"
    BY <1>5, <1>c DEF ArchiveCheck, Begin, Idle
  <2>. QED
    BY <2>1
<1>6. ASSUME NEW day \in Days, SealBegin(q, day)
      PROVE  Good(q)'
  <2>1. tx'[q].at = "sealing"
    BY <1>6, <1>c DEF SealBegin, Begin, Idle
  <2>. QED
    BY <2>1
<1>7. ASSUME SealReadPrevious(q) \/ SealReadEntries(q)
      PROVE  Good(q)'
  <2>1. tx'[q].at \in {"previousRead", "entriesRead"}
    BY <1>7, <1>c DEF SealReadPrevious, SealReadEntries, Tx
  <2>. QED
    BY <2>1
<1>8. ASSUME NEW d \in Docs, ProofReadLink(q, d)
      PROVE  Good(q)'
  <2>1. /\ tx'[q].at = "proving" /\ tx'[q].day = archivedOn[d] /\ tx'[q].doc = {d}
        /\ tx'[q].link = LinkForDay(archivedOn[d])
        /\ UNCHANGED <<chain, archivedOn>>
    BY <1>8, <1>c DEF ProofReadLink, Begin, Idle, db
  <2>2. archivedOn[d] \in Days
    BY <1>8, MaxDayAssumption DEF ProofReadLink, TypeOK, Days
  <2>. QED
    BY <2>1, <2>2 DEF EntriesForDay, LinkForDay
<1>9. ASSUME ProofReadEntries(q)
      PROVE  Good(q)'
  <2>1. /\ tx'[q].at = "proved" /\ tx'[q].day = tx[q].day /\ tx'[q].doc = tx[q].doc
        /\ tx'[q].link = tx[q].link /\ tx[q].at = "proving"
        /\ UNCHANGED <<chain, archivedOn>>
    BY <1>9, <1>c DEF ProofReadEntries, Tx, db
  <2>2. \A l \in tx[q].link : tx[q].doc \subseteq l.root
    BY <1>9 DEF ProofReadEntries
  <2>. QED
    BY <1>2, <2>1, <2>2 DEF EntriesForDay, LinkForDay
<1>. HIDE DEF Good
<1>. QED
  BY <1>3, <1>4, <1>5, <1>6, <1>7, <1>8, <1>9, TxStep

-----------------------------------------------------------------------------
LEMMA InvInit == Init => IInv
BY TypeInit DEF Init, IInv, OneLinkPerDay, RootsAreArchived, SealedDayComplete,
   PrevRootIsEarlierLink, ServedProofsHold, SealerKnows, ArchiverKnows,
   ProverKnows, Idle

LEMMA InvStep == IInv /\ [Next]_vars => IInv'
<1>. SUFFICES ASSUME IInv, [Next]_vars PROVE IInv'
  OBVIOUS
<1>1. TypeOK'
  BY TypeStep DEF IInv
<1>2. OneLinkPerDay' /\ RootsAreArchived' /\ PrevRootIsEarlierLink'
  BY OneLinkStep, RootsStep, PrevRootStep DEF IInv
<1>3. SealedDayComplete' /\ ServedProofsHold'
  BY CompleteStep, ServedStep DEF IInv
<1>4. SealerKnows' /\ ArchiverKnows' /\ ProverKnows'
  BY SealerStep, ArchiverStep, ProverStep DEF IInv
<1>. QED
  BY <1>1, <1>2, <1>3, <1>4 DEF IInv

LEMMA InvHolds == Spec => []IInv
BY InvInit, InvStep, PTL DEF Spec

\* Every variable stays in its domain: in particular a day has at most one
\* link to read, and the seal writes a well-formed row.
THEOREM TypeCorrect == Spec => []TypeOK
<1>1. IInv => TypeOK
  BY DEF IInv
<1>. QED
  BY <1>1, InvHolds, PTL

\* However many archive and seal transactions interleave, no document is under
\* a root of a day it was not archived on, and only documents whose archiving
\* overlapped the sealing of their day can be missing from its root.
THEOREM RootsCorrect == Spec => []RootsHoldTheirDay
<1>1. IInv => RootsHoldTheirDay
  BY DEF IInv, RootsHoldTheirDay
<1>. QED
  BY <1>1, InvHolds, PTL

\* No day is sealed twice, and every previous root is the root of an earlier,
\* committed link.
THEOREM LinksCorrect == Spec => []LinksAreOrdered
<1>1. IInv => LinksAreOrdered
  BY DEF IInv, LinksAreOrdered
<1>. QED
  BY <1>1, InvHolds, PTL

\* A proof once served can be checked against the archive for ever.
THEOREM ProofsHold == Spec => []ServedProofsHold
<1>1. IInv => ServedProofsHold
  BY DEF IInv
<1>. QED
  BY <1>1, InvHolds, PTL

\* Rows of the chain and archived columns are never rewritten.
THEOREM AppendOnly == Spec => ArchiveIsAppendOnly
<1>1. TypeOK /\ [Next]_vars =>
        [/\ chain \subseteq chain'
         /\ \A d \in Docs : archivedOn[d] # 0 => archivedOn'[d] = archivedOn[d]]_vars
  BY DbStep
<1>. QED
  BY <1>1, TypeCorrect, PTL DEF Spec, ArchiveIsAppendOnly

-----------------------------------------------------------------------------
(***************************************************************************)
(* What the archive of a tenant keeps when one connection seals: the chain *)
(* verifies, and the transactions implement the atomic Ledger.  Archivers, *)
(* readers, documents and days are arbitrary.                              *)
(*                                                                         *)
(* The latest link is read two statements before the link that names it is *)
(* written.  With one sealer it is still the latest then: nobody else      *)
(* extends the chain.                                                      *)
(***************************************************************************)


OneSealer == \A p, q \in Sealers : p = q

Sealing == {"sealing", "previousRead", "entriesRead"}

\* Only a sealer seals, and the link it has read is still the latest.
SealsAlone ==
  \A p \in Procs :
    /\ tx[p].at \in Sealing => p \in Sealers
    /\ tx[p].at \in {"previousRead", "entriesRead"} =>
         /\ tx[p].link = LatestLink
         /\ \A l \in chain : l.day < tx[p].day

HasLatest == chain # {} => LatestLink # {}

SInv == IInv /\ SealsAlone /\ HasLatest /\ ChainVerifies

-----------------------------------------------------------------------------
\* A transaction that seals after a step and did not before it is a sealer's.
LEMMA SealersBegin ==
  ASSUME TypeOK, [Next]_vars, NEW q \in Procs, tx'[q].at \in Sealing, tx[q].at \notin Sealing
  PROVE  q \in Sealers
<1>a. tx[q] \in Tx /\ tx = [p \in Procs |-> tx[p]]
  BY DEF TypeOK
<1>1. ASSUME NEW p \in Archivers, Archive(p)
      PROVE  FALSE
  <2>1. CASE \E d \in Docs, day \in Days : ArchiveCheck(p, d, day)
    BY <2>1, <1>a DEF ArchiveCheck, Begin, Idle, Sealing, Procs
  <2>2. CASE ArchiveCommit(p)
    BY <2>2, <1>a DEF ArchiveCommit, End, Idle, Sealing, Procs
  <2>3. QED
    BY <1>1, <2>1, <2>2 DEF Archive
<1>2. ASSUME NEW p \in Sealers, Seal(p), q \notin Sealers
      PROVE  FALSE
  <2>1. tx'[q] = tx[q]
    BY <1>2, <1>a DEF Seal, SealBegin, SealReadPrevious, SealReadEntries, SealCommit, Begin, End
  <2>2. QED
    BY <2>1
<1>3. ASSUME NEW p \in Readers, Prove(p)
      PROVE  FALSE
  <2>1. CASE \E d \in Docs : ProofReadLink(p, d)
    BY <2>1, <1>a DEF ProofReadLink, Begin, Idle, Sealing, Procs
  <2>2. CASE ProofReadEntries(p)
    <3>1. tx'[q] = tx[q] \/ tx'[q].at = "proved"
      BY <2>2, <1>a DEF ProofReadEntries, Tx, Procs
    <3>2. QED
      BY <3>1 DEF Sealing
  <2>3. CASE ProofServe(p)
    BY <2>3, <1>a DEF ProofServe, End, Idle, Sealing, Procs
  <2>4. QED
    BY <1>3, <2>1, <2>2, <2>3 DEF Prove
<1>4. ASSUME NEW p \in Procs, Abort(p)
      PROVE  FALSE
  BY <1>4, <1>a DEF Abort, End, Idle, Sealing
<1>5. CASE Midnight \/ UNCHANGED vars
  BY <1>5 DEF Midnight, vars
<1>6. QED
  BY <1>1, <1>2, <1>3, <1>4, <1>5 DEF Next

\* The chain changes by the commit of a sealer, whose transaction ends.
LEMMA ChainStep ==
  ASSUME TypeOK, [Next]_vars, chain' # chain
  PROVE  \E p \in Procs : SealCommit(p) /\ UNCHANGED archivedOn
BY WriteStep

LEMMA AloneStep ==
  ASSUME OneSealer, TypeOK, SealsAlone, HasLatest, [Next]_vars
  PROVE  SealsAlone'
<1>. SUFFICES ASSUME NEW q \in Procs
              PROVE  /\ tx'[q].at \in Sealing => q \in Sealers
                     /\ tx'[q].at \in {"previousRead", "entriesRead"} =>
                          /\ tx'[q].link = LatestLink'
                          /\ \A l \in chain' : l.day < tx'[q].day
  BY DEF SealsAlone
<1>a. tx[q] \in Tx /\ tx = [p \in Procs |-> tx[p]]
  BY DEF TypeOK
<1>1. tx'[q].at \in Sealing => q \in Sealers
  BY SealersBegin DEF SealsAlone
<1>2. ASSUME tx'[q] = tx[q], tx[q].at \in {"previousRead", "entriesRead"}
      PROVE  chain' = chain
  <2>1. ASSUME NEW p \in Procs, SealCommit(p)
        PROVE  FALSE
    <3>1. p \in Sealers /\ q \in Sealers
      BY <1>2, <2>1 DEF SealsAlone, SealCommit, Sealing
    <3>2. p = q
      BY <3>1 DEF OneSealer
    <3>3. tx'[q] = Idle
      BY <2>1, <3>2, <1>a DEF SealCommit, End
    <3>4. QED
      BY <1>2, <3>3 DEF Idle
  <2>2. QED
    BY <2>1, ChainStep
<1>3. CASE tx'[q] = tx[q]
  BY <1>1, <1>2, <1>3 DEF SealsAlone, LatestLink
<1>4. CASE tx'[q] = Idle
  BY <1>1, <1>4 DEF Idle
<1>5. CASE \/ \E d \in Docs, day \in Days : ArchiveCheck(q, d, day)
           \/ \E day \in Days : SealBegin(q, day)
           \/ \E d \in Docs : ProofReadLink(q, d)
           \/ ProofReadEntries(q)
  <2>1. ASSUME NEW d \in Docs, NEW day \in Days, ArchiveCheck(q, d, day)
        PROVE  tx'[q].at = "archiving"
    BY <2>1, <1>a DEF ArchiveCheck, Begin, Idle
  <2>2. ASSUME NEW day \in Days, SealBegin(q, day)
        PROVE  tx'[q].at = "sealing"
    BY <2>2, <1>a DEF SealBegin, Begin, Idle
  <2>3. ASSUME NEW d \in Docs, ProofReadLink(q, d)
        PROVE  tx'[q].at = "proving"
    BY <2>3, <1>a DEF ProofReadLink, Begin, Idle
  <2>4. CASE ProofReadEntries(q)
    BY <2>4, <1>1, <1>a DEF ProofReadEntries, Tx
  <2>5. QED
    BY <1>1, <1>5, <2>1, <2>2, <2>3, <2>4
<1>6. CASE SealReadPrevious(q)
  <2>1. /\ tx'[q].link = LatestLink /\ tx'[q].day = tx[q].day
        /\ chain' = chain /\ \A l \in LatestLink : l.day < tx[q].day
    BY <1>6, <1>a DEF SealReadPrevious, Tx, db
  <2>2. LatestLink' = LatestLink
    BY <2>1 DEF LatestLink
  <2>3. \A l \in chain : l.day < tx[q].day
    <3>1. ASSUME NEW l \in chain
          PROVE  l.day < tx[q].day
      <4>1. PICK k \in LatestLink : TRUE
        BY <3>1 DEF HasLatest
      <4>2. l.day <= k.day /\ k.day < tx[q].day /\ k \in chain
        BY <2>1, <3>1, <4>1 DEF LatestLink
      <4>3. l.day \in Int /\ k.day \in Int /\ tx[q].day \in Int
        BY <1>a, <3>1, <4>2, MaxDayAssumption DEF TypeOK, Link, Days, Tx
      <4>4. QED
        BY <4>2, <4>3
    <3>2. QED
      BY <3>1
  <2>4. QED
    BY <1>1, <2>1, <2>2, <2>3
<1>7. CASE SealReadEntries(q)
  <2>1. /\ tx[q].at = "previousRead" /\ tx'[q].link = tx[q].link
        /\ tx'[q].day = tx[q].day /\ chain' = chain
    BY <1>7, <1>a DEF SealReadEntries, Tx, db
  <2>2. QED
    BY <1>1, <2>1 DEF SealsAlone, LatestLink
<1>8. QED
  BY <1>3, <1>4, <1>5, <1>6, <1>7, TxStep

\* The link a lone sealer commits is the latest from then on, and names the
\* one that was.
LEMMA CommitExtends ==
  ASSUME TypeOK, SealsAlone, SealerKnows, NEW p \in Procs, SealCommit(p)
  PROVE  /\ chain' = chain \cup {SealedLink(p)}
         /\ SealedLink(p).day = tx[p].day
         /\ SealedLink(p).prevRoot = {k.root : k \in LatestLink}
         /\ \A l \in chain : l.day < tx[p].day
         /\ tx[p].day \in Days
<1>1. tx[p].at = "entriesRead"
  BY DEF SealCommit
<1>2. tx[p].link = LatestLink /\ \A l \in chain : l.day < tx[p].day
  BY <1>1 DEF SealsAlone
<1>3. tx[p].day \in Days
  BY <1>1 DEF SealerKnows
<1>4. QED
  BY <1>2, <1>3 DEF SealCommit, SealedLink

LEMMA LatestStep ==
  ASSUME TypeOK, SealsAlone, SealerKnows, HasLatest, [Next]_vars
  PROVE  HasLatest'
<1>1. CASE chain' = chain
  BY <1>1 DEF HasLatest, LatestLink
<1>2. ASSUME NEW p \in Procs, SealCommit(p)
      PROVE  HasLatest'
  <2>1. \A l \in chain' : l.day <= SealedLink(p).day
    <3>1. \A l \in chain : l.day < tx[p].day
      BY <1>2, CommitExtends
    <3>a. \A l \in chain : l.day \in Int
      BY DEF TypeOK, Link, Days
    <3>2. tx[p].day \in Int /\ SealedLink(p).day = tx[p].day
      BY <1>2, CommitExtends DEF Days
    <3>3. chain' = chain \cup {SealedLink(p)}
      BY <1>2, CommitExtends
    <3>4. \A l \in chain : l.day <= SealedLink(p).day
      BY <3>1, <3>a, <3>2
    <3>5. SealedLink(p).day <= SealedLink(p).day
      BY <3>2
    <3>6. QED
      BY <3>3, <3>4, <3>5
  <2>2. SealedLink(p) \in chain'
    BY <1>2, CommitExtends
  <2>3. QED
    BY <2>1, <2>2 DEF HasLatest, LatestLink
<1>3. QED
  BY <1>1, <1>2, ChainStep

\* What verifyChain compares with a link.
Before(links, l) == {k \in links : k.day < l.day}
LastOf(links) == {b \in links : \A c \in links : c.day <= b.day}

LEMMA VerifyIs ==
  ASSUME NEW links
  PROVE  VerifyChain(links) <=>
           \A l \in links : l.prevRoot = {k.root : k \in LastOf(Before(links, l))}
BY DEF VerifyChain, Before, LastOf

LEMMA VerifiesStep ==
  ASSUME TypeOK, SealsAlone, SealerKnows, ChainVerifies, [Next]_vars
  PROVE  ChainVerifies'
<1>1. CASE chain' = chain
  BY <1>1 DEF ChainVerifies
<1>2. ASSUME NEW p \in Procs, SealCommit(p)
      PROVE  ChainVerifies'
  <2>. DEFINE new == SealedLink(p)
  <2>a. /\ chain' = chain \cup {new} /\ new.day \in Int
        /\ new.prevRoot = {k.root : k \in LatestLink}
        /\ \A l \in chain : l.day < new.day /\ l.day \in Int
    <3>1. /\ chain' = chain \cup {new} /\ new.day = tx[p].day
          /\ new.prevRoot = {k.root : k \in LatestLink}
          /\ \A l \in chain : l.day < tx[p].day
          /\ tx[p].day \in Days
      BY <1>2, CommitExtends
    <3>2. \A l \in chain : l.day \in Int
      BY DEF TypeOK, Link, Days
    <3>3. QED
      BY <3>1, <3>2 DEF Days
  <2>. HIDE DEF new
  <2>1. ASSUME NEW l \in chain
        PROVE  Before(chain', l) = Before(chain, l)
    BY <2>a, <2>1 DEF Before
  <2>2. Before(chain', new) = chain
    BY <2>a DEF Before
  <2>3. LastOf(chain) = LatestLink
    BY DEF LastOf, LatestLink
  <2>4. \A l \in chain : l.prevRoot = {k.root : k \in LastOf(Before(chain, l))}
    BY VerifyIs DEF ChainVerifies
  <2>5. ASSUME NEW l \in chain'
        PROVE  l.prevRoot = {k.root : k \in LastOf(Before(chain', l))}
    <3>1. CASE l \in chain
      BY <2>1, <2>4, <3>1
    <3>2. CASE l = new
      BY <2>2, <2>3, <2>a, <3>2
    <3>3. QED
      BY <2>5, <2>a, <3>1, <3>2
  <2>6. VerifyChain(chain')
    BY <2>5, VerifyIs
  <2>7. QED
    BY <2>6 DEF ChainVerifies, VerifyChain
<1>3. QED
  BY <1>1, <1>2, ChainStep

-----------------------------------------------------------------------------
LEMMA SInvInit == Init => SInv
BY InvInit DEF Init, SInv, SealsAlone, HasLatest, ChainVerifies, VerifyChain, Idle, Sealing

LEMMA SInvStep ==
  ASSUME OneSealer
  PROVE  SInv /\ [Next]_vars => SInv'
<1>. SUFFICES ASSUME SInv, [Next]_vars PROVE SInv'
  OBVIOUS
<1>a. TypeOK /\ SealerKnows /\ IInv
  BY DEF SInv, IInv
<1>1. IInv'
  BY <1>a, InvStep
<1>2. SealsAlone' /\ HasLatest' /\ ChainVerifies'
  BY <1>a, AloneStep, LatestStep, VerifiesStep DEF SInv
<1>3. QED
  BY <1>1, <1>2 DEF SInv

\* With one sealer the chain of the tenant verifies at every moment, for any
\* archivers beside it and any days that were left out.
THEOREM ChainAlwaysVerifies == ASSUME OneSealer PROVE Spec => []ChainVerifies
<1>1. SInv /\ [Next]_vars => SInv'
  BY SInvStep
<1>2. SInv => ChainVerifies
  BY DEF SInv
<1>3. QED
  BY <1>1, <1>2, SInvInit, PTL DEF Spec

-----------------------------------------------------------------------------
(* The refinement. *)

LEMMA SealSimulates ==
  ASSUME SInv, NEW p \in Procs, SealCommit(p), UNCHANGED archivedOn
  PROVE  Promise!Next
<1>a. TypeOK /\ SealsAlone /\ SealerKnows
  BY DEF SInv, IInv
<1>1. /\ chain' = chain \cup {SealedLink(p)}
      /\ \A l \in chain : l.day < tx[p].day
      /\ tx[p].day \in 1..MaxDay
  BY <1>a, CommitExtends DEF Days
<1>2. tx[p].link = LatestLink /\ tx[p].at = "entriesRead"
  BY <1>a DEF SealsAlone, SealCommit
<1>3. /\ tx[p].entries \in SUBSET Promise!On(tx[p].day)
      /\ Promise!On(tx[p].day) \ tx[p].entries \subseteq overlapped
  BY <1>a, <1>2 DEF SealerKnows, EntriesForDay, Promise!On
<1>4. SealedLink(p) =
        [day |-> tx[p].day, root |-> tx[p].entries,
         prevRoot |-> {l.root : l \in {k \in chain : \A j \in chain : j.day <= k.day}}]
  BY <1>2 DEF SealedLink, LatestLink
<1>5. UNCHANGED overlapped
  BY DEF SealCommit
<1>6. Promise!Seal(tx[p].day)
  BY <1>1, <1>3, <1>4, <1>5 DEF Promise!Seal
<1>7. QED
  BY <1>1, <1>6 DEF Promise!Next

LEMMA ArchiveSimulates ==
  ASSUME SInv, NEW p \in Procs, ArchiveCommit(p)
  PROVE  [Promise!Next]_(Promise!vars)
<1>a. TypeOK /\ ArchiverKnows
  BY DEF SInv, IInv
<1>1. UNCHANGED <<chain, overlapped>> /\ tx[p].at = "archiving"
  BY DEF ArchiveCommit
<1>2. tx[p].day \in 1..MaxDay /\ (LinkForDay(tx[p].day) # {} => tx[p].doc \subseteq overlapped)
  BY <1>a, <1>1 DEF ArchiverKnows, Days
<1>3. tx[p].doc \in Optional(Docs)
  BY <1>a DEF TypeOK, Tx
<1>4. CASE tx[p].doc = {}
  <2>1. archivedOn' = archivedOn
    BY <1>a, <1>4 DEF ArchiveCommit, TypeOK
  <2>2. QED
    BY <1>1, <2>1 DEF Promise!vars
<1>5. ASSUME NEW d \in Docs, tx[p].doc = {d}
      PROVE  Promise!Archive(d, tx[p].day)
  <2>1. archivedOn[d] = 0
    BY <1>5 DEF ArchiveCommit
  <2>2. ~Promise!Sealed(tx[p].day) \/ d \in overlapped
    BY <1>2, <1>5 DEF Promise!Sealed, LinkForDay
  <2>3. archivedOn' = [archivedOn EXCEPT ![d] = tx[p].day]
    BY <1>a, <1>5 DEF ArchiveCommit, TypeOK
  <2>4. QED
    BY <1>1, <2>1, <2>2, <2>3 DEF Promise!Archive
<1>6. QED
  BY <1>2, <1>3, <1>4, <1>5 DEF Optional, Promise!Next

\* Where nothing is written, transactions begin, read or end.
LEMMA OtherSimulates ==
  ASSUME TypeOK, [Next]_vars, UNCHANGED <<chain, archivedOn>>
  PROVE  [Promise!Next]_(Promise!vars)
<1>1. overlapped' \ overlapped \subseteq Docs /\ overlapped \subseteq overlapped'
  <2>1. overlapped' \subseteq Docs
    <3>1. ASSUME NEW p \in Procs, NEW d \in Docs, NEW day \in Days, ArchiveCheck(p, d, day)
          PROVE  overlapped' \subseteq Docs
      BY <3>1 DEF ArchiveCheck, TypeOK
    <3>2. ASSUME NEW p \in Procs, NEW day \in Days, SealBegin(p, day)
          PROVE  overlapped' \subseteq Docs
      <4>1. \A q \in Procs : tx[q].doc \subseteq Docs
        BY DEF TypeOK, Tx, Optional
      <4>2. QED
        BY <3>2, <4>1 DEF SealBegin, TypeOK
    <3>3. ASSUME NEW p \in Procs,
                 \/ ArchiveCommit(p) \/ SealReadPrevious(p) \/ SealReadEntries(p)
                 \/ SealCommit(p) \/ (\E d \in Docs : ProofReadLink(p, d))
                 \/ ProofReadEntries(p) \/ ProofServe(p) \/ Abort(p)
          PROVE  overlapped' = overlapped
      <4>1. CASE ArchiveCommit(p) \/ SealReadPrevious(p) \/ SealReadEntries(p) \/ SealCommit(p)
        BY <4>1 DEF ArchiveCommit, SealReadPrevious, SealReadEntries, SealCommit
      <4>2. CASE (\E d \in Docs : ProofReadLink(p, d)) \/ ProofReadEntries(p)
        BY <4>2 DEF ProofReadLink, ProofReadEntries
      <4>3. CASE ProofServe(p) \/ Abort(p)
        BY <4>3 DEF ProofServe, Abort
      <4>4. QED
        BY <3>3, <4>1, <4>2, <4>3
    <3>4. CASE Midnight \/ UNCHANGED vars
      BY <3>4 DEF Midnight, vars, TypeOK
    <3>5. QED
      BY <3>1, <3>2, <3>3, <3>4 DEF Next, Archive, Seal, Prove, Procs, TypeOK
  <2>2. QED
    BY <2>1, DbStep
<1>2. \E docs \in SUBSET Docs : overlapped' = overlapped \cup docs
  <2>1. overlapped' = overlapped \cup (overlapped' \ overlapped)
    BY <1>1
  <2>2. QED
    BY <1>1, <2>1
<1>3. \E docs \in SUBSET Docs : Promise!Overlap(docs)
  BY <1>2 DEF Promise!Overlap
<1>4. QED
  BY <1>3 DEF Promise!Next

\* With one sealer, archiving and sealing are atomic but for the documents
\* whose archiving overlaps the sealing of their day: a reader of the tables
\* sees a ledger that closes one day after the other.
THEOREM LedgerImplemented == ASSUME OneSealer PROVE Spec => ImplementsLedger
<1>1. SInv /\ [Next]_vars => SInv'
  BY SInvStep
<1>2. SInv /\ [Next]_vars => [Promise!Next]_(Promise!vars)
  <2>. SUFFICES ASSUME SInv, [Next]_vars PROVE [Promise!Next]_(Promise!vars)
    OBVIOUS
  <2>1. TypeOK
    BY DEF SInv, IInv
  <2>2. QED
    BY <2>1, WriteStep, SealSimulates, ArchiveSimulates, OtherSimulates
<1>3. Init => Promise!Init
  BY DEF Init, Promise!Init
<1>4. QED
  BY <1>1, <1>2, <1>3, SInvInit, PTL DEF Spec, ImplementsLedger, Promise!Spec

-----------------------------------------------------------------------------
(***************************************************************************)
(* What holds of Merkle for a day of every size.  A recursive function is  *)
(* first shown to be defined, because a shorter slice, a lower level or an *)
(* earlier sibling comes before: that is what the lemmas called Defined    *)
(* say.  Then the tree is taken level by level: on level l a node stands   *)
(* for 2^l leaves, the last one for what is left, and both the prover's    *)
(* recursion and the verifier's halving are about these nodes.             *)
(***************************************************************************)

\* A set of numbers that is not empty has a least one.
LEMMA LeastNumber ==
  ASSUME NEW S \in SUBSET Nat, S # {}
  PROVE  \E k \in S : \A j \in S : k <= j
<1>1. PICK x \in S : TRUE
  OBVIOUS
<1>2. PICK k \in S : \A j \in S : ~(j < k)
  <2>1. IsWellFoundedOn(OpToRel(<, Nat), Nat)
    BY NatLessThanWellFounded
  <2>2. \E k \in S : \A j \in S : ~(<<j, k>> \in OpToRel(<, Nat))
    BY <2>1, WFMin
  <2> QED
    BY <2>2 DEF OpToRel
<1> QED
  BY <1>2

\* A set of numbers with zero, and with the next of each of its numbers, has
\* them all.
LEMMA EveryNumber ==
  ASSUME NEW S, 0 \in S, \A k \in Nat : k \in S => k + 1 \in S
  PROVE  \A k \in Nat : k \in S
<1> SUFFICES ASSUME Nat \ S # {} PROVE FALSE
  OBVIOUS
<1>1. PICK k \in Nat \ S : \A j \in Nat \ S : k <= j
  <2>1. (Nat \ S) \in SUBSET Nat
    OBVIOUS
  <2> QED
    BY <2>1, LeastNumber
<1>2. k # 0 /\ k - 1 \in Nat /\ (k - 1) + 1 = k /\ ~(k <= k - 1)
  BY <1>1
<1> QED
  BY <1>1, <1>2

\* How far up the loop of splitPoint still has to go from k.
DoubledFrom(n, from, k) == IF k * 2 < n THEN from[k * 2] ELSE k

Doublings(n) == CHOOSE from : from = [k \in 1..n |-> DoubledFrom(n, from, k)]

\* splitPoint is where the doubling from one ends.
LEMMA SplitPointIsDoubled ==
  ASSUME NEW n \in Nat
  PROVE  SplitPoint(n) = Doublings(n)[1]
BY DEF SplitPoint, Doublings, DoubledFrom

\* The doubling is defined from every number that is not beyond n.
LEMMA DoublingsDefined ==
  ASSUME NEW n \in Nat
  PROVE  \A k \in 1..n : Doublings(n)[k] = IF k * 2 < n THEN Doublings(n)[k * 2] ELSE k
<1> DEFINE Upto == {i \in Nat : \E f : f = [k \in 1..n |-> IF n - k < i THEN DoubledFrom(n, f, k)
                                                                    ELSE 0]}
<1>1. 0 \in Upto
  <2>1. [k \in 1..n |-> 0] = [k \in 1..n |-> IF n - k < 0 THEN DoubledFrom(n, [j \in 1..n |-> 0], k)
                                                        ELSE 0]
    OBVIOUS
  <2> QED
    BY <2>1
<1>2. ASSUME NEW i \in Nat, i \in Upto PROVE i + 1 \in Upto
  <2>1. PICK f : f = [k \in 1..n |-> IF n - k < i THEN DoubledFrom(n, f, k) ELSE 0]
    BY <1>2
  <2> DEFINE g == [k \in 1..n |-> IF n - k < i + 1 THEN DoubledFrom(n, f, k) ELSE 0]
  <2>2. ASSUME NEW k \in 1..n, n - k < i + 1 PROVE DoubledFrom(n, f, k) = DoubledFrom(n, g, k)
    <3>1. CASE k * 2 < n
      <4>1. k * 2 \in 1..n /\ n - k * 2 < i /\ n - k * 2 < i + 1
        BY <2>2, <3>1
      <4>2. f[k * 2] = DoubledFrom(n, f, k * 2)
        BY <2>1, <4>1
      <4>3. g[k * 2] = DoubledFrom(n, f, k * 2)
        BY <4>1
      <4> QED
        BY <3>1, <4>2, <4>3 DEF DoubledFrom
    <3>2. CASE ~(k * 2 < n)
      BY <3>2 DEF DoubledFrom
    <3> QED
      BY <3>1, <3>2
  <2>3. g = [k \in 1..n |-> IF n - k < i + 1 THEN DoubledFrom(n, g, k) ELSE 0]
    <3>1. \A k \in 1..n : g[k] = IF n - k < i + 1 THEN DoubledFrom(n, g, k) ELSE 0
      BY <2>2
    <3>2. g = [k \in 1..n |-> g[k]]
      OBVIOUS
    <3> HIDE DEF g
    <3> QED
      BY <3>1, <3>2
  <2> HIDE DEF g
  <2> QED
    BY <2>3
<1>3. n \in Upto
  <2> HIDE DEF Upto
  <2> QED
    BY <1>1, <1>2, EveryNumber
<1>4. PICK f : f = [k \in 1..n |-> IF n - k < n THEN DoubledFrom(n, f, k) ELSE 0]
  BY <1>3
<1>5. f = [k \in 1..n |-> DoubledFrom(n, f, k)]
  <2>1. \A k \in 1..n : n - k < n
    OBVIOUS
  <2> QED
    BY <1>4, <2>1
<1>6. Doublings(n) = [k \in 1..n |-> DoubledFrom(n, Doublings(n), k)]
  BY <1>5 DEF Doublings
<1> HIDE DEF Upto
<1> QED
  BY <1>6 DEF DoubledFrom

\* The larger half is not empty, and not everything.
LEMMA SplitPointInside ==
  ASSUME NEW n \in Nat, n > 1
  PROVE  /\ SplitPoint(n) \in 1..(n - 1)
         /\ n - SplitPoint(n) \in 1..(n - 1)
<1> DEFINE D == Doublings(n)
           S == {i \in Nat : \A k \in 1..(n - 1) : n - k < i => D[k] \in 1..(n - 1)}
<1>1. \A k \in 1..n : D[k] = IF k * 2 < n THEN D[k * 2] ELSE k
  BY DoublingsDefined
<1> HIDE DEF D
<1>2. 0 \in S
  OBVIOUS
<1>3. ASSUME NEW i \in Nat, i \in S PROVE i + 1 \in S
  <2>1. ASSUME NEW k \in 1..(n - 1), n - k < i + 1 PROVE D[k] \in 1..(n - 1)
    <3>1. CASE k * 2 < n
      <4>1. k * 2 \in 1..(n - 1) /\ n - k * 2 < i
        BY <2>1, <3>1
      <4> QED
        BY <1>1, <1>3, <3>1, <4>1
    <3>2. CASE ~(k * 2 < n)
      BY <1>1, <3>2
    <3> QED
      BY <3>1, <3>2
  <2> QED
    BY <2>1
<1>4. n \in S
  <2> HIDE DEF S
  <2> QED
    BY <1>2, <1>3, EveryNumber
<1>5. 1 \in 1..(n - 1) /\ n - 1 < n
  OBVIOUS
<1>6. D[1] \in 1..(n - 1)
  BY <1>4, <1>5
<1>7. SplitPoint(n) = D[1]
  BY SplitPointIsDoubled DEF D
<1> QED
  BY <1>6, <1>7

-----------------------------------------------------------------------------
(* The slices, and what the tables of roots and paths say of them. *)

\* The halves of a slice are slices, and shorter.
LEMMA SliceParts ==
  ASSUME NEW leaves, Len(leaves) \in Nat, NEW s \in Slices(leaves)
  PROVE  /\ s[1] \in Nat /\ s[2] \in Nat /\ s = <<s[1], s[2]>>
         /\ s[2] <= Len(leaves) /\ s[1] + s[2] <= Len(leaves)
         /\ s[2] > 1 => /\ Left(s) \in Slices(leaves) /\ Right(s) \in Slices(leaves)
                        /\ Left(s)[2] < s[2] /\ Right(s)[2] < s[2]
<1>1. /\ s[1] \in Nat /\ s[2] \in Nat /\ s = <<s[1], s[2]>>
      /\ s[2] <= Len(leaves) /\ s[1] + s[2] <= Len(leaves)
  BY DEF Slices
<1>2. ASSUME s[2] > 1
      PROVE  /\ Left(s) \in Slices(leaves) /\ Right(s) \in Slices(leaves)
             /\ Left(s)[2] < s[2] /\ Right(s)[2] < s[2]
  <2>1. PICK a \in Nat, b \in Nat : s = <<a, b>> /\ s[1] = a /\ s[2] = b /\ a + b <= Len(leaves)
    BY <1>1
  <2>2. PICK k \in 1..(b - 1) : k = SplitPoint(b)
    BY <1>2, <2>1, SplitPointInside
  <2>3. Left(s) = <<a, k>> /\ Right(s) = <<a + k, b - k>>
    BY <2>1, <2>2 DEF Left, Right
  <2>4. /\ a \in 0..Len(leaves) /\ k \in 0..Len(leaves) /\ a + k \in 0..Len(leaves)
        /\ b - k \in 0..Len(leaves) /\ a + k <= Len(leaves) /\ (a + k) + (b - k) <= Len(leaves)
        /\ k < b /\ b - k < b
    BY <2>1, <2>2
  <2> QED
    BY <2>1, <2>3, <2>4 DEF Slices
<1> QED
  BY <1>1, <1>2

RootFrom(leaves, root, s) ==
  IF s[2] = 0 THEN <<>>
  ELSE IF s[2] = 1 THEN leaves[s[1] + 1]
  ELSE HashNode(root[Left(s)], root[Right(s)])

PathFrom(index, leaves, path, s) ==
  IF s[2] <= 1 THEN <<>>
  ELSE IF index < s[1] + SplitPoint(s[2])
       THEN Append(path[Left(s)], Roots(leaves)[Right(s)])
       ELSE Append(path[Right(s)], Roots(leaves)[Left(s)])

\* The table of roots is defined: shorter slices come first.
LEMMA RootsDefined ==
  ASSUME NEW leaves, Len(leaves) \in Nat
  PROVE  Roots(leaves) = [s \in Slices(leaves) |-> RootFrom(leaves, Roots(leaves), s)]
<1> DEFINE D == Slices(leaves)
           Upto == {i \in Nat : \E f : f = [s \in D |-> IF s[2] < i THEN RootFrom(leaves, f, s)
                                                                    ELSE 0]}
<1>d. \A s \in D : /\ s[1] \in Nat /\ s[2] \in Nat /\ s[2] < Len(leaves) + 1
                   /\ s[2] > 1 => /\ Left(s) \in D /\ Right(s) \in D
                                  /\ Left(s)[2] < s[2] /\ Right(s)[2] < s[2]
                                  /\ Left(s)[2] \in Nat /\ Right(s)[2] \in Nat
  BY SliceParts
<1>1. 0 \in Upto
  <2>1. \A s \in D : ~(s[2] < 0)
    BY <1>d
  <2> HIDE DEF D
  <2>2. [s \in D |-> 0] = [s \in D |-> IF s[2] < 0 THEN RootFrom(leaves, [t \in D |-> 0], s)
                                                     ELSE 0]
    BY <2>1
  <2> QED
    BY <2>2
<1> HIDE DEF D
<1>2. ASSUME NEW i \in Nat, i \in Upto PROVE i + 1 \in Upto
  <2>1. PICK f : f = [s \in D |-> IF s[2] < i THEN RootFrom(leaves, f, s) ELSE 0]
    BY <1>2
  <2> DEFINE g == [s \in D |-> IF s[2] < i + 1 THEN RootFrom(leaves, f, s) ELSE 0]
  <2>2. ASSUME NEW s \in D, s[2] < i + 1
        PROVE  RootFrom(leaves, f, s) = RootFrom(leaves, g, s)
    <3>1. CASE s[2] > 1
      <4>1. /\ Left(s) \in D /\ Right(s) \in D
            /\ Left(s)[2] < i /\ Right(s)[2] < i
            /\ Left(s)[2] < i + 1 /\ Right(s)[2] < i + 1
        BY <1>d, <2>2, <3>1
      <4>2. f[Left(s)] = g[Left(s)] /\ f[Right(s)] = g[Right(s)]
        BY <2>1, <4>1
      <4>3. s[2] # 0 /\ s[2] # 1
        BY <1>d, <2>2, <3>1
      <4> HIDE DEF g
      <4> QED
        BY <4>2, <4>3 DEF RootFrom
    <3>2. CASE ~(s[2] > 1)
      <4>1. s[2] = 0 \/ s[2] = 1
        BY <1>d, <2>2, <3>2
      <4> HIDE DEF g
      <4> QED
        BY <3>2, <4>1 DEF RootFrom
    <3> QED
      BY <3>1, <3>2
  <2>3. g = [s \in D |-> IF s[2] < i + 1 THEN RootFrom(leaves, g, s) ELSE 0]
    <3>1. \A s \in D : g[s] = IF s[2] < i + 1 THEN RootFrom(leaves, g, s) ELSE 0
      BY <2>2
    <3>2. g = [s \in D |-> g[s]]
      OBVIOUS
    <3> HIDE DEF g
    <3> QED
      BY <3>1, <3>2
  <2> HIDE DEF g
  <2> QED
    BY <2>3
<1>3. Len(leaves) + 1 \in Upto
  <2> HIDE DEF Upto
  <2> QED
    BY <1>1, <1>2, EveryNumber
<1>4. PICK f : f = [s \in D |-> IF s[2] < Len(leaves) + 1 THEN RootFrom(leaves, f, s) ELSE 0]
  BY <1>3
<1>5. f = [s \in D |-> RootFrom(leaves, f, s)]
  BY <1>d, <1>4
<1>6. Roots(leaves) = CHOOSE root : root = [s \in D |-> RootFrom(leaves, root, s)]
  BY DEF Roots, RootFrom, D
<1>7. Roots(leaves) = [s \in D |-> RootFrom(leaves, Roots(leaves), s)]
  BY <1>5, <1>6
<1> QED
  BY <1>7 DEF D

\* And so is the table of paths.
LEMMA PathsDefined ==
  ASSUME NEW index, NEW leaves, Len(leaves) \in Nat
  PROVE  PathsTo(index, leaves)
           = [s \in Slices(leaves) |-> PathFrom(index, leaves, PathsTo(index, leaves), s)]
<1> DEFINE D == Slices(leaves)
           Upto == {i \in Nat :
                      \E f : f = [s \in D |-> IF s[2] < i THEN PathFrom(index, leaves, f, s)
                                                          ELSE 0]}
<1>d. \A s \in D : /\ s[1] \in Nat /\ s[2] \in Nat /\ s[2] < Len(leaves) + 1
                   /\ s[2] > 1 => /\ Left(s) \in D /\ Right(s) \in D
                                  /\ Left(s)[2] < s[2] /\ Right(s)[2] < s[2]
                                  /\ Left(s)[2] \in Nat /\ Right(s)[2] \in Nat
  BY SliceParts
<1>1. 0 \in Upto
  <2>1. \A s \in D : ~(s[2] < 0)
    BY <1>d
  <2> HIDE DEF D
  <2>2. [s \in D |-> 0]
          = [s \in D |-> IF s[2] < 0 THEN PathFrom(index, leaves, [t \in D |-> 0], s) ELSE 0]
    BY <2>1
  <2> QED
    BY <2>2
<1> HIDE DEF D
<1>2. ASSUME NEW i \in Nat, i \in Upto PROVE i + 1 \in Upto
  <2>1. PICK f : f = [s \in D |-> IF s[2] < i THEN PathFrom(index, leaves, f, s) ELSE 0]
    BY <1>2
  <2> DEFINE g == [s \in D |-> IF s[2] < i + 1 THEN PathFrom(index, leaves, f, s) ELSE 0]
  <2>2. ASSUME NEW s \in D, s[2] < i + 1
        PROVE  PathFrom(index, leaves, f, s) = PathFrom(index, leaves, g, s)
    <3>1. CASE s[2] > 1
      <4>1. /\ Left(s) \in D /\ Right(s) \in D
            /\ Left(s)[2] < i /\ Right(s)[2] < i
            /\ Left(s)[2] < i + 1 /\ Right(s)[2] < i + 1
        BY <1>d, <2>2, <3>1
      <4>2. f[Left(s)] = g[Left(s)] /\ f[Right(s)] = g[Right(s)]
        BY <2>1, <4>1
      <4> HIDE DEF g
      <4> QED
        BY <4>2 DEF PathFrom
    <3>2. CASE ~(s[2] > 1)
      <4>1. s[2] <= 1
        BY <1>d, <2>2, <3>2
      <4> HIDE DEF g
      <4> QED
        BY <4>1 DEF PathFrom
    <3> QED
      BY <3>1, <3>2
  <2>3. g = [s \in D |-> IF s[2] < i + 1 THEN PathFrom(index, leaves, g, s) ELSE 0]
    <3>1. \A s \in D : g[s] = IF s[2] < i + 1 THEN PathFrom(index, leaves, g, s) ELSE 0
      BY <2>2
    <3>2. g = [s \in D |-> g[s]]
      OBVIOUS
    <3> HIDE DEF g
    <3> QED
      BY <3>1, <3>2
  <2> HIDE DEF g
  <2> QED
    BY <2>3
<1>3. Len(leaves) + 1 \in Upto
  <2> HIDE DEF Upto
  <2> QED
    BY <1>1, <1>2, EveryNumber
<1>4. PICK f : f = [s \in D |-> IF s[2] < Len(leaves) + 1 THEN PathFrom(index, leaves, f, s)
                                                          ELSE 0]
  BY <1>3
<1>5. f = [s \in D |-> PathFrom(index, leaves, f, s)]
  BY <1>d, <1>4
<1>6. PathsTo(index, leaves) = CHOOSE path : path = [s \in D |-> PathFrom(index, leaves, path, s)]
  BY DEF PathsTo, PathFrom, D
<1>7. PathsTo(index, leaves)
        = [s \in D |-> PathFrom(index, leaves, PathsTo(index, leaves), s)]
  BY <1>5, <1>6
<1> QED
  BY <1>7 DEF D

-----------------------------------------------------------------------------
(* The verifier's steps, and where a place stands on every level. *)

ClimbedFrom(leaf, index, size, path, at, i) ==
  IF i = 0 THEN [fn |-> index, sn |-> size - 1, spent |-> FALSE, hash |-> leaf]
  ELSE Climb(at[i - 1], path[i])

\* The verifier is defined after each sibling.
LEMMA ClimbedDefined ==
  ASSUME NEW leaf, NEW index, NEW size, NEW path, Len(path) \in Nat
  PROVE  Climbed(leaf, index, size, path)
           = [i \in 0..Len(path) |->
                ClimbedFrom(leaf, index, size, path, Climbed(leaf, index, size, path), i)]
<1> DEFINE D == 0..Len(path)
           B(f, i) == ClimbedFrom(leaf, index, size, path, f, i)
           Upto == {k \in Nat : \E f : f = [i \in D |-> IF i < k THEN B(f, i) ELSE 0]}
<1>1. 0 \in Upto
  <2>1. [i \in D |-> 0] = [i \in D |-> IF i < 0 THEN B([j \in D |-> 0], i) ELSE 0]
    <3>1. \A i \in D : ~(i < 0)
      OBVIOUS
    <3> HIDE DEF D, B
    <3> QED
      BY <3>1
  <2> QED
    BY <2>1
<1>2. ASSUME NEW k \in Nat, k \in Upto PROVE k + 1 \in Upto
  <2>1. PICK f : f = [i \in D |-> IF i < k THEN B(f, i) ELSE 0]
    BY <1>2
  <2> DEFINE g == [i \in D |-> IF i < k + 1 THEN B(f, i) ELSE 0]
  <2>2. ASSUME NEW i \in D, i < k + 1 PROVE B(f, i) = B(g, i)
    <3>1. CASE i # 0
      <4>1. i - 1 \in D /\ i - 1 < k /\ i - 1 < k + 1
        BY <2>2, <3>1
      <4> HIDE DEF B, D
      <4>2. f[i - 1] = g[i - 1]
        BY <2>1, <4>1
      <4> HIDE DEF g
      <4> QED
        BY <4>2 DEF B, ClimbedFrom
    <3>2. CASE i = 0
      <4> HIDE DEF g, D
      <4> QED
        BY <3>2 DEF ClimbedFrom
    <3> QED
      BY <3>1, <3>2
  <2> HIDE DEF B, D
  <2>3. g = [i \in D |-> IF i < k + 1 THEN B(g, i) ELSE 0]
    <3>1. \A i \in D : g[i] = IF i < k + 1 THEN B(g, i) ELSE 0
      BY <2>2
    <3>2. g = [i \in D |-> g[i]]
      OBVIOUS
    <3> HIDE DEF g
    <3> QED
      BY <3>1, <3>2
  <2> HIDE DEF g
  <2> QED
    BY <2>3
<1>3. Len(path) + 1 \in Upto
  <2> HIDE DEF Upto
  <2> QED
    BY <1>1, <1>2, EveryNumber
<1>4. PICK f : f = [i \in D |-> IF i < Len(path) + 1 THEN B(f, i) ELSE 0]
  BY <1>3
<1>5. f = [i \in D |-> B(f, i)]
  <2>1. \A i \in D : i < Len(path) + 1
    OBVIOUS
  <2> HIDE DEF D, B
  <2> QED
    BY <1>4, <2>1
<1> DEFINE C == Climbed(leaf, index, size, path)
<1>6. C = CHOOSE at : at = [i \in D |-> B(at, i)]
  BY DEF Climbed, ClimbedFrom
<1>7. C = [i \in D |-> B(C, i)]
  <2> HIDE DEF D, B, C
  <2> QED
    BY <1>5, <1>6
<1> QED
  BY <1>7 DEF B, D, C

\* Before the first sibling it is at the leaf.
LEMMA ClimbedFirst ==
  ASSUME NEW leaf, NEW index, NEW size, NEW path, Len(path) \in Nat
  PROVE  Climbed(leaf, index, size, path)[0]
           = [fn |-> index, sn |-> size - 1, spent |-> FALSE, hash |-> leaf]
<1> DEFINE C == Climbed(leaf, index, size, path)
<1>1. C = [i \in 0..Len(path) |-> ClimbedFrom(leaf, index, size, path, C, i)]
  BY ClimbedDefined
<1> HIDE DEF C
<1>2. C[0] = ClimbedFrom(leaf, index, size, path, C, 0)
  BY <1>1
<1> QED
  BY <1>2 DEF ClimbedFrom, C

\* The same, field by field.
LEMMA ClimbedStart ==
  ASSUME NEW leaf, NEW index, NEW size, NEW path, Len(path) \in Nat
  PROVE  /\ Climbed(leaf, index, size, path)[0].fn = index
         /\ Climbed(leaf, index, size, path)[0].sn = size - 1
         /\ Climbed(leaf, index, size, path)[0].hash = leaf
         /\ ~Climbed(leaf, index, size, path)[0].spent
<1>1. Climbed(leaf, index, size, path)[0]
        = [fn |-> index, sn |-> size - 1, spent |-> FALSE, hash |-> leaf]
  BY ClimbedFirst
<1> QED
  BY <1>1

\* Each sibling is one call of Climb.
LEMMA ClimbedNext ==
  ASSUME NEW leaf, NEW index, NEW size, NEW path, Len(path) \in Nat,
         NEW i \in 0..(Len(path) - 1)
  PROVE  Climbed(leaf, index, size, path)[i + 1]
           = Climb(Climbed(leaf, index, size, path)[i], path[i + 1])
<1> DEFINE C == Climbed(leaf, index, size, path)
<1>1. C = [j \in 0..Len(path) |-> ClimbedFrom(leaf, index, size, path, C, j)]
  BY ClimbedDefined
<1> HIDE DEF C
<1>2. C[i + 1] = ClimbedFrom(leaf, index, size, path, C, i + 1)
  BY <1>1
<1>3. i + 1 # 0 /\ (i + 1) - 1 = i
  OBVIOUS
<1> QED
  BY <1>2, <1>3 DEF ClimbedFrom, C

AscendedFrom(up, p) ==
  IF p[1] # 0 /\ p[1] % 2 = 0 THEN up[<<p[1] \div 2, p[2] \div 2>>]
  ELSE <<p[1] \div 2, p[2] \div 2>>

Ascending(fn, sn) ==
  CHOOSE up : up = [p \in (0..fn) \X (0..sn) |-> AscendedFrom(up, p)]

\* Ascend is what the way up ends in.
LEMMA AscendIsAscending ==
  ASSUME NEW fn \in Nat, NEW sn \in Nat
  PROVE  Ascend(fn, sn) = Ascending(fn, sn)[<<fn, sn>>]
BY DEF Ascend, Ascending, AscendedFrom

\* The way up is defined: places shrink.
LEMMA AscendingDefined ==
  ASSUME NEW fn \in Nat, NEW sn \in Nat
  PROVE  \A a \in 0..fn, b \in 0..sn :
           Ascending(fn, sn)[<<a, b>>]
             = IF a # 0 /\ a % 2 = 0 THEN Ascending(fn, sn)[<<a \div 2, b \div 2>>]
               ELSE <<a \div 2, b \div 2>>
<1> DEFINE D == (0..fn) \X (0..sn)
           Upto == {k \in Nat : \E f : f = [p \in D |-> IF p[1] < k THEN AscendedFrom(f, p) ELSE 0]}
<1>d. \A p \in D : /\ p[1] \in 0..fn /\ p[2] \in 0..sn /\ p = <<p[1], p[2]>>
  OBVIOUS
<1>e. \A p \in D : p[1] # 0 => <<p[1] \div 2, p[2] \div 2>> \in D /\ p[1] \div 2 < p[1]
  <2>1. ASSUME NEW p \in D, p[1] # 0
        PROVE  p[1] \div 2 \in 0..fn /\ p[2] \div 2 \in 0..sn /\ p[1] \div 2 < p[1]
    <3>1. p[1] \in 0..fn /\ p[2] \in 0..sn
      BY <1>d
    <3> HIDE DEF D
    <3> QED
      BY <2>1, <3>1
  <2> QED
    BY <2>1
<1>1. 0 \in Upto
  <2>1. \A p \in D : ~(p[1] < 0)
    BY <1>d
  <2> HIDE DEF D
  <2>2. [p \in D |-> 0] = [p \in D |-> IF p[1] < 0 THEN AscendedFrom([q \in D |-> 0], p) ELSE 0]
    BY <2>1
  <2> QED
    BY <2>2
<1> HIDE DEF D
<1>2. ASSUME NEW k \in Nat, k \in Upto PROVE k + 1 \in Upto
  <2>1. PICK f : f = [p \in D |-> IF p[1] < k THEN AscendedFrom(f, p) ELSE 0]
    BY <1>2
  <2> DEFINE g == [p \in D |-> IF p[1] < k + 1 THEN AscendedFrom(f, p) ELSE 0]
  <2>2. ASSUME NEW p \in D, p[1] < k + 1 PROVE AscendedFrom(f, p) = AscendedFrom(g, p)
    <3>1. CASE p[1] # 0
      <4> DEFINE q == <<p[1] \div 2, p[2] \div 2>>
      <4>1. q \in D /\ q[1] < p[1]
        BY <1>e, <3>1
      <4>2. q[1] < k /\ q[1] < k + 1
        <5>1. q[1] \in Int /\ p[1] \in Int
          BY <1>d, <4>1
        <5> HIDE DEF q
        <5> QED
          BY <2>2, <4>1, <5>1
      <4> HIDE DEF q
      <4>3. f[q] = g[q]
        BY <2>1, <4>1, <4>2
      <4> HIDE DEF g
      <4> QED
        BY <4>3 DEF AscendedFrom, q
    <3>2. CASE p[1] = 0
      <4> HIDE DEF g
      <4> QED
        BY <3>2 DEF AscendedFrom
    <3> QED
      BY <3>1, <3>2
  <2>3. g = [p \in D |-> IF p[1] < k + 1 THEN AscendedFrom(g, p) ELSE 0]
    <3>1. \A p \in D : g[p] = IF p[1] < k + 1 THEN AscendedFrom(g, p) ELSE 0
      BY <2>2
    <3>2. g = [p \in D |-> g[p]]
      OBVIOUS
    <3> HIDE DEF g
    <3> QED
      BY <3>1, <3>2
  <2> HIDE DEF g
  <2> QED
    BY <2>3
<1>3. fn + 1 \in Upto
  <2> HIDE DEF Upto
  <2> QED
    BY <1>1, <1>2, EveryNumber
<1>4. PICK f : f = [p \in D |-> IF p[1] < fn + 1 THEN AscendedFrom(f, p) ELSE 0]
  BY <1>3
<1>5. f = [p \in D |-> AscendedFrom(f, p)]
  <2>1. \A p \in D : p[1] < fn + 1
    BY <1>d
  <2> QED
    BY <1>4, <2>1
<1>6. Ascending(fn, sn) = [p \in D |-> AscendedFrom(Ascending(fn, sn), p)]
  BY <1>5 DEF Ascending, D
<1>7. ASSUME NEW a \in 0..fn, NEW b \in 0..sn
      PROVE  Ascending(fn, sn)[<<a, b>>] = AscendedFrom(Ascending(fn, sn), <<a, b>>)
  <2>1. <<a, b>> \in D
    BY DEF D
  <2> QED
    BY <1>6, <2>1
<1> QED
  BY <1>7 DEF AscendedFrom

LevelFrom(index, size, level, l) ==
  IF l = 0 THEN [width |-> 1, place |-> index, last |-> size - 1]
  ELSE [width |-> 2 * level[l - 1].width, place |-> level[l - 1].place \div 2,
        last |-> level[l - 1].last \div 2]

\* How many leaves a node of each level stands for, and where the leaf at an
\* index and the last leaf stand on it.
Levels(index, size) ==
  CHOOSE level : level = [l \in 0..size |-> LevelFrom(index, size, level, l)]

\* The levels are defined, from the leaves up.
LEMMA LevelsDefined ==
  ASSUME NEW index, NEW size \in Nat
  PROVE  /\ Levels(index, size)[0] = [width |-> 1, place |-> index, last |-> size - 1]
         /\ \A l \in 0..(size - 1) :
              Levels(index, size)[l + 1]
                = [width |-> 2 * Levels(index, size)[l].width,
                   place |-> Levels(index, size)[l].place \div 2,
                   last |-> Levels(index, size)[l].last \div 2]
<1> DEFINE D == 0..size
           B(f, i) == LevelFrom(index, size, f, i)
           Upto == {k \in Nat : \E f : f = [i \in D |-> IF i < k THEN B(f, i) ELSE 0]}
<1>1. 0 \in Upto
  <2>1. [i \in D |-> 0] = [i \in D |-> IF i < 0 THEN B([j \in D |-> 0], i) ELSE 0]
    <3>1. \A i \in D : ~(i < 0)
      OBVIOUS
    <3> HIDE DEF D, B
    <3> QED
      BY <3>1
  <2> QED
    BY <2>1
<1>2. ASSUME NEW k \in Nat, k \in Upto PROVE k + 1 \in Upto
  <2>1. PICK f : f = [i \in D |-> IF i < k THEN B(f, i) ELSE 0]
    BY <1>2
  <2> DEFINE g == [i \in D |-> IF i < k + 1 THEN B(f, i) ELSE 0]
  <2>2. ASSUME NEW i \in D, i < k + 1 PROVE B(f, i) = B(g, i)
    <3>1. CASE i # 0
      <4>1. i - 1 \in D /\ i - 1 < k /\ i - 1 < k + 1
        BY <2>2, <3>1
      <4> HIDE DEF B, D
      <4>2. f[i - 1] = g[i - 1]
        BY <2>1, <4>1
      <4> HIDE DEF g
      <4> QED
        BY <4>2 DEF B, LevelFrom
    <3>2. CASE i = 0
      <4> HIDE DEF g, D
      <4> QED
        BY <3>2 DEF LevelFrom
    <3> QED
      BY <3>1, <3>2
  <2> HIDE DEF B, D
  <2>3. g = [i \in D |-> IF i < k + 1 THEN B(g, i) ELSE 0]
    <3>1. \A i \in D : g[i] = IF i < k + 1 THEN B(g, i) ELSE 0
      BY <2>2
    <3>2. g = [i \in D |-> g[i]]
      OBVIOUS
    <3> HIDE DEF g
    <3> QED
      BY <3>1, <3>2
  <2> HIDE DEF g
  <2> QED
    BY <2>3
<1>3. size + 1 \in Upto
  <2> HIDE DEF Upto
  <2> QED
    BY <1>1, <1>2, EveryNumber
<1>4. PICK f : f = [i \in D |-> IF i < size + 1 THEN B(f, i) ELSE 0]
  BY <1>3
<1>5. f = [i \in D |-> B(f, i)]
  <2>1. \A i \in D : i < size + 1
    OBVIOUS
  <2> HIDE DEF D, B
  <2> QED
    BY <1>4, <2>1
<1> DEFINE C == Levels(index, size)
<1>6. C = CHOOSE level : level = [i \in D |-> B(level, i)]
  BY DEF Levels
<1>7. C = [i \in D |-> B(C, i)]
  <2> HIDE DEF D, B, C
  <2> QED
    BY <1>5, <1>6
<1>8. /\ 0 \in D
      /\ \A i \in 0..(size - 1) : i + 1 \in D /\ i + 1 # 0 /\ (i + 1) - 1 = i
  OBVIOUS
<1>9. \A i \in D : C[i] = B(C, i)
  <2> HIDE DEF D, B, C
  <2> QED
    BY <1>7
<1>10. C[0] = [width |-> 1, place |-> index, last |-> size - 1]
  <2> HIDE DEF D, C
  <2> QED
    BY <1>8, <1>9 DEF LevelFrom
<1>11. ASSUME NEW i \in 0..(size - 1)
       PROVE  C[i + 1] = [width |-> 2 * C[i].width, place |-> C[i].place \div 2,
                          last |-> C[i].last \div 2]
  <2> HIDE DEF D, C
  <2>1. C[i + 1] = IF i + 1 = 0 THEN [width |-> 1, place |-> index, last |-> size - 1]
                   ELSE [width |-> 2 * C[(i + 1) - 1].width, place |-> C[(i + 1) - 1].place \div 2,
                         last |-> C[(i + 1) - 1].last \div 2]
    BY <1>8, <1>9 DEF LevelFrom
  <2> QED
    BY <1>8, <2>1
<1> QED
  BY <1>10, <1>11

\* On the lowest level a node is a leaf.
LEMMA FirstLevel ==
  ASSUME NEW index, NEW size \in Nat
  PROVE  /\ Levels(index, size)[0].width = 1
         /\ Levels(index, size)[0].place = index
         /\ Levels(index, size)[0].last = size - 1
<1>1. Levels(index, size)[0] = [width |-> 1, place |-> index, last |-> size - 1]
  BY LevelsDefined
<1> QED
  BY <1>1

\* One level up, widths double and places halve.
LEMMA NextLevel ==
  ASSUME NEW index, NEW size \in Nat, NEW l \in 0..(size - 1)
  PROVE  /\ Levels(index, size)[l + 1].width = 2 * Levels(index, size)[l].width
         /\ Levels(index, size)[l + 1].place = Levels(index, size)[l].place \div 2
         /\ Levels(index, size)[l + 1].last = Levels(index, size)[l].last \div 2
<1>1. Levels(index, size)[l + 1]
        = [width |-> 2 * Levels(index, size)[l].width,
           place |-> Levels(index, size)[l].place \div 2,
           last |-> Levels(index, size)[l].last \div 2]
  BY LevelsDefined
<1> QED
  BY <1>1

\* What multiplication keeps of the order.
LEMMA Times ==
  \A a, b, w \in Nat : /\ a * w \in Nat
                       /\ a <= b => a * w <= b * w
                       /\ a < b => a * w + w <= b * w
<1> SUFFICES ASSUME NEW a \in Nat, NEW b \in Nat, NEW w \in Nat
             PROVE  /\ a * w \in Nat
                    /\ a <= b => a * w <= b * w
                    /\ a < b => a * w + w <= b * w
  OBVIOUS
<1>0. a * w \in Nat
  OBVIOUS
<1>1. ASSUME a <= b PROVE a * w <= b * w
  <2>1. PICK c \in Nat : b = a + c
    BY <1>1
  <2>2. b * w = a * w + c * w /\ c * w \in Nat
    BY <2>1
  <2> QED
    BY <1>0, <2>2
<1>2. ASSUME a < b PROVE a * w + w <= b * w
  <2>1. PICK c \in Nat : b = a + c + 1
    BY <1>2
  <2>2. b * w = a * w + c * w + w /\ c * w \in Nat
    BY <2>1
  <2> QED
    BY <1>0, <2>2
<1> QED
  BY <1>0, <1>1, <1>2

\* A place of the level above starts where its first child does.
LEMMA TimesTwo ==
  \A q, w \in Nat : /\ q * (2 * w) = (2 * q) * w
                    /\ (2 * q + 1) * w = (2 * q) * w + w
OBVIOUS

\* An even place is twice the one above, an odd one is one more.
LEMMA Halving ==
  \A p \in Nat : /\ p \div 2 \in Nat
                 /\ p % 2 = 0 => p = 2 * (p \div 2)
                 /\ p % 2 # 0 => p = 2 * (p \div 2) + 1 /\ p % 2 = 1
OBVIOUS

\* Halving the place and doubling the width keeps what a place spans.
LEMMA OnceHalved ==
  ASSUME NEW p \in Nat, NEW w \in Nat, NEW x \in Nat, p * w <= x, x < p * w + w
  PROVE  (p \div 2) * (2 * w) <= x /\ x < (p \div 2) * (2 * w) + 2 * w
<1>1. PICK q \in Nat : q = p \div 2 /\ (p = 2 * q \/ p = 2 * q + 1)
  BY Halving
<1>2. /\ q * (2 * w) = (2 * q) * w /\ (2 * q + 1) * w = (2 * q) * w + w
      /\ (2 * q) * w \in Nat
  <2>1. 2 * q \in Nat
    OBVIOUS
  <2> QED
    BY <2>1, Times, TimesTwo
<1>3. PICK y \in Nat : y = (2 * q) * w
  BY <1>2
<1>4. p * w = y \/ p * w = y + w
  BY <1>1, <1>2, <1>3
<1>5. y <= x /\ x < y + 2 * w
  BY <1>3, <1>4
<1> QED
  BY <1>1, <1>2, <1>3, <1>5

\* The places count in widths: a place's leaves are those from place * width on.
LevelCounts(v, index, size) ==
  /\ v = [width |-> v.width, place |-> v.place, last |-> v.last]
  /\ v.width \in Nat /\ v.width > 0
  /\ v.place \in Nat /\ v.place * v.width <= index /\ index < v.place * v.width + v.width
  /\ v.last \in Nat /\ v.last * v.width <= size - 1 /\ size - 1 < v.last * v.width + v.width
  /\ v.place <= v.last

\* On every level the places span the index and the last leaf, and the widths
\* outgrow the number of the level.
LEMMA LevelsCount ==
  ASSUME NEW size \in Nat, NEW index \in 0..(size - 1)
  PROVE  \A l \in 0..size : /\ LevelCounts(Levels(index, size)[l], index, size)
                            /\ Levels(index, size)[l].width > l
<1> DEFINE V == Levels(index, size)
           S == {l \in Nat : l <= size => LevelCounts(V[l], index, size) /\ V[l].width > l}
<1>d. /\ V[0] = [width |-> 1, place |-> index, last |-> size - 1]
      /\ \A l \in 0..(size - 1) :
           V[l + 1] = [width |-> 2 * V[l].width, place |-> V[l].place \div 2,
                       last |-> V[l].last \div 2]
  BY LevelsDefined
<1> HIDE DEF V
<1>n. size - 1 \in Nat /\ index \in Nat
  OBVIOUS
<1>1. 0 \in S
  <2>1. /\ V[0].width = 1 /\ V[0].place = index /\ V[0].last = size - 1
        /\ V[0] = [width |-> V[0].width, place |-> V[0].place, last |-> V[0].last]
    BY <1>d
  <2>2. index * 1 = index /\ (size - 1) * 1 = size - 1
    OBVIOUS
  <2> QED
    BY <2>1, <2>2, <1>n DEF LevelCounts
<1>2. ASSUME NEW l \in Nat, l \in S PROVE l + 1 \in S
  <2> SUFFICES ASSUME l + 1 <= size
               PROVE  LevelCounts(V[l + 1], index, size) /\ V[l + 1].width > l + 1
    OBVIOUS
  <2>1. LevelCounts(V[l], index, size) /\ V[l].width > l
    BY <1>2
  <2>2. PICK w \in Nat, p \in Nat, t \in Nat : w = V[l].width /\ p = V[l].place /\ t = V[l].last
    BY <2>1 DEF LevelCounts
  <2>3. V[l + 1] = [width |-> 2 * w, place |-> p \div 2, last |-> t \div 2]
    BY <1>d, <2>2
  <2>4. /\ w > 0 /\ w > l /\ p <= t
        /\ p * w <= index /\ index < p * w + w
        /\ t * w <= size - 1 /\ size - 1 < t * w + w
    BY <2>1, <2>2 DEF LevelCounts
  <2>5. /\ (p \div 2) * (2 * w) <= index /\ index < (p \div 2) * (2 * w) + 2 * w
        /\ (t \div 2) * (2 * w) <= size - 1 /\ size - 1 < (t \div 2) * (2 * w) + 2 * w
    BY <2>4, <1>n, OnceHalved
  <2>6. /\ 2 * w \in Nat /\ 2 * w > l + 1 /\ 2 * w > 0
        /\ p \div 2 \in Nat /\ t \div 2 \in Nat /\ p \div 2 <= t \div 2
    BY <2>4
  <2>7. /\ V[l + 1].width = 2 * w /\ V[l + 1].place = p \div 2 /\ V[l + 1].last = t \div 2
        /\ V[l + 1] = [width |-> V[l + 1].width, place |-> V[l + 1].place,
                       last |-> V[l + 1].last]
    BY <2>3
  <2> QED
    BY <2>5, <2>6, <2>7 DEF LevelCounts
<1>3. \A l \in Nat : l \in S
  <2> HIDE DEF S
  <2> QED
    BY <1>1, <1>2, EveryNumber
<1> QED
  BY <1>3 DEF V

\* The same, field by field.
LEMMA LevelNumbers ==
  ASSUME NEW size \in Nat, NEW index \in 0..(size - 1), NEW l \in 0..size
  PROVE  /\ Levels(index, size)[l].width \in Nat /\ Levels(index, size)[l].width > 0
         /\ Levels(index, size)[l].place \in Nat /\ Levels(index, size)[l].last \in Nat
         /\ Levels(index, size)[l].place <= Levels(index, size)[l].last
         /\ Levels(index, size)[l].place * Levels(index, size)[l].width <= index
         /\ index < Levels(index, size)[l].place * Levels(index, size)[l].width
                      + Levels(index, size)[l].width
         /\ Levels(index, size)[l].last * Levels(index, size)[l].width <= size - 1
         /\ size - 1 < Levels(index, size)[l].last * Levels(index, size)[l].width
                         + Levels(index, size)[l].width
         /\ Levels(index, size)[l].width > l
BY LevelsCount DEF LevelCounts

\* Higher levels have wider nodes.
LEMMA WidthsGrow ==
  ASSUME NEW size \in Nat, NEW index \in 0..(size - 1),
         NEW i \in 0..size, NEW j \in 0..size, i <= j
  PROVE  Levels(index, size)[i].width <= Levels(index, size)[j].width
<1> DEFINE V == Levels(index, size)
           S == {k \in Nat : i <= k /\ k <= size => V[i].width <= V[k].width}
<1>d. /\ \A l \in 0..(size - 1) : V[l + 1].width = 2 * V[l].width
      /\ \A l \in 0..size : V[l].width \in Nat
  <2>1. \A l \in 0..(size - 1) : V[l + 1].width = 2 * V[l].width
    BY NextLevel
  <2>2. \A l \in 0..size : V[l].width \in Nat
    BY LevelsCount DEF LevelCounts
  <2> QED
    BY <2>1, <2>2
<1> HIDE DEF V
<1>1. 0 \in S
  BY <1>d
<1>2. ASSUME NEW k \in Nat, k \in S PROVE k + 1 \in S
  <2> SUFFICES ASSUME i <= k + 1, k + 1 <= size PROVE V[i].width <= V[k + 1].width
    OBVIOUS
  <2>1. CASE i = k + 1
    BY <2>1, <1>d
  <2>2. CASE i # k + 1
    <3>1. i <= k /\ k \in 0..(size - 1) /\ k \in 0..size /\ i \in 0..size
      BY <2>2
    <3>2. V[i].width <= V[k].width
      BY <1>2, <3>1
    <3>3. V[k + 1].width = 2 * V[k].width /\ V[k].width \in Nat /\ V[i].width \in Nat
      BY <1>d, <3>1
    <3> QED
      BY <3>2, <3>3
  <2> QED
    BY <2>1, <2>2
<1>3. j \in S
  <2> HIDE DEF S
  <2> QED
    BY <1>1, <1>2, EveryNumber
<1> QED
  BY <1>3 DEF V

\* A slice that is longer than the width of a level, and at most twice as long,
\* is split after that width.
LEMMA SplitAtWidth ==
  ASSUME NEW size \in Nat, NEW index \in 0..(size - 1), NEW l \in 0..size, NEW m \in Nat,
         Levels(index, size)[l].width < m, m <= 2 * Levels(index, size)[l].width
  PROVE  SplitPoint(m) = Levels(index, size)[l].width
<1> DEFINE V == Levels(index, size)
           D == Doublings(m)
           S == {i \in Nat : i <= l => D[V[i].width] = D[1]}
<1>d. /\ V[0].width = 1
      /\ \A i \in 0..(size - 1) : V[i + 1].width = 2 * V[i].width
      /\ \A i \in 0..size : V[i].width \in Nat /\ V[i].width > 0
  <2>1. V[0].width = 1 /\ \A i \in 0..(size - 1) : V[i + 1].width = 2 * V[i].width
    BY FirstLevel, NextLevel
  <2>2. \A i \in 0..size : V[i].width \in Nat /\ V[i].width > 0
    BY LevelsCount DEF LevelCounts
  <2> QED
    BY <2>1, <2>2
<1>w. \A i \in 0..size : i <= l => V[i].width <= V[l].width
  BY WidthsGrow
<1>m. V[l].width < m /\ m <= 2 * V[l].width
  OBVIOUS
<1>f. \A k \in 1..m : D[k] = IF k * 2 < m THEN D[k * 2] ELSE k
  BY DoublingsDefined
<1> HIDE DEF V, D
<1>1. 0 \in S
  BY <1>d
<1>2. ASSUME NEW i \in Nat, i \in S PROVE i + 1 \in S
  <2> SUFFICES ASSUME i + 1 <= l PROVE D[V[i + 1].width] = D[1]
    OBVIOUS
  <2>1. i \in 0..(size - 1) /\ i \in 0..size /\ i <= l /\ i + 1 \in 0..size
    OBVIOUS
  <2>2. PICK a \in Nat, b \in Nat, c \in Nat :
          a = V[i].width /\ b = V[i + 1].width /\ c = V[l].width
    BY <1>d, <2>1
  <2>3. a > 0 /\ b = 2 * a /\ b <= c /\ c < m
    BY <1>d, <1>m, <1>w, <2>1, <2>2
  <2>4. a \in 1..m /\ a * 2 < m /\ a * 2 = b
    BY <2>3
  <2>5. D[a] = D[b]
    BY <1>f, <2>4
  <2> QED
    BY <1>2, <2>1, <2>2, <2>5
<1>3. l \in S
  <2> HIDE DEF S
  <2> QED
    BY <1>1, <1>2, EveryNumber
<1>4. D[V[l].width] = V[l].width
  <2>1. PICK c \in Nat : c = V[l].width
    BY <1>d
  <2>2. c \in 1..m /\ ~(c * 2 < m)
    BY <1>d, <1>m, <2>1
  <2> QED
    BY <1>f, <2>1, <2>2
<1>5. SplitPoint(m) = D[1]
  BY SplitPointIsDoubled DEF D
<1> QED
  BY <1>3, <1>4, <1>5 DEF V

-----------------------------------------------------------------------------
(* The tree, level by level. *)

\* The slice of the node at a place of a level; the last one may be shorter.
Part(size, place, width) ==
  <<place * width, IF width <= size - place * width THEN width ELSE size - place * width>>

\* The part of a node is a slice, and not empty.
LEMMA PartIsSlice ==
  ASSUME NEW size \in Nat, NEW leaves, Len(leaves) = size,
         NEW q \in Nat, NEW w \in Nat, w > 0, q * w <= size - 1
  PROVE  /\ Part(size, q, w) \in Slices(leaves)
         /\ Part(size, q, w)[1] = q * w
         /\ Part(size, q, w)[2] >= 1 /\ Part(size, q, w)[2] \in Nat
<1>1. PICK x \in Nat : x = q * w
  BY Times
<1>2. Part(size, q, w) = <<x, IF w <= size - x THEN w ELSE size - x>>
  BY <1>1 DEF Part
<1>3. x <= size - 1
  BY <1>1
<1> DEFINE y == IF w <= size - x THEN w ELSE size - x
<1>4. y \in Nat /\ y >= 1 /\ x + y <= size
  BY <1>3
<1>5. x \in 0..Len(leaves) /\ y \in 0..Len(leaves) /\ x + y <= Len(leaves)
  BY <1>4
<1> QED
  BY <1>1, <1>2, <1>4, <1>5 DEF Slices

\* A node with two children is split where the second one starts.
LEMMA PartDivides ==
  ASSUME NEW size \in Nat, NEW index \in 0..(size - 1), NEW l \in 0..(size - 1), NEW q \in Nat,
         NEW w, w = Levels(index, size)[l].width,
         2 * q + 1 <= Levels(index, size)[l].last
  PROVE  /\ Part(size, q, 2 * w)[1] = q * (2 * w)
         /\ Part(size, q, 2 * w)[2] > 1
         /\ SplitPoint(Part(size, q, 2 * w)[2]) = w
         /\ Left(Part(size, q, 2 * w)) = Part(size, 2 * q, w)
         /\ Right(Part(size, q, 2 * w)) = Part(size, 2 * q + 1, w)
<1>l. l \in 0..size
  OBVIOUS
<1>1. /\ w \in Nat /\ w > 0
      /\ Levels(index, size)[l].last \in Nat
      /\ Levels(index, size)[l].last * w <= size - 1
  BY <1>l, LevelNumbers
<1>2. PICK t \in Nat : t = Levels(index, size)[l].last
  BY <1>1
<1>3. PICK x \in Nat : x = (2 * q) * w /\ (2 * q + 1) * w = x + w /\ q * (2 * w) = x
  <2>1. 2 * q \in Nat
    OBVIOUS
  <2> QED
    BY <1>1, <2>1, Times, TimesTwo
<1>4. x + w <= size - 1
  <2>1. 2 * q + 1 \in Nat /\ 2 * q + 1 <= t /\ t * w <= size - 1
    BY <1>1, <1>2
  <2>2. (2 * q + 1) * w <= t * w /\ t * w \in Nat
    BY <1>1, <2>1, Times
  <2> QED
    BY <1>1, <1>3, <2>1, <2>2
<1> DEFINE m == IF 2 * w <= size - x THEN 2 * w ELSE size - x
<1>5. m \in Nat /\ w < m /\ m <= 2 * w /\ m > 1
  BY <1>1, <1>4
<1>6. SplitPoint(m) = w
  <2>1. l \in 0..size
    OBVIOUS
  <2> HIDE DEF m
  <2> QED
    <3>1. Levels(index, size)[l].width < m /\ m <= 2 * Levels(index, size)[l].width
      BY <1>5
    <3>2. m \in Nat
      BY <1>5
    <3>3. SplitPoint(m) = Levels(index, size)[l].width
      BY ONLY <2>1, <3>1, <3>2, SplitAtWidth, size \in Nat, index \in 0..(size - 1)
    <3> QED
      BY <3>3
<1>7. Part(size, q, 2 * w) = <<x, m>>
  BY <1>3 DEF Part
<1>8. Part(size, 2 * q, w) = <<x, w>>
  BY <1>1, <1>3, <1>4 DEF Part
<1>9. Part(size, 2 * q + 1, w) = <<x + w, m - w>>
  <2>1. Part(size, 2 * q + 1, w)
          = <<x + w, IF w <= size - (x + w) THEN w ELSE size - (x + w)>>
    BY <1>3 DEF Part
  <2>2. m - w = IF w <= size - (x + w) THEN w ELSE size - (x + w)
    BY <1>1, <1>4
  <2> HIDE DEF m
  <2> QED
    BY <2>1, <2>2
<1> HIDE DEF m
<1>10. Left(<<x, m>>) = <<x, w>> /\ Right(<<x, m>>) = <<x + w, m - w>>
  BY <1>6 DEF Left, Right
<1> QED
  BY <1>3, <1>5, <1>6, <1>7, <1>8, <1>9, <1>10

\* The last node of a level, when its place is even, is alone: the node above
\* has the same leaves.
LEMMA PartRises ==
  ASSUME NEW size \in Nat, NEW index \in 0..(size - 1), NEW l \in 0..(size - 1), NEW q \in Nat,
         NEW w, w = Levels(index, size)[l].width,
         2 * q = Levels(index, size)[l].last
  PROVE  Part(size, q, 2 * w) = Part(size, 2 * q, w)
<1>l. l \in 0..size
  OBVIOUS
<1>1. /\ w \in Nat /\ w > 0
      /\ Levels(index, size)[l].last * w <= size - 1
      /\ size - 1 < Levels(index, size)[l].last * w + w
  BY <1>l, LevelNumbers
<1>2. PICK x \in Nat : x = (2 * q) * w /\ q * (2 * w) = x
  <2>1. 2 * q \in Nat
    OBVIOUS
  <2> QED
    BY <1>1, <2>1, Times, TimesTwo
<1>3. x <= size - 1 /\ size - 1 < x + w
  BY <1>1, <1>2
<1>4. (IF 2 * w <= size - x THEN 2 * w ELSE size - x) = IF w <= size - x THEN w ELSE size - x
  <2>0. w \in Nat /\ w > 0
    BY <1>1
  <2>1. ~(2 * w <= size - x) /\ (w <= size - x => w = size - x)
    BY <1>3, <2>0
  <2> QED
    BY <2>1
<1> QED
  BY <1>2, <1>4 DEF Part

\* What a leaf's hash is of, when its data are one value,
LEMMA HashLeafOne ==
  ASSUME NEW x
  PROVE  HashLeaf(<<x>>) = <<0, x>>
<1> DEFINE S == {0, x}
           s == <<0>>
           t == <<x>>
           u == <<0, x>>
<1>1. /\ s \in Seq(S) /\ Len(s) = 1 /\ s[1] = 0
      /\ t \in Seq(S) /\ Len(t) = 1 /\ t[1] = x
      /\ u \in Seq(S) /\ Len(u) = 2 /\ u[1] = 0 /\ u[2] = x
  OBVIOUS
<1>2. HashLeaf(<<x>>) = s \o t
  BY DEF HashLeaf
<1> HIDE DEF S, s, t, u
<1>3. s \o t \in Seq(S) /\ Len(s \o t) = 2 /\ (s \o t)[1] = 0 /\ (s \o t)[2] = x
  <2>0. /\ s \o t \in Seq(S) /\ Len(s \o t) = Len(s) + Len(t)
        /\ \A i \in 1..(Len(s) + Len(t)) :
             (s \o t)[i] = IF i <= Len(s) THEN s[i] ELSE t[i - Len(s)]
    BY <1>1, ConcatProperties, Zenon
  <2>1. /\ s \o t \in Seq(S) /\ Len(s \o t) = 2
        /\ \A i \in 1..2 : (s \o t)[i] = IF i <= 1 THEN s[i] ELSE t[i - 1]
    <3>1. Len(s) + Len(t) = 2
      BY <1>1
    <3> QED
      BY <1>1, <2>0, <3>1
  <2>2. (s \o t)[1] = s[1] /\ (s \o t)[2] = t[1]
    BY <2>1
  <2> QED
    BY <1>1, <2>1, <2>2
<1>4. s \o t = u
  BY <1>1, <1>3, SeqEqual
<1> QED
  BY <1>2, <1>4 DEF u

\* or two.
LEMMA HashLeafTwo ==
  ASSUME NEW x, NEW y
  PROVE  HashLeaf(<<x, y>>) = <<0, x, y>>
<1> DEFINE S == {0, x, y}
           s == <<0>>
           t == <<x, y>>
           u == <<0, x, y>>
<1>1. /\ s \in Seq(S) /\ Len(s) = 1 /\ s[1] = 0
      /\ t \in Seq(S) /\ Len(t) = 2 /\ t[1] = x /\ t[2] = y
      /\ u \in Seq(S) /\ Len(u) = 3 /\ u[1] = 0 /\ u[2] = x /\ u[3] = y
  OBVIOUS
<1>2. HashLeaf(<<x, y>>) = s \o t
  BY DEF HashLeaf
<1> HIDE DEF S, s, t, u
<1>3. /\ s \o t \in Seq(S) /\ Len(s \o t) = 3
      /\ (s \o t)[1] = 0 /\ (s \o t)[2] = x /\ (s \o t)[3] = y
  <2>0. /\ s \o t \in Seq(S) /\ Len(s \o t) = Len(s) + Len(t)
        /\ \A i \in 1..(Len(s) + Len(t)) :
             (s \o t)[i] = IF i <= Len(s) THEN s[i] ELSE t[i - Len(s)]
    BY <1>1, ConcatProperties, Zenon
  <2>1. /\ s \o t \in Seq(S) /\ Len(s \o t) = 3
        /\ \A i \in 1..3 : (s \o t)[i] = IF i <= 1 THEN s[i] ELSE t[i - 1]
    <3>1. Len(s) + Len(t) = 3
      BY <1>1
    <3> QED
      BY <1>1, <2>0, <3>1
  <2>2. (s \o t)[1] = s[1] /\ (s \o t)[2] = t[1] /\ (s \o t)[3] = t[2]
    BY <2>1
  <2> QED
    BY <1>1, <2>1, <2>2
<1>4. s \o t = u
  BY <1>1, <1>3, SeqEqual
<1> QED
  BY <1>2, <1>4 DEF u

\* The leaves of a day.
LEMMA LeavesCount ==
  ASSUME NEW n \in Nat
  PROVE  /\ Len(Leaves(n)) = n
         /\ \A i \in 1..n : Leaves(n)[i] = <<0, i>>
<1>1. \A i \in 1..n : Leaves(n)[i] = <<0, i>>
  <2>1. ASSUME NEW i \in 1..n PROVE HashLeaf(<<i>>) = <<0, i>>
    BY HashLeafOne
  <2> QED
    BY <2>1 DEF Leaves
<1>2. Leaves(n) \in Seq({<<0, i>> : i \in 1..n}) /\ DOMAIN Leaves(n) = 1..n
  BY <1>1 DEF Leaves
<1> QED
  BY <1>1, <1>2

\* The hash of the node at a place of a level, and the path to its level.
HashAt(index, size, l, place) ==
  Roots(Leaves(size))[Part(size, place, Levels(index, size)[l].width)]

PathAt(index, size, l) ==
  PathsTo(index, Leaves(size))[Part(size, Levels(index, size)[l].place,
                                    Levels(index, size)[l].width)]

\* On the lowest level the hash of a node is the leaf, and the path is empty.
LEMMA HashOfLeaf ==
  ASSUME NEW size \in Nat, NEW index \in 0..(size - 1)
  PROVE  /\ HashAt(index, size, 0, index) = <<0, index + 1>>
         /\ PathAt(index, size, 0) = <<>>
<1>1. Levels(index, size)[0].width = 1 /\ Levels(index, size)[0].place = index
  BY FirstLevel
<1>2. Part(size, index, 1) = <<index, 1>>
  BY DEF Part
<1>3. <<index, 1>> \in Slices(Leaves(size))
  BY LeavesCount DEF Slices
<1>4. Roots(Leaves(size))[<<index, 1>>] = Leaves(size)[index + 1]
  <2>1. Roots(Leaves(size))[<<index, 1>>]
          = RootFrom(Leaves(size), Roots(Leaves(size)), <<index, 1>>)
    BY <1>3, LeavesCount, RootsDefined
  <2> QED
    BY <2>1 DEF RootFrom
<1>5. PathsTo(index, Leaves(size))[<<index, 1>>] = <<>>
  <2>1. PathsTo(index, Leaves(size))[<<index, 1>>]
          = PathFrom(index, Leaves(size), PathsTo(index, Leaves(size)), <<index, 1>>)
    BY <1>3, LeavesCount, PathsDefined
  <2> QED
    BY <2>1 DEF PathFrom
<1>6. index + 1 \in 1..size
  OBVIOUS
<1> QED
  BY <1>1, <1>2, <1>4, <1>5, <1>6, LeavesCount DEF HashAt, PathAt

\* A node with two children has the hash of the two.
LEMMA HashesPair ==
  ASSUME NEW size \in Nat, NEW index \in 0..(size - 1), NEW l \in 0..(size - 1), NEW q \in Nat,
         2 * q + 1 <= Levels(index, size)[l].last
  PROVE  HashAt(index, size, l + 1, q)
           = HashNode(HashAt(index, size, l, 2 * q), HashAt(index, size, l, 2 * q + 1))
<1>l. l \in 0..size
  OBVIOUS
<1>1. PICK w \in Nat : w = Levels(index, size)[l].width /\ w > 0
  BY <1>l, LevelNumbers
<1>2. Levels(index, size)[l + 1].width = 2 * w
  BY <1>1, NextLevel
<1> DEFINE s == Part(size, q, 2 * w)
<1>3. /\ s[1] = q * (2 * w) /\ s[2] > 1
      /\ Left(s) = Part(size, 2 * q, w) /\ Right(s) = Part(size, 2 * q + 1, w)
  BY <1>1, PartDivides
<1>4. s \in Slices(Leaves(size)) /\ s[2] \in Nat
  <2>1. q * (2 * w) <= size - 1
    <3>1. PICK t \in Nat : t = Levels(index, size)[l].last /\ t * w <= size - 1
      BY <1>1, <1>l, LevelNumbers
    <3>2. 2 * q \in Nat /\ 2 * q <= t
      BY <3>1
    <3>3. (2 * q) * w <= t * w /\ (2 * q) * w \in Nat /\ t * w \in Nat
      BY <1>1, <3>1, <3>2, Times
    <3>4. q * (2 * w) = (2 * q) * w
      BY <1>1, TimesTwo
    <3> QED
      BY <3>1, <3>3, <3>4
  <2>2. 2 * w \in Nat /\ 2 * w > 0
    BY <1>1
  <2> HIDE DEF s
  <2> QED
    BY <2>1, <2>2, LeavesCount, PartIsSlice DEF s
<1> HIDE DEF s
<1>5. Roots(Leaves(size))[s] = RootFrom(Leaves(size), Roots(Leaves(size)), s)
  BY <1>4, LeavesCount, RootsDefined
<1>6. s[2] # 0 /\ s[2] # 1
  BY <1>3, <1>4
<1>7. Roots(Leaves(size))[s] = HashNode(Roots(Leaves(size))[Left(s)], Roots(Leaves(size))[Right(s)])
  BY <1>5, <1>6 DEF RootFrom
<1> QED
  BY <1>1, <1>2, <1>3, <1>7 DEF HashAt, s

\* A node with one child has the child's hash.
LEMMA HashesRise ==
  ASSUME NEW size \in Nat, NEW index \in 0..(size - 1), NEW l \in 0..(size - 1), NEW q \in Nat,
         2 * q = Levels(index, size)[l].last
  PROVE  HashAt(index, size, l + 1, q) = HashAt(index, size, l, 2 * q)
<1>l. l \in 0..size
  OBVIOUS
<1>1. PICK w \in Nat : w = Levels(index, size)[l].width
  BY <1>l, LevelNumbers
<1>2. Levels(index, size)[l + 1].width = 2 * w
  BY <1>1, NextLevel
<1>3. Part(size, q, 2 * w) = Part(size, 2 * q, w)
  BY <1>1, PartRises
<1> QED
  BY <1>1, <1>2, <1>3 DEF HashAt

\* Where the levels end there is one node, and it is the root.
LEMMA LastLevel ==
  ASSUME NEW size \in Nat, NEW index \in 0..(size - 1)
  PROVE  Levels(index, size)[size].last = 0
<1>1. size \in 0..size /\ size - 1 \in Nat
  OBVIOUS
<1>2. PICK w \in Nat, t \in Nat : /\ w = Levels(index, size)[size].width
                                  /\ t = Levels(index, size)[size].last
                                  /\ w > size /\ t * w <= size - 1
  BY <1>1, LevelNumbers
<1>3. ASSUME t # 0 PROVE FALSE
  <2>1. 1 \in Nat /\ 1 <= t
    BY <1>3
  <2>2. 1 * w <= t * w /\ t * w \in Nat
    BY <2>1, Times
  <2>3. 1 * w = w
    OBVIOUS
  <2> QED
    BY <1>1, <1>2, <2>2, <2>3
<1> QED
  BY <1>2, <1>3

\* On a level with one node, that node is the root and the path is complete.
LEMMA AtTheTop ==
  ASSUME NEW size \in Nat, NEW index \in 0..(size - 1), NEW l \in 0..size,
         Levels(index, size)[l].last = 0
  PROVE  /\ Levels(index, size)[l].place = 0
         /\ HashAt(index, size, l, 0) = Root(size)
         /\ PathAt(index, size, l) = InclusionPath(index, Leaves(size))
<1>1. PICK w \in Nat : /\ w = Levels(index, size)[l].width
                       /\ size - 1 < 0 * w + w
  BY LevelNumbers
<1>2. Levels(index, size)[l].place = 0
  BY LevelNumbers
<1>3. Part(size, 0, w) = <<0, size>>
  <2>1. 0 * w = 0
    OBVIOUS
  <2>2. w >= size
    BY <1>1, <2>1
  <2>3. Part(size, 0, w) = <<0, IF w <= size - 0 THEN w ELSE size - 0>>
    BY <2>1 DEF Part
  <2>4. (IF w <= size - 0 THEN w ELSE size - 0) = size
    BY <2>2
  <2> QED
    BY <2>3, <2>4
<1> QED
  BY <1>1, <1>2, <1>3, LeavesCount DEF HashAt, PathAt, Root, MerkleRoot, InclusionPath

\* A level where the place has a sibling adds it to the path.
LEMMA PathGrows ==
  ASSUME NEW size \in Nat, NEW index \in 0..(size - 1), NEW l \in 0..(size - 1),
         NEW p, p = Levels(index, size)[l].place,
         2 * (p \div 2) + 1 <= Levels(index, size)[l].last
  PROVE  PathAt(index, size, l + 1)
           = Append(PathAt(index, size, l),
                    IF p % 2 = 0 THEN HashAt(index, size, l, 2 * (p \div 2) + 1)
                                 ELSE HashAt(index, size, l, 2 * (p \div 2)))
<1>l. l \in 0..size
  OBVIOUS
<1>1. PICK w \in Nat : w = Levels(index, size)[l].width /\ w > 0
  BY <1>l, LevelNumbers
<1>2. p \in Nat /\ p * w <= index /\ index < p * w + w
  BY <1>1, <1>l, LevelNumbers
<1>3. PICK q \in Nat : /\ q = p \div 2
                       /\ p % 2 = 0 => p = 2 * q
                       /\ p % 2 # 0 => p = 2 * q + 1
  BY <1>2, Halving
<1>4. /\ Levels(index, size)[l + 1].width = 2 * w
      /\ Levels(index, size)[l + 1].place = q
  BY <1>1, <1>3, NextLevel
<1> DEFINE s == Part(size, q, 2 * w)
<1>5. /\ s[1] = q * (2 * w) /\ s[2] > 1 /\ SplitPoint(s[2]) = w
      /\ Left(s) = Part(size, 2 * q, w) /\ Right(s) = Part(size, 2 * q + 1, w)
  BY <1>1, <1>3, PartDivides
<1>6. s \in Slices(Leaves(size)) /\ s[2] \in Nat
  <2>1. l + 1 \in 0..size
    OBVIOUS
  <2>2. q * (2 * w) <= size - 1
    <3>1. q * (2 * w) <= index
      BY <1>4, <2>1, LevelNumbers
    <3>2. PICK x \in Nat : x = q * (2 * w)
      BY <1>1, <1>3, Times
    <3> QED
      BY <3>1, <3>2
  <2>3. 2 * w \in Nat /\ 2 * w > 0
    BY <1>1
  <2> HIDE DEF s
  <2> QED
    BY <2>2, <2>3, LeavesCount, PartIsSlice DEF s
<1> HIDE DEF s
<1> DEFINE path == PathsTo(index, Leaves(size))
<1>7. path[s] = IF index < s[1] + w
                THEN Append(path[Left(s)], Roots(Leaves(size))[Right(s)])
                ELSE Append(path[Right(s)], Roots(Leaves(size))[Left(s)])
  <2>1. path[s] = PathFrom(index, Leaves(size), path, s)
    BY <1>6, LeavesCount, PathsDefined
  <2>2. ~(s[2] <= 1)
    BY <1>5, <1>6
  <2> HIDE DEF path
  <2> QED
    BY <1>5, <2>1, <2>2 DEF PathFrom
<1>8. PICK x \in Nat : x = q * (2 * w) /\ x = (2 * q) * w /\ (2 * q + 1) * w = x + w
  <2>1. 2 * q \in Nat
    OBVIOUS
  <2> QED
    BY <1>1, <2>1, Times, TimesTwo
<1>9. (index < s[1] + w) <=> p % 2 = 0
  <2>1. CASE p % 2 = 0
    <3>1. p * w = x
      BY <1>3, <1>8, <2>1
    <3> QED
      BY <1>2, <1>5, <1>8, <2>1, <3>1
  <2>2. CASE p % 2 # 0
    <3>1. p * w = x + w
      BY <1>3, <1>8, <2>2
    <3> QED
      BY <1>2, <1>5, <1>8, <2>2, <3>1
  <2> QED
    BY <2>1, <2>2
<1>10. PathAt(index, size, l + 1) = path[s]
  BY <1>4 DEF PathAt, s
<1>11. CASE p % 2 = 0
  <2>1. PathAt(index, size, l) = path[Left(s)]
    BY <1>1, <1>3, <1>5, <1>11 DEF PathAt
  <2>2. HashAt(index, size, l, 2 * q + 1) = Roots(Leaves(size))[Right(s)]
    BY <1>1, <1>5 DEF HashAt
  <2> HIDE DEF path
  <2> QED
    BY <1>3, <1>7, <1>9, <1>10, <1>11, <2>1, <2>2
<1>12. CASE p % 2 # 0
  <2>1. PathAt(index, size, l) = path[Right(s)]
    BY <1>1, <1>3, <1>5, <1>12 DEF PathAt
  <2>2. HashAt(index, size, l, 2 * q) = Roots(Leaves(size))[Left(s)]
    BY <1>1, <1>5 DEF HashAt
  <2> HIDE DEF path
  <2> QED
    BY <1>3, <1>7, <1>9, <1>10, <1>12, <2>1, <2>2
<1> QED
  BY <1>11, <1>12

\* A level where it has none adds nothing.
LEMMA PathWaits ==
  ASSUME NEW size \in Nat, NEW index \in 0..(size - 1), NEW l \in 0..(size - 1),
         NEW p, p = Levels(index, size)[l].place,
         ~(2 * (p \div 2) + 1 <= Levels(index, size)[l].last)
  PROVE  /\ p = 2 * (p \div 2) /\ p % 2 = 0 /\ p = Levels(index, size)[l].last
         /\ PathAt(index, size, l + 1) = PathAt(index, size, l)
<1>l. l \in 0..size
  OBVIOUS
<1>1. PICK w \in Nat, t \in Nat : /\ w = Levels(index, size)[l].width
                                  /\ t = Levels(index, size)[l].last
  BY <1>l, LevelNumbers
<1>2. p \in Nat /\ p <= t
  BY <1>1, <1>l, LevelNumbers
<1>3. PICK q \in Nat : /\ q = p \div 2
                       /\ p % 2 = 0 => p = 2 * q
                       /\ p % 2 # 0 => p = 2 * q + 1
  BY <1>2, Halving
<1>4. p = 2 * q /\ p = t /\ p % 2 = 0
  BY <1>1, <1>2, <1>3
<1>5. /\ Levels(index, size)[l + 1].width = 2 * w
      /\ Levels(index, size)[l + 1].place = q
  BY <1>1, <1>3, NextLevel
<1>6. Part(size, q, 2 * w) = Part(size, p, w)
  BY <1>1, <1>4, PartRises
<1> QED
  BY <1>1, <1>3, <1>4, <1>5, <1>6 DEF PathAt

\* From level to level places shrink, and the last place stays the last.
LEMMA PlacesShrink ==
  ASSUME NEW size \in Nat, NEW index \in 0..(size - 1),
         NEW i \in 0..size, NEW j \in 0..size, i <= j
  PROVE  /\ Levels(index, size)[j].place <= Levels(index, size)[i].place
         /\ Levels(index, size)[j].last <= Levels(index, size)[i].last
         /\ Levels(index, size)[i].place = Levels(index, size)[i].last =>
              Levels(index, size)[j].place = Levels(index, size)[j].last
<1> DEFINE V == Levels(index, size)
           Below(k) == /\ V[k].place <= V[i].place /\ V[k].last <= V[i].last
                       /\ V[i].place = V[i].last => V[k].place = V[k].last
           S == {k \in Nat : i <= k /\ k <= size => Below(k)}
<1>d. /\ \A l \in 0..(size - 1) : /\ V[l + 1].place = V[l].place \div 2
                                  /\ V[l + 1].last = V[l].last \div 2
      /\ \A l \in 0..size : V[l].place \in Nat /\ V[l].last \in Nat
  <2>1. \A l \in 0..(size - 1) : V[l + 1].place = V[l].place \div 2 /\ V[l + 1].last = V[l].last \div 2
    BY NextLevel
  <2>2. \A l \in 0..size : V[l].place \in Nat /\ V[l].last \in Nat
    BY LevelNumbers
  <2> QED
    BY <2>1, <2>2
<1> HIDE DEF V
<1>1. 0 \in S
  BY <1>d
<1>2. ASSUME NEW k \in Nat, k \in S PROVE k + 1 \in S
  <2> SUFFICES ASSUME i <= k + 1, k + 1 <= size PROVE Below(k + 1)
    OBVIOUS
  <2>1. CASE i = k + 1
    BY <2>1, <1>d
  <2>2. CASE i # k + 1
    <3>1. i <= k /\ k \in 0..(size - 1) /\ k \in 0..size /\ i \in 0..size
      BY <2>2
    <3>2. Below(k)
      BY <1>2, <3>1
    <3>3. /\ V[k + 1].place = V[k].place \div 2 /\ V[k + 1].last = V[k].last \div 2
          /\ V[k].place \in Nat /\ V[k].last \in Nat /\ V[i].place \in Nat /\ V[i].last \in Nat
      BY <1>d, <3>1
    <3> QED
      BY <3>2, <3>3
  <2> QED
    BY <2>1, <2>2
<1>3. j \in S
  <2> HIDE DEF S
  <2> QED
    BY <1>1, <1>2, EveryNumber
<1>4. Below(j)
  BY <1>3
<1> QED
  BY <1>4 DEF V

\* From level i to level j a place is the last of its level, and has no sibling.
Alone(index, size, i, j) ==
  \A k \in i..(j - 1) : /\ Levels(index, size)[k].place = Levels(index, size)[k].last
                        /\ Levels(index, size)[k].place % 2 = 0

\* A place that rises alone keeps its hash.
LEMMA AloneKeepsHash ==
  ASSUME NEW size \in Nat, NEW index \in 0..(size - 1),
         NEW i \in 0..size, NEW j \in 0..size, i <= j, Alone(index, size, i, j)
  PROVE  HashAt(index, size, j, Levels(index, size)[j].place)
           = HashAt(index, size, i, Levels(index, size)[i].place)
<1> DEFINE V == Levels(index, size)
           H(k) == HashAt(index, size, k, V[k].place)
           S == {k \in Nat : i <= k /\ k <= j => H(k) = H(i)}
<1>1. 0 \in S
  <2> HIDE DEF H
  <2> QED
    OBVIOUS
<1>2. ASSUME NEW k \in Nat, k \in S PROVE k + 1 \in S
  <2> SUFFICES ASSUME i <= k + 1, k + 1 <= j PROVE H(k + 1) = H(i)
    OBVIOUS
  <2>1. CASE i = k + 1
    BY <2>1
  <2>2. CASE i # k + 1
    <3>1. i <= k /\ k <= j /\ k \in i..(j - 1) /\ k \in 0..(size - 1) /\ k \in 0..size
      BY <2>2
    <3>2. H(k) = H(i)
      BY <1>2, <3>1
    <3>3. PICK p \in Nat : p = V[k].place /\ p = V[k].last /\ p % 2 = 0
      BY <3>1, LevelNumbers DEF Alone
    <3>4. V[k + 1].place = p \div 2
      <4>1. V[k + 1].place = V[k].place \div 2
        BY <3>1, NextLevel
      <4> QED
        BY <3>3, <4>1
    <3>5. p \div 2 \in Nat /\ 2 * (p \div 2) = p
      BY <3>3
    <3>6. HashAt(index, size, k + 1, p \div 2) = HashAt(index, size, k, 2 * (p \div 2))
      BY <3>1, <3>3, <3>5, HashesRise
    <3> QED
      BY <3>2, <3>3, <3>4, <3>5, <3>6
  <2> QED
    BY <2>1, <2>2
<1>3. j \in S
  <2> HIDE DEF S
  <2> QED
    BY <1>1, <1>2, EveryNumber
<1> QED
  BY <1>3

\* Ascend gives a place and a last place.
LEMMA AscendTyped ==
  ASSUME NEW fn \in Nat, NEW sn \in Nat
  PROVE  Ascend(fn, sn) \in Nat \X Nat
<1> DEFINE up == Ascending(fn, sn)
           S == {k \in Nat : \A a \in 0..fn, b \in 0..sn : a < k => up[<<a, b>>] \in Nat \X Nat}
<1>d. \A a \in 0..fn, b \in 0..sn :
        up[<<a, b>>] = IF a # 0 /\ a % 2 = 0 THEN up[<<a \div 2, b \div 2>>]
                       ELSE <<a \div 2, b \div 2>>
  BY AscendingDefined
<1> HIDE DEF up
<1>1. 0 \in S
  OBVIOUS
<1>2. ASSUME NEW k \in Nat, k \in S PROVE k + 1 \in S
  <2>1. ASSUME NEW a \in 0..fn, NEW b \in 0..sn, a < k + 1 PROVE up[<<a, b>>] \in Nat \X Nat
    <3>1. a \div 2 \in 0..fn /\ b \div 2 \in 0..sn /\ a \div 2 \in Nat /\ b \div 2 \in Nat
      OBVIOUS
    <3>2. CASE a # 0 /\ a % 2 = 0
      <4>1. a \div 2 < k
        BY <2>1, <3>2
      <4>2. up[<<a \div 2, b \div 2>>] \in Nat \X Nat
        BY <1>2, <3>1, <4>1
      <4>3. up[<<a, b>>] = up[<<a \div 2, b \div 2>>]
        BY <1>d, <3>2
      <4> QED
        BY <4>2, <4>3
    <3>3. CASE ~(a # 0 /\ a % 2 = 0)
      <4>1. up[<<a, b>>] = <<a \div 2, b \div 2>>
        BY <1>d, <3>3
      <4> QED
        BY <3>1, <4>1
    <3> QED
      BY <3>2, <3>3
  <2> QED
    BY <2>1
<1>3. fn + 1 \in S
  <2> HIDE DEF S
  <2> QED
    BY <1>1, <1>2, EveryNumber
<1>4. up[<<fn, sn>>] \in Nat \X Nat
  BY <1>3
<1> QED
  BY <1>4, AscendIsAscending DEF up

\* From an even place the verifier goes to the first level where it is odd, and
\* one further.
LEMMA AscendsThrough ==
  ASSUME NEW size \in Nat, NEW index \in 0..(size - 1),
         NEW i \in 0..size, NEW j \in 0..(size - 1), i <= j,
         \A k \in i..(j - 1) : /\ Levels(index, size)[k].place % 2 = 0
                               /\ Levels(index, size)[k].place # 0,
         Levels(index, size)[j].place % 2 = 1
  PROVE  Ascend(Levels(index, size)[i].place, Levels(index, size)[i].last)
           = <<Levels(index, size)[j + 1].place, Levels(index, size)[j + 1].last>>
<1> DEFINE V == Levels(index, size)
           fn == V[i].place
           sn == V[i].last
           up == Ascending(fn, sn)
           Top == <<V[j + 1].place, V[j + 1].last>>
           S == {k \in Nat : k <= j - i => up[<<V[j - k].place, V[j - k].last>>] = Top}
<1>0. fn \in Nat /\ sn \in Nat
  BY LevelNumbers
<1>d. \A a \in 0..fn, b \in 0..sn :
        up[<<a, b>>] = IF a # 0 /\ a % 2 = 0 THEN up[<<a \div 2, b \div 2>>]
                       ELSE <<a \div 2, b \div 2>>
  <2> HIDE DEF fn, sn
  <2> QED
    BY <1>0, AscendingDefined
<1>e. Ascend(fn, sn) = up[<<fn, sn>>]
  <2> HIDE DEF fn, sn
  <2> QED
    BY <1>0, AscendIsAscending
<1>a. \A k \in i..(j - 1) : V[k].place % 2 = 0 /\ V[k].place # 0
  OBVIOUS
<1>b. V[j].place % 2 = 1
  OBVIOUS
<1>s. ASSUME NEW m \in i..j
      PROVE  /\ V[m].place \in 0..fn /\ V[m].last \in 0..sn
             /\ V[m + 1].place = V[m].place \div 2 /\ V[m + 1].last = V[m].last \div 2
  <2>1. m \in 0..size /\ i <= m /\ m \in 0..(size - 1)
    OBVIOUS
  <2>2. /\ V[m].place \in Nat /\ V[m].last \in Nat
        /\ V[m].place <= fn /\ V[m].last <= sn
    BY <2>1, LevelNumbers, PlacesShrink
  <2>3. V[m + 1].place = V[m].place \div 2 /\ V[m + 1].last = V[m].last \div 2
    BY <2>1, NextLevel
  <2> HIDE DEF V, fn, sn
  <2> QED
    BY <1>0, <2>2, <2>3
<1> HIDE DEF V, up
<1>1. 0 \in S
  <2>1. j \in i..j /\ j - 0 = j
    OBVIOUS
  <2>2. V[j].place \in 0..fn /\ V[j].last \in 0..sn
    BY <1>s, <2>1
  <2>3. ~(V[j].place # 0 /\ V[j].place % 2 = 0)
    BY <1>b
  <2>4. up[<<V[j].place, V[j].last>>] = <<V[j].place \div 2, V[j].last \div 2>>
    <3> HIDE DEF fn, sn
    <3> QED
      BY <1>d, <2>2, <2>3
  <2> QED
    BY <1>s, <2>1, <2>4
<1>2. ASSUME NEW k \in Nat, k \in S PROVE k + 1 \in S
  <2> SUFFICES ASSUME k + 1 <= j - i
               PROVE  up[<<V[j - (k + 1)].place, V[j - (k + 1)].last>>] = Top
    OBVIOUS
  <2>1. PICK m \in i..(j - 1) : m = j - (k + 1) /\ m + 1 = j - k /\ k <= j - i /\ m \in i..j
    OBVIOUS
  <2>2. V[m].place \in 0..fn /\ V[m].last \in 0..sn
    BY <1>s, <2>1
  <2>3. up[<<V[m].place, V[m].last>>] = up[<<V[m].place \div 2, V[m].last \div 2>>]
    <3>1. V[m].place # 0 /\ V[m].place % 2 = 0
      BY <1>a, <2>1
    <3> HIDE DEF fn, sn
    <3> QED
      BY <1>d, <2>2, <3>1
  <2>4. up[<<V[m + 1].place, V[m + 1].last>>] = Top
    BY <1>2, <2>1
  <2> QED
    BY <1>s, <2>1, <2>3, <2>4
<1>3. j - i \in S
  <2>1. j - i \in Nat
    OBVIOUS
  <2> HIDE DEF S
  <2> QED
    BY <1>1, <1>2, <2>1, EveryNumber
<1>4. up[<<fn, sn>>] = Top
  <2>1. j - (j - i) = i /\ j - i <= j - i
    OBVIOUS
  <2> QED
    BY <1>3, <2>1
<1> QED
  BY <1>e, <1>4 DEF V

-----------------------------------------------------------------------------
(* One sibling. *)

IsClimber(at) ==
  /\ at = [fn |-> at.fn, sn |-> at.sn, spent |-> at.spent, hash |-> at.hash]
  /\ at.fn \in Nat /\ at.sn \in Nat /\ at.spent \in BOOLEAN

\* The cases of Climb.
LEMMA ClimbCases ==
  ASSUME NEW at, IsClimber(at), NEW sibling
  PROVE  /\ IsClimber(Climb(at, sibling))
         /\ ~Climb(at, sibling).spent <=> ~at.spent /\ at.sn # 0
         /\ ~Climb(at, sibling).spent =>
              /\ at.fn % 2 = 1 \/ at.fn = at.sn =>
                   /\ <<Climb(at, sibling).fn, Climb(at, sibling).sn>> = Ascend(at.fn, at.sn)
                   /\ Climb(at, sibling).hash = HashNode(sibling, at.hash)
              /\ ~(at.fn % 2 = 1 \/ at.fn = at.sn) =>
                   /\ Climb(at, sibling).fn = at.fn \div 2
                   /\ Climb(at, sibling).sn = at.sn \div 2
                   /\ Climb(at, sibling).hash = HashNode(at.hash, sibling)
<1>0. /\ at = [fn |-> at.fn, sn |-> at.sn, spent |-> at.spent, hash |-> at.hash]
      /\ at.fn \in Nat /\ at.sn \in Nat /\ at.spent \in BOOLEAN
  BY DEF IsClimber
<1>1. PICK a \in Nat, b \in Nat : Ascend(at.fn, at.sn) = <<a, b>>
  <2>1. Ascend(at.fn, at.sn) \in Nat \X Nat
    BY <1>0, AscendTyped
  <2> QED
    BY <2>1
<1> DEFINE C == Climb(at, sibling)
<1>2. CASE at.spent \/ at.sn = 0
  <2>1. C = [at EXCEPT !.spent = TRUE]
    BY <1>2 DEF Climb
  <2>2. C = [fn |-> at.fn, sn |-> at.sn, spent |-> TRUE, hash |-> at.hash]
    BY <1>0, <2>1
  <2>3. C.fn = at.fn /\ C.sn = at.sn /\ C.spent = TRUE /\ C.hash = at.hash
    BY <2>2
  <2> HIDE DEF C
  <2>4. IsClimber(C)
    BY <1>0, <2>2, <2>3 DEF IsClimber
  <2> QED
    BY <1>2, <2>3, <2>4 DEF C
<1>3. CASE ~(at.spent \/ at.sn = 0) /\ (at.fn % 2 = 1 \/ at.fn = at.sn)
  <2>2. C = [fn |-> a, sn |-> b, spent |-> FALSE, hash |-> HashNode(sibling, at.hash)]
    BY <1>1, <1>3 DEF Climb
  <2>3. C.fn = a /\ C.sn = b /\ C.spent = FALSE /\ C.hash = HashNode(sibling, at.hash)
    BY <2>2
  <2> HIDE DEF C
  <2>4. IsClimber(C)
    BY <1>1, <2>2, <2>3 DEF IsClimber
  <2> QED
    BY <1>1, <1>3, <2>3, <2>4 DEF C
<1>4. CASE ~(at.spent \/ at.sn = 0) /\ ~(at.fn % 2 = 1 \/ at.fn = at.sn)
  <2>2. C = [fn |-> at.fn \div 2, sn |-> at.sn \div 2, spent |-> FALSE,
             hash |-> HashNode(at.hash, sibling)]
    BY <1>4 DEF Climb
  <2>3. /\ C.fn = at.fn \div 2 /\ C.sn = at.sn \div 2 /\ C.spent = FALSE
        /\ C.hash = HashNode(at.hash, sibling)
    BY <2>2
  <2>4. at.fn \div 2 \in Nat /\ at.sn \div 2 \in Nat
    BY <1>0
  <2> HIDE DEF C
  <2>5. IsClimber(C)
    BY <2>2, <2>3, <2>4 DEF IsClimber
  <2> QED
    BY <1>4, <2>3, <2>5 DEF C
<1> QED
  BY <1>2, <1>3, <1>4

\* The verifier is well typed after each sibling.
LEMMA ClimbersAllTheWay ==
  ASSUME NEW leaf, NEW index \in Nat, NEW size \in Nat, size > 0, NEW path, Len(path) \in Nat
  PROVE  \A i \in 0..Len(path) : IsClimber(Climbed(leaf, index, size, path)[i])
<1> DEFINE C == Climbed(leaf, index, size, path)
           S == {k \in Nat : k <= Len(path) => IsClimber(C[k])}
<1>1. 0 \in S
  <2>1. C[0] = [fn |-> index, sn |-> size - 1, spent |-> FALSE, hash |-> leaf]
    BY ClimbedFirst
  <2> HIDE DEF C
  <2>2. IsClimber(C[0])
    BY <2>1 DEF IsClimber
  <2> QED
    BY <2>2
<1>2. ASSUME NEW k \in Nat, k \in S PROVE k + 1 \in S
  <2> SUFFICES ASSUME k + 1 <= Len(path) PROVE IsClimber(C[k + 1])
    OBVIOUS
  <2>1. k \in 0..(Len(path) - 1) /\ k <= Len(path)
    OBVIOUS
  <2>2. C[k + 1] = Climb(C[k], path[k + 1])
    BY <2>1, ClimbedNext
  <2> HIDE DEF C
  <2>3. IsClimber(C[k])
    BY <1>2, <2>1
  <2> QED
    BY <2>2, <2>3, ClimbCases
<1>3. \A k \in Nat : k \in S
  <2> HIDE DEF S
  <2> QED
    BY <1>1, <1>2, EveryNumber
<1> QED
  BY <1>3

\* A verifier that is not spent never was.
LEMMA NeverSpent ==
  ASSUME NEW leaf, NEW index \in Nat, NEW size \in Nat, size > 0, NEW path, Len(path) \in Nat,
         ~Climbed(leaf, index, size, path)[Len(path)].spent
  PROVE  \A i \in 0..Len(path) : ~Climbed(leaf, index, size, path)[i].spent
<1> DEFINE C == Climbed(leaf, index, size, path)
           S == {k \in Nat : k <= Len(path) => ~C[Len(path) - k].spent}
<1>1. 0 \in S
  <2>1. Len(path) - 0 = Len(path)
    OBVIOUS
  <2> QED
    BY <2>1
<1>2. ASSUME NEW k \in Nat, k \in S PROVE k + 1 \in S
  <2> SUFFICES ASSUME k + 1 <= Len(path) PROVE ~C[Len(path) - (k + 1)].spent
    OBVIOUS
  <2>1. PICK i \in 0..(Len(path) - 1) : /\ i = Len(path) - (k + 1) /\ i + 1 = Len(path) - k
                                        /\ k <= Len(path) /\ i \in 0..Len(path)
    <3>1. /\ Len(path) - (k + 1) \in 0..(Len(path) - 1)
          /\ (Len(path) - (k + 1)) + 1 = Len(path) - k
          /\ k <= Len(path) /\ Len(path) - (k + 1) \in 0..Len(path)
      OBVIOUS
    <3> QED
      BY <3>1
  <2>2. C[i + 1] = Climb(C[i], path[i + 1])
    BY <2>1, ClimbedNext
  <2>3. IsClimber(C[i])
    BY <2>1, ClimbersAllTheWay
  <2> HIDE DEF C
  <2>4. ~C[i + 1].spent
    BY <1>2, <2>1
  <2>5. ~C[i].spent
    BY <2>2, <2>3, <2>4, ClimbCases
  <2> QED
    BY <2>1, <2>5
<1>3. \A k \in Nat : k \in S
  <2> HIDE DEF S
  <2> QED
    BY <1>1, <1>2, EveryNumber
<1>4. ASSUME NEW i \in 0..Len(path) PROVE ~C[i].spent
  <2>1. /\ Len(path) - i \in Nat /\ Len(path) - i <= Len(path)
        /\ Len(path) - (Len(path) - i) = i
    OBVIOUS
  <2> HIDE DEF C
  <2> QED
    BY <1>3, <2>1
<1> QED
  BY <1>4

-----------------------------------------------------------------------------
(* Nothing leads to the root but what is in the tree. *)

NodeHashes(n) == {Roots(Leaves(n))[s] : s \in {t \in Slices(Leaves(n)) : t[2] >= 1}}

\* A node's hash is that of a document of the day, or of two nodes' hashes.
LEMMA NodeHash ==
  ASSUME NEW n \in Nat, NEW h \in NodeHashes(n)
  PROVE  \/ \E i \in 1..n : h = <<0, i>>
         \/ \E x, y \in NodeHashes(n) : h = <<1, x, y>>
<1>1. PICK s \in Slices(Leaves(n)) : s[2] >= 1 /\ h = Roots(Leaves(n))[s]
  BY DEF NodeHashes
<1>2. /\ s[1] \in Nat /\ s[2] \in Nat /\ s[1] + s[2] <= n
      /\ s[2] > 1 => Left(s) \in Slices(Leaves(n)) /\ Right(s) \in Slices(Leaves(n))
  BY LeavesCount, SliceParts
<1>3. h = RootFrom(Leaves(n), Roots(Leaves(n)), s)
  BY <1>1, LeavesCount, RootsDefined
<1>4. CASE s[2] = 1
  <2>1. s[1] + 1 \in 1..n
    BY <1>2, <1>4
  <2>2. h = Leaves(n)[s[1] + 1]
    BY <1>3, <1>4 DEF RootFrom
  <2>3. h = <<0, s[1] + 1>>
    BY <2>1, <2>2, LeavesCount
  <2> QED
    BY <2>1, <2>3
<1>5. CASE s[2] > 1
  <2>1. s[2] # 0 /\ s[2] # 1
    BY <1>2, <1>5
  <2>2. h = HashNode(Roots(Leaves(n))[Left(s)], Roots(Leaves(n))[Right(s)])
    BY <1>3, <2>1 DEF RootFrom
  <2>3. SplitPoint(s[2]) \in 1..(s[2] - 1) /\ s[2] - SplitPoint(s[2]) \in 1..(s[2] - 1)
    BY <1>2, <1>5, SplitPointInside
  <2>4. Left(s)[2] = SplitPoint(s[2]) /\ Right(s)[2] = s[2] - SplitPoint(s[2])
    BY DEF Left, Right
  <2>5. Left(s)[2] >= 1 /\ Right(s)[2] >= 1
    BY <1>2, <2>3, <2>4
  <2>6. /\ Roots(Leaves(n))[Left(s)] \in NodeHashes(n)
        /\ Roots(Leaves(n))[Right(s)] \in NodeHashes(n)
    BY <1>2, <1>5, <2>5 DEF NodeHashes
  <2> QED
    BY <2>2, <2>6 DEF HashNode
<1> QED
  BY <1>1, <1>2, <1>4, <1>5

\* The root is one of them.
LEMMA RootIsNode ==
  ASSUME NEW n \in Nat, n > 0
  PROVE  Root(n) \in NodeHashes(n)
<1>1. <<0, n>> \in Slices(Leaves(n)) /\ <<0, n>>[2] >= 1
  BY LeavesCount DEF Slices
<1>2. Root(n) = Roots(Leaves(n))[<<0, n>>]
  BY LeavesCount DEF Root, MerkleRoot
<1> QED
  BY <1>1, <1>2 DEF NodeHashes

\* And so is every hash of a path.
LEMMA PathsAreOfNodes ==
  ASSUME NEW n \in Nat, NEW index
  PROVE  \A s \in Slices(Leaves(n)) : PathsTo(index, Leaves(n))[s] \in Seq(NodeHashes(n))
<1> DEFINE D == Slices(Leaves(n))
           path == PathsTo(index, Leaves(n))
           N == NodeHashes(n)
           S == {k \in Nat : \A s \in D : s[2] < k => path[s] \in Seq(N)}
<1>d. ASSUME NEW s \in D
      PROVE  /\ s[2] \in Nat /\ s[2] < n + 1
             /\ s[2] > 1 => /\ Left(s) \in D /\ Right(s) \in D
                            /\ Left(s)[2] < s[2] /\ Right(s)[2] < s[2]
                            /\ Left(s)[2] \in Nat /\ Right(s)[2] \in Nat
                            /\ Left(s)[2] >= 1 /\ Right(s)[2] >= 1
  <2>0. Len(Leaves(n)) = n
    BY LeavesCount
  <2>1. /\ s[2] \in Nat /\ s[2] <= n
        /\ s[2] > 1 => /\ Left(s) \in D /\ Right(s) \in D
                       /\ Left(s)[2] < s[2] /\ Right(s)[2] < s[2]
    BY <2>0, SliceParts
  <2>2. ASSUME s[2] > 1
        PROVE  /\ Left(s)[2] \in Nat /\ Right(s)[2] \in Nat
               /\ Left(s)[2] >= 1 /\ Right(s)[2] >= 1
    <3>1. SplitPoint(s[2]) \in 1..(s[2] - 1) /\ s[2] - SplitPoint(s[2]) \in 1..(s[2] - 1)
      BY <2>1, <2>2, SplitPointInside
    <3>2. Left(s)[2] = SplitPoint(s[2]) /\ Right(s)[2] = s[2] - SplitPoint(s[2])
      BY DEF Left, Right
    <3> QED
      BY <2>1, <3>1, <3>2
  <2> QED
    BY <2>1, <2>2
<1>p. \A s \in D : path[s] = PathFrom(index, Leaves(n), path, s)
  BY LeavesCount, PathsDefined
<1>r. \A s \in D : s[2] >= 1 => Roots(Leaves(n))[s] \in N
  BY DEF NodeHashes
<1> HIDE DEF D, path, N
<1>1. 0 \in S
  BY <1>d
<1>2. ASSUME NEW k \in Nat, k \in S PROVE k + 1 \in S
  <2>1. ASSUME NEW s \in D, s[2] < k + 1 PROVE path[s] \in Seq(N)
    <3>1. CASE s[2] <= 1
      <4>1. path[s] = <<>>
        BY <1>p, <3>1 DEF PathFrom
      <4> QED
        BY <4>1
    <3>2. CASE ~(s[2] <= 1)
      <4>1. /\ Left(s) \in D /\ Right(s) \in D
            /\ Left(s)[2] < k /\ Right(s)[2] < k
            /\ Left(s)[2] >= 1 /\ Right(s)[2] >= 1
        BY <1>d, <2>1, <3>2
      <4>2. path[Left(s)] \in Seq(N) /\ path[Right(s)] \in Seq(N)
        BY <1>2, <4>1
      <4>3. Roots(Leaves(n))[Left(s)] \in N /\ Roots(Leaves(n))[Right(s)] \in N
        BY <1>r, <4>1
      <4>4. \/ path[s] = Append(path[Left(s)], Roots(Leaves(n))[Right(s)])
            \/ path[s] = Append(path[Right(s)], Roots(Leaves(n))[Left(s)])
        BY <1>p, <3>2 DEF PathFrom
      <4> QED
        BY <4>2, <4>3, <4>4, AppendProperties
    <3> QED
      BY <3>1, <3>2
  <2> QED
    BY <2>1
<1>3. n + 1 \in S
  <2> HIDE DEF S
  <2> QED
    BY <1>1, <1>2, EveryNumber
<1>4. \A s \in D : path[s] \in Seq(N)
  BY <1>3, <1>d
<1> QED
  BY <1>4 DEF D, path, N

\* Whatever place, size and path come with it, only a leaf or a node of the tree
\* leads to its root: backwards over the path every hash is one of the tree's.
THEOREM OnlyFromTheTree ==
  ASSUME NEW n \in Nat, NEW leaf, NEW index \in Nat, NEW size \in Nat, size > 0,
         NEW path, Len(path) \in Nat,
         ~Climbed(leaf, index, size, path)[Len(path)].spent,
         Climbed(leaf, index, size, path)[Len(path)].hash \in NodeHashes(n)
  PROVE  leaf \in NodeHashes(n)
<1> DEFINE C == Climbed(leaf, index, size, path)
           N == NodeHashes(n)
           S == {k \in Nat : k <= Len(path) => C[Len(path) - k].hash \in N}
<1>a. \A i \in 0..Len(path) : ~C[i].spent /\ IsClimber(C[i])
  <2>1. \A i \in 0..Len(path) : ~C[i].spent
    BY NeverSpent
  <2>2. \A i \in 0..Len(path) : IsClimber(C[i])
    BY ClimbersAllTheWay
  <2> QED
    BY <2>1, <2>2
<1>b. /\ C[0].hash = leaf
      /\ \A i \in 0..(Len(path) - 1) : C[i + 1] = Climb(C[i], path[i + 1])
  <2>1. C[0].hash = leaf
    BY ClimbedStart
  <2>2. ASSUME NEW i \in 0..(Len(path) - 1) PROVE C[i + 1] = Climb(C[i], path[i + 1])
    BY ClimbedNext
  <2> QED
    BY <2>1, <2>2
<1>c. C[Len(path)].hash \in N
  OBVIOUS
<1>n. \A h \in N : \/ \E i \in 1..n : h = <<0, i>>
                   \/ \E x, y \in N : h = <<1, x, y>>
  BY NodeHash
<1> HIDE DEF C, N
<1>1. 0 \in S
  <2>1. Len(path) - 0 = Len(path)
    OBVIOUS
  <2> QED
    BY <1>c, <2>1
<1>2. ASSUME NEW k \in Nat, k \in S PROVE k + 1 \in S
  <2> SUFFICES ASSUME k + 1 <= Len(path) PROVE C[Len(path) - (k + 1)].hash \in N
    OBVIOUS
  <2>1. PICK i \in 0..(Len(path) - 1) : /\ i = Len(path) - (k + 1) /\ i + 1 = Len(path) - k
                                        /\ k <= Len(path)
                                        /\ i \in 0..Len(path) /\ i + 1 \in 0..Len(path)
    <3>1. /\ Len(path) - (k + 1) \in 0..(Len(path) - 1)
          /\ (Len(path) - (k + 1)) + 1 = Len(path) - k
          /\ k <= Len(path) /\ Len(path) - (k + 1) \in 0..Len(path)
          /\ Len(path) - k \in 0..Len(path)
      OBVIOUS
    <3> QED
      BY <3>1
  <2>2. C[i + 1] = Climb(C[i], path[i + 1])
    BY <1>b, <2>1
  <2>3. C[i + 1].hash = HashNode(path[i + 1], C[i].hash) \/ C[i + 1].hash = HashNode(C[i].hash, path[i + 1])
    BY <1>a, <2>1, <2>2, ClimbCases
  <2>4. C[i + 1].hash \in N
    BY <1>2, <2>1
  <2>5. C[i].hash \in N
    <3>1. ASSUME NEW a, NEW b, HashNode(a, b) \in N PROVE a \in N /\ b \in N
      <4>1. HashNode(a, b) = <<1, a, b>>
        BY DEF HashNode
      <4>2. ASSUME NEW j \in 1..n PROVE <<1, a, b>> # <<0, j>>
        OBVIOUS
      <4>3. PICK x \in N, y \in N : <<1, a, b>> = <<1, x, y>>
        BY <1>n, <3>1, <4>1, <4>2
      <4> QED
        BY <4>3
    <3> QED
      BY <2>3, <2>4, <3>1
  <2> QED
    BY <2>1, <2>5
<1>3. Len(path) \in S
  <2> HIDE DEF S
  <2> QED
    BY <1>1, <1>2, EveryNumber
<1>4. C[0].hash \in N
  <2>1. Len(path) - Len(path) = 0
    OBVIOUS
  <2> QED
    BY <1>3, <2>1
<1> QED
  BY <1>4, <1>b DEF N

-----------------------------------------------------------------------------
(* A verifier on a level of the tree, and the next sibling. *)

OnLevel(at, index, size, l) ==
  /\ at.fn = Levels(index, size)[l].place
  /\ at.sn = Levels(index, size)[l].last

\* A place that rises alone as long as it is even comes to an odd one: only the
\* first place of a level would be even for ever.
LEMMA RisesToOdd ==
  ASSUME NEW size \in Nat, NEW index \in 0..(size - 1), NEW i \in 0..size,
         Levels(index, size)[i].place = Levels(index, size)[i].last,
         Levels(index, size)[i].last # 0
  PROVE  \E j \in i..(size - 1) : /\ Levels(index, size)[j].place % 2 = 1
                                  /\ Levels(index, size)[j].place = Levels(index, size)[j].last
                                  /\ Alone(index, size, i, j)
                                  /\ \A k \in i..(j - 1) : Levels(index, size)[k].place # 0
<1> DEFINE V == Levels(index, size)
           J == {k \in i..size : V[k].place % 2 = 1 \/ V[k].place = 0}
<1>1. \A k \in 0..size : /\ V[k].place \in Nat /\ V[k].last \in Nat /\ V[k].place <= V[k].last
  BY LevelNumbers
<1>2. V[size].place = 0
  <2>1. size \in 0..size
    OBVIOUS
  <2> QED
    BY <1>1, <2>1, LastLevel
<1>3. J \in SUBSET Nat /\ J # {}
  <2>1. size \in i..size
    OBVIOUS
  <2>2. size \in J
    BY <1>2, <2>1
  <2> QED
    BY <2>2
<1>4. PICK j \in J : \A k \in J : j <= k
  <2> HIDE DEF J
  <2> QED
    BY <1>3, LeastNumber
<1>5. \A k \in i..(j - 1) : V[k].place # 0 /\ V[k].place % 2 = 0
  <2>1. ASSUME NEW k \in i..(j - 1) PROVE V[k].place # 0 /\ V[k].place % 2 = 0
    <3>1. k \in i..size /\ ~(j <= k) /\ k \in 0..size
      BY <1>4
    <3>2. k \notin J
      <4> HIDE DEF J
      <4> QED
        BY <1>4, <3>1
    <3>3. V[k].place \in Nat /\ V[k].place % 2 # 1 /\ V[k].place # 0
      BY <1>1, <3>1, <3>2
    <3> HIDE DEF V
    <3> QED
      BY <3>3
  <2> QED
    BY <2>1
<1>6. \A k \in i..j : V[k].place = V[k].last
  <2>1. ASSUME NEW k \in i..j PROVE V[k].place = V[k].last
    <3>1. k \in 0..size /\ i <= k
      BY <1>4
    <3> QED
      BY <3>1, PlacesShrink
  <2> QED
    BY <2>1
<1>7. V[j].place # 0
  <2>1. CASE j = i
    BY <2>1
  <2>2. CASE j # i
    <3>1. PICK m \in i..(j - 1) : m + 1 = j /\ m \in 0..(size - 1) /\ m \in 0..size
      <4>1. j - 1 \in i..(j - 1) /\ (j - 1) + 1 = j /\ j - 1 \in 0..(size - 1) /\ j - 1 \in 0..size
        BY <1>4, <2>2
      <4> QED
        BY <4>1
    <3>2. PICK p \in Nat : p = V[m].place /\ p # 0 /\ p % 2 = 0
      BY <1>1, <1>5, <3>1
    <3>3. V[m + 1].place = V[m].place \div 2
      BY <3>1, NextLevel
    <3>4. p \div 2 # 0
      BY <3>2
    <3> QED
      BY <3>1, <3>2, <3>3, <3>4
  <2> QED
    BY <2>1, <2>2
<1>8. V[j].place % 2 = 1
  BY <1>4, <1>7
<1>9. j \in i..(size - 1)
  <2>1. j # size
    BY <1>2, <1>7
  <2> QED
    BY <1>4, <2>1
<1>10. j \in i..j
  BY <1>4
<1>11. Alone(index, size, i, j)
  <2>1. \A k \in i..(j - 1) : k \in i..j
    BY <1>4
  <2> QED
    BY <1>5, <1>6, <2>1 DEF Alone
<1> QED
  BY <1>5, <1>6, <1>8, <1>9, <1>10, <1>11

\* What a sibling does to a verifier on a level: it goes on to the level above
\* the first where the place has a sibling, and puts the two in their order.
LEMMA ClimbsToLevel ==
  ASSUME NEW size \in Nat, NEW index \in 0..(size - 1), NEW i \in 0..size,
         NEW at, IsClimber(at), OnLevel(at, index, size, i), NEW sibling,
         ~Climb(at, sibling).spent
  PROVE  \E j \in i..(size - 1) :
           /\ OnLevel(Climb(at, sibling), index, size, j + 1)
           /\ Alone(index, size, i, j)
           /\ 2 * (Levels(index, size)[j].place \div 2) + 1 <= Levels(index, size)[j].last
           /\ IF Levels(index, size)[j].place % 2 = 1
              THEN Climb(at, sibling).hash = HashNode(sibling, at.hash)
              ELSE Climb(at, sibling).hash = HashNode(at.hash, sibling)
<1> DEFINE V == Levels(index, size)
           C == Climb(at, sibling)
<1>1. PICK p \in Nat, t \in Nat : p = V[i].place /\ t = V[i].last /\ p <= t
  BY LevelNumbers
<1>2. at.fn = p /\ at.sn = t
  BY <1>1 DEF OnLevel
<1>3. t # 0
  BY <1>2, ClimbCases
<1>4. i \in 0..(size - 1) /\ i \in i..(size - 1)
  <2>1. i # size
    BY <1>1, <1>3, LastLevel
  <2> QED
    BY <2>1
<1>5. V[i + 1].place = p \div 2 /\ V[i + 1].last = t \div 2
  BY <1>1, <1>4, NextLevel
<1>6. Alone(index, size, i, i)
  BY <1>4 DEF Alone
<1>7. /\ p % 2 = 0 => p = 2 * (p \div 2)
      /\ p % 2 # 0 => p = 2 * (p \div 2) + 1 /\ p % 2 = 1
  BY Halving
<1>8. CASE p % 2 = 1
  <2>1. <<C.fn, C.sn>> = Ascend(p, t) /\ C.hash = HashNode(sibling, at.hash)
    BY <1>2, <1>8, ClimbCases
  <2>2. Ascend(V[i].place, V[i].last) = <<V[i + 1].place, V[i + 1].last>>
    <3>1. i <= i /\ \A k \in i..(i - 1) : FALSE
      BY <1>4
    <3> QED
      BY <1>1, <1>4, <1>8, <3>1, AscendsThrough
  <2>3. C.fn = V[i + 1].place /\ C.sn = V[i + 1].last
    <3> HIDE DEF C, V
    <3> QED
      BY <1>1, <2>1, <2>2
  <2>4. 2 * (p \div 2) + 1 <= t
    BY <1>1, <1>7, <1>8
  <2>5. OnLevel(C, index, size, i + 1)
    BY <2>3 DEF OnLevel
  <2> HIDE DEF C
  <2>6. /\ OnLevel(C, index, size, i + 1) /\ Alone(index, size, i, i)
        /\ 2 * (V[i].place \div 2) + 1 <= V[i].last
        /\ IF V[i].place % 2 = 1 THEN C.hash = HashNode(sibling, at.hash)
                                 ELSE C.hash = HashNode(at.hash, sibling)
    BY <1>1, <1>6, <1>8, <2>1, <2>4, <2>5
  <2> QED
    BY <1>4, <2>6 DEF C
<1>9. CASE p % 2 # 1 /\ p # t
  <2>1. C.fn = p \div 2 /\ C.sn = t \div 2 /\ C.hash = HashNode(at.hash, sibling)
    BY <1>2, <1>9, ClimbCases
  <2>2. 2 * (p \div 2) + 1 <= t
    BY <1>1, <1>7, <1>9
  <2>3. OnLevel(C, index, size, i + 1)
    BY <1>5, <2>1 DEF OnLevel
  <2> HIDE DEF C
  <2>4. /\ OnLevel(C, index, size, i + 1) /\ Alone(index, size, i, i)
        /\ 2 * (V[i].place \div 2) + 1 <= V[i].last
        /\ IF V[i].place % 2 = 1 THEN C.hash = HashNode(sibling, at.hash)
                                 ELSE C.hash = HashNode(at.hash, sibling)
    BY <1>1, <1>6, <1>9, <2>1, <2>2, <2>3
  <2> QED
    BY <1>4, <2>4 DEF C
<1>10. CASE p % 2 # 1 /\ p = t
  <2>1. <<C.fn, C.sn>> = Ascend(p, t) /\ C.hash = HashNode(sibling, at.hash)
    BY <1>2, <1>10, ClimbCases
  <2>2. PICK j \in i..(size - 1) : /\ V[j].place % 2 = 1 /\ V[j].place = V[j].last
                                   /\ Alone(index, size, i, j)
                                   /\ \A k \in i..(j - 1) : V[k].place # 0
    BY <1>1, <1>3, <1>10, RisesToOdd
  <2>3. j \in 0..(size - 1) /\ j \in 0..size /\ i <= j
    OBVIOUS
  <2>4. Ascend(V[i].place, V[i].last) = <<V[j + 1].place, V[j + 1].last>>
    <3>1. \A k \in i..(j - 1) : V[k].place % 2 = 0 /\ V[k].place # 0
      BY <2>2 DEF Alone
    <3> QED
      BY <2>2, <2>3, <3>1, AscendsThrough
  <2>5. C.fn = V[j + 1].place /\ C.sn = V[j + 1].last
    <3> HIDE DEF C, V
    <3> QED
      BY <1>1, <2>1, <2>4
  <2>6. 2 * (V[j].place \div 2) + 1 <= V[j].last
    <3>1. PICK a \in Nat : a = V[j].place
      BY <2>3, LevelNumbers
    <3>2. 2 * (a \div 2) + 1 <= a
      BY <2>2, <3>1
    <3> QED
      BY <2>2, <3>1, <3>2
  <2>7. OnLevel(C, index, size, j + 1)
    BY <2>5 DEF OnLevel
  <2> HIDE DEF C
  <2>8. /\ OnLevel(C, index, size, j + 1) /\ Alone(index, size, i, j)
        /\ 2 * (V[j].place \div 2) + 1 <= V[j].last
        /\ IF V[j].place % 2 = 1 THEN C.hash = HashNode(sibling, at.hash)
                                 ELSE C.hash = HashNode(at.hash, sibling)
    BY <2>1, <2>2, <2>6, <2>7
  <2> QED
    BY <2>8 DEF C
<1> QED
  BY <1>8, <1>9, <1>10

\* With the true size, and whatever path comes with it, only the leaf at the
\* index leads to the root.
THEOREM OnlyFromItsPlace ==
  ASSUME NEW size \in Nat, NEW index \in 0..(size - 1), NEW leaf, NEW path, Len(path) \in Nat,
         ~Climbed(leaf, index, size, path)[Len(path)].spent,
         Climbed(leaf, index, size, path)[Len(path)].sn = 0,
         Climbed(leaf, index, size, path)[Len(path)].hash = Root(size)
  PROVE  leaf = <<0, index + 1>>
<1> DEFINE V == Levels(index, size)
           C == Climbed(leaf, index, size, path)
           H(l) == HashAt(index, size, l, V[l].place)
           F == {k \in Nat : k <= Len(path) => \E l \in 0..size : OnLevel(C[k], index, size, l)}
           B == {k \in Nat : k <= Len(path) =>
                   \A l \in 0..size :
                     OnLevel(C[Len(path) - k], index, size, l) => C[Len(path) - k].hash = H(l)}
<1>0. index \in Nat /\ size > 0 /\ 0 \in 0..size
  OBVIOUS
<1>a. \A i \in 0..Len(path) : ~C[i].spent /\ IsClimber(C[i])
  <2>1. \A i \in 0..Len(path) : ~C[i].spent
    BY <1>0, NeverSpent
  <2>2. \A i \in 0..Len(path) : IsClimber(C[i])
    BY <1>0, ClimbersAllTheWay
  <2> QED
    BY <2>1, <2>2
<1>b. C[0].fn = index /\ C[0].sn = size - 1 /\ C[0].hash = leaf
  BY ClimbedStart
<1>c. ASSUME NEW i \in 0..(Len(path) - 1) PROVE C[i + 1] = Climb(C[i], path[i + 1])
  BY ClimbedNext
<1>d. C[Len(path)].sn = 0 /\ C[Len(path)].hash = Root(size)
  OBVIOUS
<1>e. OnLevel(C[0], index, size, 0)
  BY <1>b, FirstLevel DEF OnLevel
<1>s. ASSUME NEW i \in 0..(Len(path) - 1), NEW l \in 0..size, OnLevel(C[i], index, size, l)
      PROVE  \E j \in l..(size - 1) :
               /\ OnLevel(C[i + 1], index, size, j + 1)
               /\ Alone(index, size, l, j)
               /\ 2 * (V[j].place \div 2) + 1 <= V[j].last
               /\ IF V[j].place % 2 = 1 THEN C[i + 1].hash = HashNode(path[i + 1], C[i].hash)
                                        ELSE C[i + 1].hash = HashNode(C[i].hash, path[i + 1])
  <2>1. i \in 0..Len(path) /\ i + 1 \in 0..Len(path)
    OBVIOUS
  <2>2. IsClimber(C[i]) /\ ~C[i + 1].spent /\ C[i + 1] = Climb(C[i], path[i + 1])
    BY <1>a, <1>c, <2>1
  <2> HIDE DEF C
  <2>3. ~Climb(C[i], path[i + 1]).spent
    BY <2>2
  <2> QED
    BY <1>s, <2>2, <2>3, ClimbsToLevel
<1> HIDE DEF C
<1>1. \A k \in Nat : k \in F
  <2>1. 0 \in F
    BY <1>0, <1>e
  <2>2. ASSUME NEW k \in Nat, k \in F PROVE k + 1 \in F
    <3> SUFFICES ASSUME k + 1 <= Len(path)
                 PROVE  \E l \in 0..size : OnLevel(C[k + 1], index, size, l)
      OBVIOUS
    <3>1. k \in 0..(Len(path) - 1) /\ k <= Len(path)
      OBVIOUS
    <3>2. PICK l \in 0..size : OnLevel(C[k], index, size, l)
      BY <2>2, <3>1
    <3>3. PICK j \in l..(size - 1) : OnLevel(C[k + 1], index, size, j + 1)
      BY <1>s, <3>1, <3>2
    <3>4. j + 1 \in 0..size
      OBVIOUS
    <3> QED
      BY <3>3, <3>4
  <2> HIDE DEF F
  <2> QED
    BY <2>1, <2>2, EveryNumber
<1>2. 0 \in B
  <2> SUFFICES ASSUME NEW l \in 0..size, OnLevel(C[Len(path) - 0], index, size, l)
               PROVE  C[Len(path) - 0].hash = H(l)
    OBVIOUS
  <2>1. Len(path) - 0 = Len(path)
    OBVIOUS
  <2>2. V[l].last = 0
    BY <1>d, <2>1 DEF OnLevel
  <2>3. V[l].place = 0 /\ HashAt(index, size, l, 0) = Root(size)
    BY <2>2, AtTheTop
  <2> QED
    BY <1>d, <2>1, <2>3
<1>3. ASSUME NEW k \in Nat, k \in B PROVE k + 1 \in B
  <2> SUFFICES ASSUME k + 1 <= Len(path),
                      NEW l \in 0..size, OnLevel(C[Len(path) - (k + 1)], index, size, l)
               PROVE  C[Len(path) - (k + 1)].hash = H(l)
    OBVIOUS
  <2>1. PICK i \in 0..(Len(path) - 1) : /\ i = Len(path) - (k + 1) /\ i + 1 = Len(path) - k
                                        /\ k <= Len(path)
    <3>1. /\ Len(path) - (k + 1) \in 0..(Len(path) - 1)
          /\ (Len(path) - (k + 1)) + 1 = Len(path) - k
          /\ k <= Len(path)
      OBVIOUS
    <3> QED
      BY <3>1
  <2>2. PICK j \in l..(size - 1) :
          /\ OnLevel(C[i + 1], index, size, j + 1)
          /\ Alone(index, size, l, j)
          /\ 2 * (V[j].place \div 2) + 1 <= V[j].last
          /\ IF V[j].place % 2 = 1 THEN C[i + 1].hash = HashNode(path[i + 1], C[i].hash)
                                   ELSE C[i + 1].hash = HashNode(C[i].hash, path[i + 1])
    BY <1>s, <2>1
  <2>3. j \in 0..(size - 1) /\ j \in 0..size /\ j + 1 \in 0..size /\ l <= j
    OBVIOUS
  <2>4. PICK p \in Nat, q \in Nat : /\ p = V[j].place /\ q = p \div 2
                                    /\ p % 2 = 0 => p = 2 * q
                                    /\ p % 2 # 0 => p = 2 * q + 1 /\ p % 2 = 1
    <3>1. V[j].place \in Nat
      BY <2>3, LevelNumbers
    <3> HIDE DEF V
    <3> QED
      BY <3>1, Halving
  <2>5. V[j + 1].place = q
    <3>1. V[j + 1].place = V[j].place \div 2
      BY <2>3, NextLevel
    <3> QED
      BY <2>4, <3>1
  <2>6. C[i + 1].hash = H(j + 1)
    BY <1>3, <2>1, <2>2, <2>3
  <2>7. H(j + 1) = HashNode(HashAt(index, size, j, 2 * q), HashAt(index, size, j, 2 * q + 1))
    <3>1. HashAt(index, size, j + 1, q)
            = HashNode(HashAt(index, size, j, 2 * q), HashAt(index, size, j, 2 * q + 1))
      <4>1. 2 * q + 1 <= Levels(index, size)[j].last
        BY <2>2, <2>4
      <4> QED
        BY <2>3, <4>1, HashesPair
    <3> QED
      BY <2>5, <3>1
  <2>8. C[i].hash = HashAt(index, size, j, p)
    <3>1. CASE p % 2 = 1
      <4>1. HashNode(path[i + 1], C[i].hash)
              = HashNode(HashAt(index, size, j, 2 * q), HashAt(index, size, j, 2 * q + 1))
        BY <2>2, <2>4, <2>6, <2>7, <3>1
      <4>2. C[i].hash = HashAt(index, size, j, 2 * q + 1)
        BY <4>1 DEF HashNode
      <4>3. p = 2 * q + 1
        <5>1. p % 2 # 0
          BY <3>1
        <5> QED
          BY <2>4, <5>1
      <4> HIDE DEF C
      <4> QED
        BY <4>2, <4>3
    <3>2. CASE p % 2 = 0
      <4>1. HashNode(C[i].hash, path[i + 1])
              = HashNode(HashAt(index, size, j, 2 * q), HashAt(index, size, j, 2 * q + 1))
        BY <2>2, <2>4, <2>6, <2>7, <3>2
      <4>2. C[i].hash = HashAt(index, size, j, 2 * q)
        BY <4>1 DEF HashNode
      <4> QED
        BY <2>4, <3>2, <4>2
    <3> QED
      BY <2>4, <3>1, <3>2
  <2>9. H(j) = H(l)
    <3>1. Alone(index, size, l, j) /\ l <= j /\ j \in 0..size
      BY <2>2, <2>3
    <3> QED
      BY ONLY <3>1, size \in Nat, index \in 0..(size - 1), l \in 0..size, AloneKeepsHash
  <2> QED
    BY <2>1, <2>4, <2>8, <2>9
<1>4. Len(path) \in B
  <2> HIDE DEF B
  <2> QED
    BY <1>2, <1>3, EveryNumber
<1>5. C[0].hash = H(0)
  <2>1. Len(path) - Len(path) = 0 /\ Len(path) <= Len(path)
    OBVIOUS
  <2> HIDE DEF H
  <2> QED
    BY <1>0, <1>4, <1>e, <2>1
<1>6. H(0) = <<0, index + 1>>
  <2>1. V[0].place = index
    BY FirstLevel
  <2>2. HashAt(index, size, 0, index) = <<0, index + 1>>
    BY HashOfLeaf
  <2> QED
    BY <2>1, <2>2
<1> QED
  BY <1>b, <1>5, <1>6

-----------------------------------------------------------------------------
(* The proof of a leaf leads to the root. *)

\* The path to a level is a sequence of nodes' hashes.
LEMMA PathAtIsPath ==
  ASSUME NEW size \in Nat, NEW index \in 0..(size - 1), NEW l \in 0..size
  PROVE  PathAt(index, size, l) \in Seq(NodeHashes(size))
<1>1. PICK w \in Nat, p \in Nat : /\ w = Levels(index, size)[l].width /\ w > 0
                                  /\ p = Levels(index, size)[l].place /\ p * w <= index
  BY LevelNumbers
<1>2. p * w <= size - 1
  <2>1. PICK x \in Nat : x = p * w
    BY Times
  <2> QED
    BY <1>1, <2>1
<1>3. Part(size, p, w) \in Slices(Leaves(size))
  BY <1>1, <1>2, LeavesCount, PartIsSlice
<1> QED
  BY <1>1, <1>3, PathsAreOfNodes DEF PathAt

\* The path to a level is a beginning of the whole path.
Begins(s, t) == Len(s) <= Len(t) /\ \A k \in 1..Len(s) : t[k] = s[k]

\* Every level's path is the beginning of the proof.
LEMMA PathsBegin ==
  ASSUME NEW size \in Nat, NEW index \in 0..(size - 1)
  PROVE  \A l \in 0..size : Begins(PathAt(index, size, l), InclusionPath(index, Leaves(size)))
<1> DEFINE path == InclusionPath(index, Leaves(size))
           P(l) == PathAt(index, size, l)
           N == NodeHashes(size)
           S == {k \in Nat : k <= size => Begins(P(size - k), path)}
<1>a. \A l \in 0..size : P(l) \in Seq(N)
  BY PathAtIsPath
<1>b. P(size) = path
  <2>1. size \in 0..size
    OBVIOUS
  <2> QED
    BY <2>1, LastLevel, AtTheTop
<1>c. ASSUME NEW l \in 0..(size - 1)
      PROVE  P(l + 1) = P(l) \/ \E x \in N : P(l + 1) = Append(P(l), x)
  <2>l. l \in 0..size /\ l + 1 \in 0..size
    OBVIOUS
  <2>1. PICK p \in Nat : p = Levels(index, size)[l].place
    BY <2>l, LevelNumbers
  <2>2. CASE 2 * (p \div 2) + 1 <= Levels(index, size)[l].last
    <3>1. PICK x : P(l + 1) = Append(P(l), x)
      BY <2>1, <2>2, PathGrows
    <3>2. P(l) \in Seq(N) /\ Append(P(l), x) \in Seq(N)
      BY <1>a, <2>l, <3>1
    <3> HIDE DEF P, N
    <3>3. x \in N
      <4>1. Len(Append(P(l), x)) = Len(P(l)) + 1 /\ Append(P(l), x)[Len(P(l)) + 1] = x
            /\ Len(P(l)) \in Nat
        BY <3>2
      <4>2. Len(P(l)) + 1 \in 1..Len(Append(P(l), x))
        BY <4>1
      <4> QED
        BY <3>2, <4>1, <4>2, ElementOfSeq
    <3> QED
      BY <3>1, <3>3
  <2>3. CASE ~(2 * (p \div 2) + 1 <= Levels(index, size)[l].last)
    BY <2>1, <2>3, PathWaits
  <2> QED
    BY <2>2, <2>3
<1> HIDE DEF P, N, path
<1>1. 0 \in S
  <2>1. size - 0 = size
    OBVIOUS
  <2>2. path \in Seq(N)
    <3>1. size \in 0..size
      OBVIOUS
    <3> QED
      BY <1>a, <1>b, <3>1
  <2>3. Begins(path, path)
    BY <2>2 DEF Begins
  <2> QED
    BY <1>b, <2>1, <2>3
<1>2. ASSUME NEW k \in Nat, k \in S PROVE k + 1 \in S
  <2> SUFFICES ASSUME k + 1 <= size PROVE Begins(P(size - (k + 1)), path)
    OBVIOUS
  <2>1. PICK l \in 0..(size - 1) : /\ l = size - (k + 1) /\ l + 1 = size - k /\ k <= size
                                   /\ l \in 0..size
    <3>1. /\ size - (k + 1) \in 0..(size - 1) /\ (size - (k + 1)) + 1 = size - k /\ k <= size
          /\ size - (k + 1) \in 0..size
      OBVIOUS
    <3> QED
      BY <3>1
  <2>2. Begins(P(l + 1), path)
    BY <1>2, <2>1
  <2>3. CASE P(l + 1) = P(l)
    BY <2>1, <2>2, <2>3
  <2>4. CASE \E x \in N : P(l + 1) = Append(P(l), x)
    <3>1. PICK x \in N : P(l + 1) = Append(P(l), x)
      BY <2>4
    <3>2. P(l) \in Seq(N)
      BY <1>a, <2>1
    <3>3. /\ Len(P(l)) \in Nat /\ Len(P(l + 1)) = Len(P(l)) + 1
          /\ \A m \in 1..Len(P(l)) : P(l + 1)[m] = P(l)[m]
      BY <3>1, <3>2, AppendProperties
    <3>4. Len(P(l + 1)) <= Len(path) /\ \A m \in 1..Len(P(l + 1)) : path[m] = P(l + 1)[m]
      BY <2>2 DEF Begins
    <3>5. path \in Seq(N) /\ Len(path) \in Nat
      <4>1. size \in 0..size
        OBVIOUS
      <4>2. path \in Seq(N)
        BY <1>a, <1>b, <4>1
      <4> QED
        BY <4>2
    <3>6. Len(P(l)) <= Len(path) /\ \A m \in 1..Len(P(l)) : m \in 1..Len(P(l + 1))
      BY <3>3, <3>4, <3>5
    <3>7. Begins(P(l), path)
      BY <3>3, <3>4, <3>6 DEF Begins
    <3> QED
      BY <2>1, <3>7
  <2> QED
    BY <1>c, <2>3, <2>4
<1>3. \A k \in Nat : k \in S
  <2> HIDE DEF S
  <2> QED
    BY <1>1, <1>2, EveryNumber
<1>4. ASSUME NEW l \in 0..size PROVE Begins(P(l), path)
  <2>1. size - l \in Nat /\ size - l <= size /\ size - (size - l) = l
    OBVIOUS
  <2> QED
    BY <1>3, <2>1
<1> QED
  BY <1>4 DEF P, path

\* After the siblings below level l the verifier has the hash of the node there.
\* It may still be on a lower level from which the place rose alone: it goes up
\* only with the next sibling.
Reached(at, index, size, l) ==
  /\ ~at.spent
  /\ at.hash = HashAt(index, size, l, Levels(index, size)[l].place)
  /\ \E i \in 0..l : OnLevel(at, index, size, i) /\ Alone(index, size, i, l)

\* Where there is a sibling, Climb takes the verifier to the next level.
LEMMA ReachesNext ==
  ASSUME NEW size \in Nat, NEW index \in 0..(size - 1), NEW l \in 0..(size - 1),
         NEW at, IsClimber(at), Reached(at, index, size, l),
         NEW p, p = Levels(index, size)[l].place,
         2 * (p \div 2) + 1 <= Levels(index, size)[l].last
  PROVE  Reached(Climb(at, IF p % 2 = 0 THEN HashAt(index, size, l, 2 * (p \div 2) + 1)
                                        ELSE HashAt(index, size, l, 2 * (p \div 2))),
                 index, size, l + 1)
<1> DEFINE V == Levels(index, size)
           sibling == IF p % 2 = 0 THEN HashAt(index, size, l, 2 * (p \div 2) + 1)
                                   ELSE HashAt(index, size, l, 2 * (p \div 2))
           C == Climb(at, sibling)
<1>l. l \in 0..size /\ l + 1 \in 0..size /\ l + 1 \in 0..(l + 1)
  OBVIOUS
<1>1. PICK t \in Nat : t = V[l].last /\ p \in Nat /\ p <= t
  BY <1>l, LevelNumbers
<1>2. PICK q \in Nat : /\ q = p \div 2
                       /\ p % 2 = 0 => p = 2 * q
                       /\ p % 2 # 0 => p = 2 * q + 1 /\ p % 2 = 1
  BY <1>1, Halving
<1>3. 2 * q + 1 <= t
  BY <1>1, <1>2
<1>4. PICK i \in 0..l : OnLevel(at, index, size, i) /\ Alone(index, size, i, l)
  BY DEF Reached
<1>i. i \in 0..size /\ i <= l
  BY <1>l
<1>5. PICK fn \in Nat, sn \in Nat : /\ fn = V[i].place /\ sn = V[i].last
                                    /\ p <= fn /\ t <= sn
                                    /\ fn = sn => p = t
  <2>1. V[i].place \in Nat /\ V[i].last \in Nat
    BY <1>i, LevelNumbers
  <2>2. /\ V[l].place <= V[i].place /\ V[l].last <= V[i].last
        /\ V[i].place = V[i].last => V[l].place = V[l].last
    BY <1>i, <1>l, PlacesShrink
  <2>3. p = V[l].place
    OBVIOUS
  <2> HIDE DEF V
  <2> QED
    BY <1>1, <2>1, <2>2, <2>3
<1>6. at.fn = fn /\ at.sn = sn
  BY <1>4, <1>5 DEF OnLevel
<1>7. sn # 0
  BY <1>3, <1>5
<1>8. ~C.spent
  <2>1. ~at.spent
    BY DEF Reached
  <2> HIDE DEF sibling
  <2> QED
    BY <1>6, <1>7, <2>1, ClimbCases
<1>9. V[l + 1].place = q /\ V[l + 1].last = t \div 2
  BY <1>1, <1>2, NextLevel
<1>10. HashAt(index, size, l + 1, q)
         = HashNode(HashAt(index, size, l, 2 * q), HashAt(index, size, l, 2 * q + 1))
  BY <1>1, <1>3, HashesPair
<1>11. at.hash = HashAt(index, size, l, p)
  BY DEF Reached
<1>12. Alone(index, size, l + 1, l + 1)
  <2>1. \A k \in (l + 1)..((l + 1) - 1) : FALSE
    OBVIOUS
  <2> QED
    BY <2>1 DEF Alone
<1>13. CASE p % 2 = 0
  <2>1. p = 2 * q /\ p # t
    BY <1>1, <1>2, <1>3, <1>13
  <2>2. i = l
    <3>1. ASSUME i # l PROVE FALSE
      <4>1. i \in i..(l - 1)
        BY <1>i, <3>1
      <4>2. fn = sn
        BY <1>4, <1>5, <4>1 DEF Alone
      <4> QED
        BY <1>5, <2>1, <4>2
    <3> QED
      BY <3>1
  <2>3. fn = p /\ sn = t
    BY <1>1, <1>5, <2>2
  <2>4. ~(at.fn % 2 = 1 \/ at.fn = at.sn)
    BY <1>6, <1>13, <2>1, <2>3
  <2>5. C.fn = p \div 2 /\ C.sn = t \div 2 /\ C.hash = HashNode(at.hash, sibling)
    <3> HIDE DEF sibling
    <3> QED
      BY <1>6, <1>8, <2>3, <2>4, ClimbCases
  <2>6. sibling = HashAt(index, size, l, 2 * q + 1)
    BY <1>2, <1>13
  <2> HIDE DEF C, sibling
  <2>7. C.hash = HashAt(index, size, l + 1, q)
    BY <1>10, <1>11, <2>1, <2>5, <2>6
  <2>8. OnLevel(C, index, size, l + 1)
    BY <1>2, <1>9, <2>5 DEF OnLevel
  <2>9. Reached(C, index, size, l + 1)
    BY <1>8, <1>9, <1>12, <1>l, <2>7, <2>8 DEF Reached
  <2> QED
    BY <2>9 DEF C, sibling
<1>14. CASE p % 2 # 0
  <2>1. p = 2 * q + 1 /\ p % 2 = 1
    BY <1>2, <1>14
  <2>2. at.fn % 2 = 1 \/ at.fn = at.sn
    <3>1. CASE i = l
      BY <1>1, <1>5, <1>6, <2>1, <3>1
    <3>2. CASE i # l
      <4>1. i \in i..(l - 1)
        BY <1>i, <3>2
      <4>2. fn = sn
        BY <1>4, <1>5, <4>1 DEF Alone
      <4> QED
        BY <1>6, <4>2
    <3> QED
      BY <3>1, <3>2
  <2>3. <<C.fn, C.sn>> = Ascend(fn, sn) /\ C.hash = HashNode(sibling, at.hash)
    <3> HIDE DEF sibling
    <3> QED
      BY <1>6, <1>8, <2>2, ClimbCases
  <2>4. Ascend(V[i].place, V[i].last) = <<V[l + 1].place, V[l + 1].last>>
    <3>1. ASSUME NEW k \in i..(l - 1) PROVE V[k].place % 2 = 0 /\ V[k].place # 0
      <4>1. V[k].place % 2 = 0
        BY <1>4, <3>1 DEF Alone
      <4>2. k \in 0..size /\ k <= l
        BY <1>i, <1>l
      <4>3. V[l].place <= V[k].place /\ V[k].place \in Nat
        BY <1>l, <4>2, LevelNumbers, PlacesShrink
      <4>4. p >= 1
        BY <2>1
      <4> QED
        BY <1>1, <4>1, <4>3, <4>4
    <3>2. V[l].place % 2 = 1
      BY <2>1
    <3> QED
      BY <1>i, <3>1, <3>2, AscendsThrough
  <2>5. C.fn = q /\ C.sn = t \div 2
    <3> HIDE DEF C, V
    <3> QED
      BY <1>5, <1>9, <2>3, <2>4
  <2>6. sibling = HashAt(index, size, l, 2 * q)
    BY <1>2, <1>14
  <2> HIDE DEF C, sibling
  <2>7. C.hash = HashAt(index, size, l + 1, q)
    BY <1>10, <1>11, <2>1, <2>3, <2>6
  <2>8. OnLevel(C, index, size, l + 1)
    BY <1>2, <1>9, <2>5 DEF OnLevel
  <2>9. Reached(C, index, size, l + 1)
    BY <1>8, <1>9, <1>12, <1>l, <2>7, <2>8 DEF Reached
  <2> QED
    BY <2>9 DEF C, sibling
<1> QED
  BY <1>13, <1>14

\* Where there is none, the verifier has the hash of the next level already.
LEMMA StaysReached ==
  ASSUME NEW size \in Nat, NEW index \in 0..(size - 1), NEW l \in 0..(size - 1),
         NEW at, Reached(at, index, size, l),
         NEW p, p = Levels(index, size)[l].place,
         ~(2 * (p \div 2) + 1 <= Levels(index, size)[l].last)
  PROVE  Reached(at, index, size, l + 1)
<1> DEFINE V == Levels(index, size)
<1>1. p \in Nat /\ p = 2 * (p \div 2) /\ p % 2 = 0 /\ p = V[l].last
  <2>1. l \in 0..size
    OBVIOUS
  <2>2. p \in Nat
    BY <2>1, LevelNumbers
  <2>3. p = 2 * (p \div 2) /\ p % 2 = 0 /\ p = Levels(index, size)[l].last
    <3>1. PICK t \in Nat : t = Levels(index, size)[l].last
      BY <2>1, LevelNumbers
    <3>2. p <= t
      BY <2>1, <3>1, LevelNumbers
    <3>3. PICK q \in Nat : /\ q = p \div 2
                           /\ p % 2 = 0 => p = 2 * q
                           /\ p % 2 # 0 => p = 2 * q + 1
      BY <2>2, Halving
    <3>4. ~(2 * q + 1 <= t)
      BY <3>1, <3>3
    <3>5. p = 2 * q /\ p = t /\ p % 2 = 0
      BY ONLY <2>2, <3>2, <3>3, <3>4, q \in Nat, t \in Nat
    <3> QED
      BY ONLY <3>1, <3>3, <3>5
  <2> QED
    BY <2>2, <2>3
<1>2. V[l + 1].place = p \div 2
  BY NextLevel
<1>3. p \div 2 \in Nat
  BY <1>1
<1>4. HashAt(index, size, l + 1, p \div 2) = HashAt(index, size, l, p)
  BY <1>1, <1>3, HashesRise
<1>5. at.hash = HashAt(index, size, l + 1, V[l + 1].place)
  BY <1>2, <1>4 DEF Reached
<1>6. PICK i \in 0..l : OnLevel(at, index, size, i) /\ Alone(index, size, i, l)
  BY DEF Reached
<1>7. Alone(index, size, i, l + 1)
  <2>1. ASSUME NEW k \in i..((l + 1) - 1) PROVE V[k].place = V[k].last /\ V[k].place % 2 = 0
    <3>1. CASE k = l
      BY <1>1, <3>1
    <3>2. CASE k # l
      <4>1. k \in i..(l - 1)
        BY <3>2
      <4> QED
        BY <1>6, <4>1 DEF Alone
    <3> QED
      BY <3>1, <3>2
  <2> QED
    BY <2>1 DEF Alone
<1>8. i \in 0..(l + 1)
  OBVIOUS
<1> QED
  BY <1>5, <1>6, <1>7, <1>8 DEF Reached

\* In a tree of every size, for every index, proveInclusion's path leads from the
\* leaf to the root: prover and verifier count the same levels.
THEOREM LeadsToRoot ==
  ASSUME NEW size \in Nat, NEW index \in 0..(size - 1)
  PROVE  VerifyInclusion(<<0, index + 1>>, index, size, InclusionPath(index, Leaves(size)),
                         Root(size))
<1> DEFINE V == Levels(index, size)
           path == InclusionPath(index, Leaves(size))
           P(l) == PathAt(index, size, l)
           C == Climbed(<<0, index + 1>>, index, size, path)
           S == {l \in Nat : l <= size => Reached(C[Len(P(l))], index, size, l)}
<1>0. index \in Nat /\ size > 0 /\ size \in 0..size /\ 0 \in 0..size
  OBVIOUS
<1>a. \A l \in 0..size : P(l) \in Seq(NodeHashes(size)) /\ Len(P(l)) \in Nat
  <2>1. \A l \in 0..size : P(l) \in Seq(NodeHashes(size))
    BY PathAtIsPath
  <2> HIDE DEF P
  <2> QED
    BY <2>1
<1>b. P(size) = path
  BY <1>0, LastLevel, AtTheTop
<1>c. Len(path) \in Nat
  BY <1>0, <1>a, <1>b
<1>d. \A l \in 0..size : Begins(P(l), path)
  BY PathsBegin
<1> HIDE DEF path
<1>e. \A i \in 0..Len(path) : IsClimber(C[i])
  BY <1>0, <1>c, ClimbersAllTheWay
<1>f. ASSUME NEW i \in 0..(Len(path) - 1) PROVE C[i + 1] = Climb(C[i], path[i + 1])
  BY <1>c, ClimbedNext
<1>1. 0 \in S
  <2>1. P(0) = <<>> /\ Len(P(0)) = 0
    BY HashOfLeaf
  <2>3. /\ C[0].fn = index /\ C[0].sn = size - 1 /\ ~C[0].spent
        /\ C[0].hash = <<0, index + 1>>
    BY ONLY <1>c, ClimbedStart
  <2> HIDE DEF C, P
  <2>4. OnLevel(C[0], index, size, 0)
    BY <2>3, FirstLevel DEF OnLevel
  <2>5. C[0].hash = HashAt(index, size, 0, V[0].place)
    BY <2>3, FirstLevel, HashOfLeaf
  <2>6. Alone(index, size, 0, 0)
    BY DEF Alone
  <2>7. 0 \in 0..0
    OBVIOUS
  <2>8. Reached(C[0], index, size, 0)
    BY <2>3, <2>4, <2>5, <2>6, <2>7 DEF Reached
  <2> QED
    BY <2>1, <2>8
<1>2. ASSUME NEW l \in Nat, l \in S PROVE l + 1 \in S
  <2> SUFFICES ASSUME l + 1 <= size PROVE Reached(C[Len(P(l + 1))], index, size, l + 1)
    OBVIOUS
  <2>1. l \in 0..(size - 1) /\ l \in 0..size /\ l + 1 \in 0..size /\ l <= size
    OBVIOUS
  <2>2. Reached(C[Len(P(l))], index, size, l)
    BY <1>2, <2>1
  <2>3. PICK c \in Nat : c = Len(P(l))
    BY <1>a, <2>1
  <2>4. PICK p : p = V[l].place
    OBVIOUS
  <2>5. CASE 2 * (p \div 2) + 1 <= V[l].last
    <3> DEFINE sibling == IF p % 2 = 0 THEN HashAt(index, size, l, 2 * (p \div 2) + 1)
                                       ELSE HashAt(index, size, l, 2 * (p \div 2))
    <3>1. P(l + 1) = Append(P(l), sibling)
      BY <2>1, <2>4, <2>5, PathGrows
    <3>2. P(l) \in Seq(NodeHashes(size)) /\ P(l + 1) \in Seq(NodeHashes(size))
      BY <1>a, <2>1
    <3> HIDE DEF sibling, P
    <3>3. Len(P(l + 1)) = c + 1 /\ P(l + 1)[c + 1] = sibling
      BY <2>3, <3>1, <3>2
    <3>4. c + 1 <= Len(path) /\ path[c + 1] = sibling
      <4>1. Begins(P(l + 1), path)
        BY <1>d, <2>1
      <4>2. c + 1 \in 1..Len(P(l + 1))
        BY <3>3
      <4> QED
        BY <3>3, <4>1, <4>2 DEF Begins
    <3>5. c \in 0..(Len(path) - 1) /\ c \in 0..Len(path)
      BY <1>c, <3>4
    <3>6. C[c + 1] = Climb(C[c], sibling)
      BY <1>f, <3>4, <3>5
    <3>7. IsClimber(C[c]) /\ Reached(C[c], index, size, l)
      BY <1>e, <2>2, <2>3, <3>5
    <3>8. Reached(Climb(C[c], sibling), index, size, l + 1)
      BY <2>1, <2>4, <2>5, <3>7, ReachesNext DEF sibling
    <3> QED
      BY <3>3, <3>6, <3>8
  <2>6. CASE ~(2 * (p \div 2) + 1 <= V[l].last)
    <3>1. P(l + 1) = P(l)
      BY <2>1, <2>4, <2>6, PathWaits
    <3>2. Reached(C[Len(P(l))], index, size, l + 1)
      BY <2>1, <2>2, <2>4, <2>6, StaysReached
    <3> QED
      BY <3>1, <3>2
  <2> QED
    BY <2>5, <2>6
<1>3. size \in S
  <2> HIDE DEF S
  <2> QED
    BY <1>1, <1>2, EveryNumber
<1>4. Reached(C[Len(path)], index, size, size)
  BY <1>3, <1>b
<1>5. C[Len(path)].hash = Root(size) /\ ~C[Len(path)].spent
  <2>1. V[size].place = 0 /\ HashAt(index, size, size, 0) = Root(size)
    BY <1>0, LastLevel, AtTheTop
  <2> QED
    BY <1>4, <2>1 DEF Reached
<1>6. C[Len(path)].sn = 0
  <2>1. PICK i \in 0..size : OnLevel(C[Len(path)], index, size, i) /\ Alone(index, size, i, size)
    BY <1>4 DEF Reached
  <2>2. V[i].last = 0
    <3> SUFFICES ASSUME V[i].last # 0 PROVE FALSE
      OBVIOUS
    <3>1. i # size
      BY LastLevel
    <3>2. i \in i..(size - 1)
      BY <3>1
    <3>3. V[i].place = V[i].last
      BY <2>1, <3>2 DEF Alone
    <3>4. PICK j \in i..(size - 1) : V[j].place % 2 = 1
      BY <3>3, RisesToOdd
    <3>5. V[j].place % 2 = 0
      BY <2>1, <3>4 DEF Alone
    <3> QED
      BY <3>4, <3>5
  <2> QED
    BY <2>1, <2>2 DEF OnLevel
<1> QED
  BY <1>0, <1>5, <1>6 DEF VerifyInclusion, path

-----------------------------------------------------------------------------
(* What an auditor may be shown, and what verifyEntryProof says of it. *)

\* Every path that may be claimed is a sequence.
LEMMA ClaimedPaths ==
  ASSUME NEW n \in Nat, n > 0, NEW path \in Paths(n)
  PROVE  Len(path) \in Nat
<1> DEFINE N == NodeHashes(n) \cup {Leaves(n)[1]}
<1>1. ASSUME NEW full \in FullPaths(n) PROVE full \in Seq(N)
  <2>1. PICK i \in 0..(n - 1) : full = InclusionPath(i, Leaves(n))
    BY DEF FullPaths
  <2>2. <<0, n>> \in Slices(Leaves(n))
    BY LeavesCount DEF Slices
  <2>3. full = PathsTo(i, Leaves(n))[<<0, n>>]
    BY <2>1, LeavesCount DEF InclusionPath
  <2>4. full \in Seq(NodeHashes(n))
    BY <2>2, <2>3, PathsAreOfNodes
  <2>5. NodeHashes(n) \subseteq N
    OBVIOUS
  <2> HIDE DEF N
  <2> QED
    BY <2>4, <2>5
<1>2. CASE \E full \in FullPaths(n) : path \in Suffixes(full)
  <2>1. PICK full \in FullPaths(n) : path \in Suffixes(full)
    BY <1>2
  <2>2. full \in Seq(N)
    BY <1>1
  <2> HIDE DEF N
  <2>3. path = <<>> \/ \E l \in 1..Len(full) : path = SubSeq(full, l, Len(full))
    BY <2>1 DEF Suffixes
  <2>4. CASE \E l \in 1..Len(full) : path = SubSeq(full, l, Len(full))
    <3>1. PICK l \in 1..Len(full) : path = SubSeq(full, l, Len(full))
      BY <2>4
    <3>2. path \in Seq(N)
      BY <2>2, <3>1
    <3> QED
      BY <3>2
  <2>5. CASE path = <<>>
    BY <2>5
  <2> QED
    BY <2>3, <2>4, <2>5
<1>3. CASE \E full \in FullPaths(n) : path = Append(full, Leaves(n)[1])
  <2>1. PICK full \in FullPaths(n) : path = Append(full, Leaves(n)[1])
    BY <1>3
  <2>2. full \in Seq(N) /\ Leaves(n)[1] \in N
    BY <1>1
  <2> HIDE DEF N
  <2>3. path \in Seq(N)
    BY <2>1, <2>2, AppendProperties
  <2> QED
    BY <2>3
<1>4. \/ \E full \in FullPaths(n) : path \in Suffixes(full)
      \/ \E full \in FullPaths(n) : path = Append(full, Leaves(n)[1])
  <2>1. \/ path \in UNION {Suffixes(full) : full \in FullPaths(n)}
        \/ path \in {Append(full, Leaves(n)[1]) : full \in FullPaths(n)}
    BY DEF Paths
  <2>2. ASSUME path \in UNION {Suffixes(full) : full \in FullPaths(n)}
        PROVE  \E full \in FullPaths(n) : path \in Suffixes(full)
    <3>1. PICK x \in {Suffixes(full) : full \in FullPaths(n)} : path \in x
      BY <2>2
    <3>2. PICK full \in FullPaths(n) : x = Suffixes(full)
      BY <3>1
    <3> QED
      BY <3>1, <3>2
  <2>3. ASSUME path \in {Append(full, Leaves(n)[1]) : full \in FullPaths(n)}
        PROVE  \E full \in FullPaths(n) : path = Append(full, Leaves(n)[1])
    BY <2>3
  <2> QED
    BY <2>1, <2>2, <2>3
<1> QED
  BY <1>2, <1>3, <1>4

\* The halves of an inner node are two hashes.
LEMMA HalvesAreTwo ==
  ASSUME NEW n \in Nat, n > 0, NEW data \in Halves(n)
  PROVE  \E x, y : data = <<x, y>>
<1> DEFINE U == UNION {Range(path) : path \in FullPaths(n)}
<1>0. Halves(n) = {Tail(node) : node \in {h \in U \cup {Root(n)} : Len(h) = 3}}
  BY DEF Halves
<1> HIDE DEF U
<1>1. PICK h \in U \cup {Root(n)} : Len(h) = 3 /\ data = Tail(h)
  BY <1>0
<1>2. h \in NodeHashes(n)
  <2>1. CASE h = Root(n)
    BY <2>1, RootIsNode
  <2>2. CASE h \in U
    <3>0. PICK path \in FullPaths(n) : h \in Range(path)
      <4>1. PICK x \in {Range(path) : path \in FullPaths(n)} : h \in x
        BY <2>2 DEF U
      <4>2. PICK path \in FullPaths(n) : x = Range(path)
        BY <4>1
      <4> QED
        BY <4>1, <4>2
    <3>1. PICK i \in 0..(n - 1) : h \in Range(InclusionPath(i, Leaves(n)))
      BY <3>0 DEF FullPaths
    <3>2. <<0, n>> \in Slices(Leaves(n))
      BY LeavesCount DEF Slices
    <3>3. InclusionPath(i, Leaves(n)) = PathsTo(i, Leaves(n))[<<0, n>>]
      BY LeavesCount DEF InclusionPath
    <3>4. InclusionPath(i, Leaves(n)) \in Seq(NodeHashes(n))
      BY <3>2, <3>3, PathsAreOfNodes
    <3> QED
      BY <3>1, <3>4 DEF Range
  <2> QED
    BY <1>1, <2>1, <2>2
<1>3. ASSUME NEW i \in 1..n PROVE h # <<0, i>>
  <2>1. Len(<<0, i>>) = 2
    OBVIOUS
  <2>2. Len(h) = 3
    BY <1>1
  <2> QED
    BY <2>1, <2>2
<1>4. PICK x, y : h = <<1, x, y>>
  BY <1>2, <1>3, NodeHash
<1>5. Tail(<<1, x, y>>) = <<x, y>>
  OBVIOUS
<1> QED
  BY <1>1, <1>4, <1>5

\* proveInclusion convinces verifyEntryProof.
LEMMA HonestIsAccepted ==
  ASSUME NEW n \in Nat, NEW c \in Honest(n)
  PROVE  VerifyEntryProof(c.data, c.proof)
<1>1. PICK i \in 1..n : c = [tree |-> n, data |-> <<i>>, proof |-> ProveInclusion(n, i)]
  BY DEF Honest
<1>2. i - 1 \in 0..(n - 1) /\ (i - 1) + 1 = i
  OBVIOUS
<1>3. /\ c.data = <<i>>
      /\ c.proof = [leaf |-> Leaves(n)[i], index |-> i - 1, size |-> n,
                    path |-> InclusionPath(i - 1, Leaves(n)), root |-> Root(n)]
  BY <1>1 DEF ProveInclusion, Root
<1>4. /\ c.proof.leaf = Leaves(n)[i] /\ c.proof.index = i - 1 /\ c.proof.size = n
      /\ c.proof.path = InclusionPath(i - 1, Leaves(n)) /\ c.proof.root = Root(n)
  BY <1>3
<1>5. HashLeaf(c.data) = <<0, i>> /\ Leaves(n)[i] = <<0, i>>
  BY <1>3, HashLeafOne, LeavesCount
<1>6. VerifyInclusion(<<0, i>>, i - 1, n, InclusionPath(i - 1, Leaves(n)), Root(n))
  BY <1>2, LeadsToRoot
<1> QED
  BY <1>4, <1>5, <1>6 DEF VerifyEntryProof

\* What all claims have in common.
LEMMA ClaimParts ==
  ASSUME NEW n \in Nat, n > 0, NEW c \in Honest(n) \cup Claims(n)
  PROVE  /\ c.tree = n
         /\ (\E i \in 1..(n + 1) : c.data = <<i>>) \/ (\E x, y : c.data = <<x, y>>)
         /\ c.proof.index \in Int /\ c.proof.size \in Nat /\ c.proof.size > 0
         /\ Len(c.proof.path) \in Nat
         /\ c.proof.root = Root(n)
<1>1. CASE c \in Honest(n)
  <2>1. PICK i \in 1..n : c = [tree |-> n, data |-> <<i>>, proof |-> ProveInclusion(n, i)]
    BY <1>1 DEF Honest
  <2>2. /\ c.tree = n /\ c.data = <<i>>
        /\ c.proof = [leaf |-> Leaves(n)[i], index |-> i - 1, size |-> n,
                      path |-> InclusionPath(i - 1, Leaves(n)), root |-> Root(n)]
    BY <2>1 DEF ProveInclusion, Root
  <2>3. /\ c.proof.index = i - 1 /\ c.proof.size = n
        /\ c.proof.path = InclusionPath(i - 1, Leaves(n)) /\ c.proof.root = Root(n)
    BY <2>2
  <2>4. Len(InclusionPath(i - 1, Leaves(n))) \in Nat
    <3>1. <<0, n>> \in Slices(Leaves(n))
      BY LeavesCount DEF Slices
    <3>2. InclusionPath(i - 1, Leaves(n)) = PathsTo(i - 1, Leaves(n))[<<0, n>>]
      BY LeavesCount DEF InclusionPath
    <3>3. InclusionPath(i - 1, Leaves(n)) \in Seq(NodeHashes(n))
      BY <3>1, <3>2, PathsAreOfNodes
    <3> QED
      BY <3>3
  <2>5. i \in 1..(n + 1) /\ i - 1 \in Int
    OBVIOUS
  <2> QED
    BY <2>2, <2>3, <2>4, <2>5
<1>2. CASE c \in Claims(n)
  <2>1. PICK data \in {<<i>> : i \in 1..(n + 1)} \cup Halves(n), own \in BOOLEAN,
             index \in 0..n, size \in 1..(n + 1), path \in Paths(n) :
          c = [tree |-> n, data |-> data,
               proof |-> [leaf |-> IF own THEN HashLeaf(data) ELSE Leaves(n)[1],
                          index |-> index, size |-> size, path |-> path, root |-> Root(n)]]
    BY <1>2 DEF Claims
  <2>2. /\ c.tree = n /\ c.data = data
        /\ c.proof = [leaf |-> IF own THEN HashLeaf(data) ELSE Leaves(n)[1],
                      index |-> index, size |-> size, path |-> path, root |-> Root(n)]
    BY <2>1
  <2>3. /\ c.proof.index = index /\ c.proof.size = size /\ c.proof.path = path
        /\ c.proof.root = Root(n)
    BY <2>2
  <2>4. Len(path) \in Nat
    BY ClaimedPaths
  <2>5. (\E i \in 1..(n + 1) : data = <<i>>) \/ (\E x, y : data = <<x, y>>)
    BY HalvesAreTwo
  <2>6. index \in Int /\ size \in Nat /\ size > 0
    OBVIOUS
  <2> QED
    BY <2>2, <2>3, <2>4, <2>5, <2>6
<1> QED
  BY <1>1, <1>2

\* What convinces verifyEntryProof is a document of the day, in its place.
LEMMA AcceptedIsInTree ==
  ASSUME NEW n \in Nat, n > 0, NEW c \in Honest(n) \cup Claims(n),
         VerifyEntryProof(c.data, c.proof)
  PROVE  \E i \in 1..n : c.data = <<i>> /\ (c.proof.size = n => c.proof.index = i - 1)
<1>1. /\ (\E i \in 1..(n + 1) : c.data = <<i>>) \/ (\E x, y : c.data = <<x, y>>)
      /\ c.proof.index \in Int /\ c.proof.size \in Nat /\ c.proof.size > 0
      /\ Len(c.proof.path) \in Nat
      /\ c.proof.root = Root(n)
  BY ClaimParts
<1> DEFINE leaf == HashLeaf(c.data)
           index == c.proof.index
           size == c.proof.size
           path == c.proof.path
           top == Climbed(leaf, index, size, path)[Len(path)]
<1>2. 0 <= index /\ index < size /\ ~top.spent /\ top.sn = 0 /\ top.hash = Root(n)
  BY <1>1 DEF VerifyEntryProof, VerifyInclusion
<1>3. index \in Nat /\ size \in Nat /\ size > 0 /\ Len(path) \in Nat
  BY <1>1, <1>2
<1>4. leaf \in NodeHashes(n)
  <2>1. top.hash \in NodeHashes(n)
    BY <1>2, RootIsNode
  <2> HIDE DEF leaf, index, size, path
  <2> QED
    BY <1>2, <1>3, <2>1, OnlyFromTheTree
<1>5. PICK i \in 1..n : c.data = <<i>> /\ leaf = <<0, i>>
  <2>1. CASE \E i \in 1..(n + 1) : c.data = <<i>>
    <3>1. PICK i \in 1..(n + 1) : c.data = <<i>>
      BY <2>1
    <3>2. leaf = <<0, i>>
      BY <3>1, HashLeafOne
    <3>3. ASSUME NEW x, NEW y PROVE <<0, i>> # <<1, x, y>>
      OBVIOUS
    <3>4. PICK j \in 1..n : leaf = <<0, j>>
      BY <1>4, <3>2, <3>3, NodeHash
    <3>5. i = j
      BY <3>2, <3>4
    <3> QED
      BY <3>1, <3>2, <3>5
  <2>2. CASE \E x, y : c.data = <<x, y>>
    <3>1. PICK x, y : c.data = <<x, y>>
      BY <2>2
    <3>2. leaf = <<0, x, y>>
      BY <3>1, HashLeafTwo
    <3>3. ASSUME NEW j \in 1..n PROVE <<0, x, y>> # <<0, j>>
      <4>1. Len(<<0, x, y>>) = 3 /\ Len(<<0, j>>) = 2
        OBVIOUS
      <4> QED
        BY <4>1
    <3>4. ASSUME NEW a, NEW b PROVE <<0, x, y>> # <<1, a, b>>
      OBVIOUS
    <3> QED
      BY <1>4, <3>2, <3>3, <3>4, NodeHash
  <2> QED
    BY <1>1, <2>1, <2>2
<1>6. ASSUME size = n PROVE index = i - 1
  <2>1. index \in 0..(n - 1)
    BY <1>2, <1>3, <1>6
  <2> HIDE DEF leaf, index, size, path
  <2>2. leaf = <<0, index + 1>>
    BY <1>2, <1>3, <1>6, <2>1, OnlyFromItsPlace
  <2>3. i = index + 1
    BY <1>5, <2>2
  <2> QED
    BY <1>3, <2>3
<1> QED
  BY <1>5, <1>6

\* An audit is of one claim, and its verdict is that of verifyEntryProof.
AuditInv ==
  /\ audit = [claim |-> audit.claim, verdict |-> audit.verdict]
  /\ \A c, d \in audit.claim : c = d
  /\ \A c \in audit.claim :
       /\ c.tree \in Nat /\ c.tree > 0
       /\ c \in Honest(c.tree) \cup Claims(c.tree)
       /\ audit.verdict = "accepted" => VerifyEntryProof(c.data, c.proof)
       /\ audit.verdict = "refused" => ~VerifyEntryProof(c.data, c.proof)

\* AuditInv holds at first,
LEMMA AuditStarts == AuditInit => AuditInv
<1> SUFFICES ASSUME AuditInit PROVE AuditInv
  OBVIOUS
<1>1. PICK n \in 1..MaxLeaves : \E c \in Honest(n) \cup Claims(n) :
         audit = [claim |-> {c}, verdict |-> "open"]
  BY DEF AuditInit
<1>2. PICK c \in Honest(n) \cup Claims(n) : audit = [claim |-> {c}, verdict |-> "open"]
  BY <1>1
<1>3. audit.claim = {c} /\ audit.verdict = "open"
  BY <1>2
<1>4. n \in Nat /\ n > 0
  BY MaxLeavesAssumption
<1>5. c.tree = n
  BY <1>4, ClaimParts
<1> QED
  BY <1>2, <1>3, <1>4, <1>5 DEF AuditInv

\* and after the verification.
LEMMA AuditStays == AuditInv /\ [Verify]_audit => AuditInv'
<1> SUFFICES ASSUME AuditInv, [Verify]_audit PROVE AuditInv'
  OBVIOUS
<1>1. CASE Verify
  <2>1. PICK d \in audit.claim :
          audit' = [audit EXCEPT !.verdict =
                      IF VerifyEntryProof(d.data, d.proof) THEN "accepted" ELSE "refused"]
    BY <1>1 DEF Verify
  <2>2. audit = [claim |-> audit.claim, verdict |-> audit.verdict]
    BY DEF AuditInv
  <2>3. audit' = [claim |-> audit.claim,
                  verdict |-> IF VerifyEntryProof(d.data, d.proof) THEN "accepted"
                                                                   ELSE "refused"]
    BY <2>1, <2>2
  <2>4. /\ audit'.claim = audit.claim
        /\ audit'.verdict = IF VerifyEntryProof(d.data, d.proof) THEN "accepted" ELSE "refused"
        /\ audit' = [claim |-> audit'.claim, verdict |-> audit'.verdict]
    BY <2>3
  <2>5. \A c \in audit'.claim : c = d
    BY <2>4 DEF AuditInv
  <2>6. d.tree \in Nat /\ d.tree > 0 /\ d \in Honest(d.tree) \cup Claims(d.tree)
    BY DEF AuditInv
  <2>7. /\ audit'.verdict = "accepted" => VerifyEntryProof(d.data, d.proof)
        /\ audit'.verdict = "refused" => ~VerifyEntryProof(d.data, d.proof)
    BY <2>4
  <2> QED
    BY <2>4, <2>5, <2>6, <2>7 DEF AuditInv
<1>2. CASE UNCHANGED audit
  BY <1>2 DEF AuditInv
<1> QED
  BY <1>1, <1>2

\* An honest proof convinces, and what convinces is of a document of the day.
LEMMA AuditsConvince == AuditInv => ProofsConvince
<1> SUFFICES ASSUME AuditInv, NEW c \in audit.claim
             PROVE  /\ audit.verdict = "refused" => c \notin Honest(c.tree)
                    /\ audit.verdict = "accepted" =>
                         \E i \in 1..c.tree : /\ c.data = <<i>>
                                              /\ c.proof.size = c.tree => c.proof.index = i - 1
  BY DEF ProofsConvince
<1>1. /\ c.tree \in Nat /\ c.tree > 0
      /\ c \in Honest(c.tree) \cup Claims(c.tree)
      /\ audit.verdict = "accepted" => VerifyEntryProof(c.data, c.proof)
      /\ audit.verdict = "refused" => ~VerifyEntryProof(c.data, c.proof)
  BY DEF AuditInv
<1>2. ASSUME audit.verdict = "refused" PROVE c \notin Honest(c.tree)
  BY <1>1, <1>2, HonestIsAccepted
<1>3. ASSUME audit.verdict = "accepted"
      PROVE  \E i \in 1..c.tree : c.data = <<i>> /\ (c.proof.size = c.tree => c.proof.index = i - 1)
  BY <1>1, <1>3, AcceptedIsInTree
<1> QED
  BY <1>2, <1>3

\* However many documents the day has, the proof of each of them convinces, and
\* nothing else does: no stranger, no halves of a node, and no other place.
THEOREM Convincing == AuditSpec => []ProofsConvince
<1>1. AuditSpec => []AuditInv
  BY AuditStarts, AuditStays, PTL DEF AuditSpec
<1> QED
  BY <1>1, AuditsConvince, PTL
=============================================================================
