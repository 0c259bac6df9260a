---------------------------- MODULE ArchiveChain ----------------------------
(***************************************************************************)
(* The archive writer and the proof reader of one tenant.                  *)
(*                                                                         *)
(* packages/db/src/archive-store.ts runs archiveDocument, sealArchiveDay   *)
(* and proofForDocument inside Db.withTenant, a READ COMMITTED             *)
(* transaction: every statement sees what was committed before it, and     *)
(* nothing is locked between the statement that checks and the one that    *)
(* writes.  Each statement is an action here.  A transaction's writes are  *)
(* its last statements and become visible at COMMIT, so the write and the  *)
(* COMMIT are one step; a ROLLBACK before it leaves no trace.              *)
(*                                                                         *)
(* A Merkle root is the set of the entries it covers: entryLeafHash covers *)
(* the document's id, digest, size and archive time, the order of leaves   *)
(* is a function of the entries, and SHA-256 is taken to be injective.     *)
(* The root of a day without documents is {} whatever the day.             *)
(***************************************************************************)
EXTENDS Integers, FiniteSets

CONSTANTS
  Docs,       \* document rows of the tenant
  MaxDay,     \* bound on the UTC days that are modelled
  Archivers,  \* connections that run archiveDocument (upload, seed)
  Sealers,    \* connections that run sealArchiveDay (seed)
  Readers     \* connections that run proofForDocument (GET /v1/archive/proof)

ASSUME MaxDayAssumption == MaxDay \in Nat

VARIABLES
  today,       \* the UTC day now
  archivedOn,  \* documents.archived_at as a day; 0 is NULL
  chain,       \* the rows of archive_chain
  tx,          \* the open transaction of each connection
  served,      \* proofs that have been returned to a client (history)
  overlapped   \* documents archived while their day was being sealed (history)

db == <<archivedOn, chain>>
vars == <<today, archivedOn, chain, tx, served, overlapped>>

Procs == Archivers \cup Sealers \cup Readers
Days == 1..MaxDay

\* A column or variable that may be null: {} is null, {v} holds v.
Optional(S) == {{}} \cup {{v} : v \in S}

Link == [day : Days, root : SUBSET Docs, prevRoot : Optional(SUBSET Docs)]

Steps == {"idle", "archiving", "sealing", "previousRead", "entriesRead",
          "proving", "proved"}

\* `link` is the link a transaction has read: the previous one when it seals,
\* the one of the document's day when it proves.
Tx == [at : Steps, doc : Optional(Docs), day : 0..MaxDay,
       link : Optional(Link), entries : SUBSET Docs]

Idle == [at |-> "idle", doc |-> {}, day |-> 0, link |-> {}, entries |-> {}]

Proof == [doc : Docs, link : Link, chain : SUBSET Link]

TypeOK ==
  /\ today \in 1..(MaxDay + 1)
  /\ archivedOn \in [Docs -> 0..MaxDay]
  /\ chain \subseteq Link
  /\ tx \in [Procs -> Tx]
  /\ served \subseteq Proof
  /\ overlapped \subseteq Docs

-----------------------------------------------------------------------------
(* The queries. *)

LinkForDay(day) == {l \in chain : l.day = day}

EntriesForDay(day) == {d \in Docs : archivedOn[d] = day}

\* ORDER BY day DESC LIMIT 1
LatestLink == {l \in chain : \A k \in chain : k.day <= l.day}

LinksUpTo(day) == {l \in chain : l.day <= day}

Begin(p, t) == tx[p] = Idle /\ tx' = [tx EXCEPT ![p] = t]
End(p) == tx' = [tx EXCEPT ![p] = Idle]

SealOpen(q, day) ==
  tx[q].day = day /\ tx[q].at \in {"sealing", "previousRead", "entriesRead"}
ArchiveOpen(q, day) == tx[q].day = day /\ tx[q].at = "archiving"

-----------------------------------------------------------------------------
(* archiveDocument.  An upload archives at the time its request arrived,   *)
(* and validation may run past midnight; the seed archives at the receipt  *)
(* time of past mail.                                                      *)

\* Variant: the document is archived without a look at the chain.
ArchiveUnchecked(p, d, day) ==
  /\ day <= today
  /\ Begin(p, [Idle EXCEPT !.at = "archiving", !.doc = {d}, !.day = day])
  /\ overlapped' = overlapped \cup
                     {e \in {d} : \E q \in Procs : SealOpen(q, day)}
  /\ UNCHANGED <<today, db, served>>

ArchiveCheck(p, d, day) ==
  /\ day <= today
  /\ LinkForDay(day) = {}
  /\ Begin(p, [Idle EXCEPT !.at = "archiving", !.doc = {d}, !.day = day])
  /\ overlapped' = overlapped \cup
                     {e \in {d} : \E q \in Procs : SealOpen(q, day)}
  /\ UNCHANGED <<today, db, served>>

\* UPDATE ... WHERE archived_at IS NULL, the archive_hash, COMMIT.  A second
\* transaction on the row waits for the first and then finds no row.
ArchiveCommit(p) ==
  /\ tx[p].at = "archiving"
  /\ \A d \in tx[p].doc : archivedOn[d] = 0
  /\ archivedOn' = [d \in Docs |-> IF d \in tx[p].doc THEN tx[p].day
                                                     ELSE archivedOn[d]]
  /\ End(p)
  /\ UNCHANGED <<today, chain, served, overlapped>>

-----------------------------------------------------------------------------
(* sealArchiveDay.  An existing link is returned as it is: no action.  The *)
(* seed, its one caller, leaves today open.                                *)

SealBegin(p, day) ==
  /\ day < today
  /\ LinkForDay(day) = {}
  /\ Begin(p, [Idle EXCEPT !.at = "sealing", !.day = day])
  /\ overlapped' = overlapped \cup
                     UNION {tx[q].doc : q \in {r \in Procs : ArchiveOpen(r, day)}}
  /\ UNCHANGED <<today, db, served>>

\* Variant: any day that has no link can be sealed.
SealAnyDay(p) ==
  /\ tx[p].at = "sealing"
  /\ tx' = [tx EXCEPT ![p].at = "previousRead", ![p].link = LatestLink]
  /\ UNCHANGED <<today, db, served, overlapped>>

\* "the chain only moves forward": a day that is not later is refused.
SealReadPrevious(p) ==
  /\ tx[p].at = "sealing"
  /\ \A l \in LatestLink : l.day < tx[p].day
  /\ tx' = [tx EXCEPT ![p].at = "previousRead", ![p].link = LatestLink]
  /\ UNCHANGED <<today, db, served, overlapped>>

SealReadEntries(p) ==
  /\ tx[p].at = "previousRead"
  /\ tx' = [tx EXCEPT ![p].at = "entriesRead",
                      ![p].entries = EntriesForDay(tx[p].day)]
  /\ UNCHANGED <<today, db, served, overlapped>>

\* sealDay
SealedLink(p) ==
  [day |-> tx[p].day, root |-> tx[p].entries,
   prevRoot |-> {l.root : l \in tx[p].link}]

\* Variant: no primary key on the day.
SealTwice(p) ==
  /\ tx[p].at = "entriesRead"
  /\ chain' = chain \cup {SealedLink(p)}
  /\ End(p)
  /\ UNCHANGED <<today, archivedOn, served, overlapped>>

\* INSERT under PRIMARY KEY (tenant_id, day), and COMMIT.
SealCommit(p) ==
  /\ tx[p].at = "entriesRead"
  /\ LinkForDay(tx[p].day) = {}
  /\ chain' = chain \cup {SealedLink(p)}
  /\ End(p)
  /\ UNCHANGED <<today, archivedOn, served, overlapped>>

-----------------------------------------------------------------------------
(* proofForDocument.  No row, an unarchived one and an unsealed day answer *)
(* undefined: no action.  An archived row never changes, so reading it     *)
(* together with the link is the same as reading it one statement earlier. *)

ProofReadLink(p, d) ==
  /\ archivedOn[d] # 0
  /\ LinkForDay(archivedOn[d]) # {}
  /\ Begin(p, [Idle EXCEPT !.at = "proving", !.doc = {d}, !.day = archivedOn[d],
                           !.link = LinkForDay(archivedOn[d])])
  /\ UNCHANGED <<today, db, served, overlapped>>

\* Variant: the path is computed without comparing its root.
ProveUncompared(p) ==
  /\ tx[p].at = "proving"
  /\ tx[p].doc \subseteq EntriesForDay(tx[p].day)
  /\ tx' = [tx EXCEPT ![p].at = "proved"]
  /\ UNCHANGED <<today, db, served, overlapped>>

\* proveInclusion refuses when the recomputed root is not the sealed one.
ProofReadEntries(p) ==
  /\ tx[p].at = "proving"
  /\ tx[p].doc \subseteq EntriesForDay(tx[p].day)
  /\ \A l \in tx[p].link : l.root = EntriesForDay(tx[p].day)
  /\ tx' = [tx EXCEPT ![p].at = "proved"]
  /\ UNCHANGED <<today, db, served, overlapped>>

ProofServe(p) ==
  /\ tx[p].at = "proved"
  /\ served' = served \cup
       {[doc |-> d, link |-> l, chain |-> LinksUpTo(tx[p].day)] :
          d \in tx[p].doc, l \in tx[p].link}
  /\ End(p)
  /\ UNCHANGED <<today, db, overlapped>>

-----------------------------------------------------------------------------
\* An error thrown by the code, a unique violation, a lost connection or a
\* crash: ROLLBACK.
Abort(p) ==
  /\ tx[p] # Idle
  /\ End(p)
  /\ UNCHANGED <<today, db, served, overlapped>>

Midnight ==
  /\ today <= MaxDay
  /\ today' = today + 1
  /\ UNCHANGED <<db, tx, served, overlapped>>

Init ==
  /\ today = 1
  /\ archivedOn = [d \in Docs |-> 0]
  /\ chain = {}
  /\ tx = [p \in Procs |-> Idle]
  /\ served = {}
  /\ overlapped = {}

Archive(p) == (\E d \in Docs, day \in Days : ArchiveCheck(p, d, day))
              \/ ArchiveCommit(p)

Seal(p) == (\E day \in Days : SealBegin(p, day)) \/ SealReadPrevious(p)
           \/ SealReadEntries(p) \/ SealCommit(p)

Prove(p) == (\E d \in Docs : ProofReadLink(p, d)) \/ ProofReadEntries(p)
            \/ ProofServe(p)

Next ==
  \/ \E p \in Archivers : Archive(p)
  \/ \E p \in Sealers : Seal(p)
  \/ \E p \in Readers : Prove(p)
  \/ \E p \in Procs : Abort(p)
  \/ Midnight

Spec == Init /\ [][Next]_vars

-----------------------------------------------------------------------------
(* Properties. *)

\* What a root covers are documents archived on that day: a seal never covers
\* a document that was rolled back, moved or archived on another day
\* (archive-store.ts entriesForDay against the immutability triggers).
RootsAreArchived ==
  \A l \in chain : l.root \subseteq EntriesForDay(l.day)

\* The only documents a sealed day can have lost are those whose archiving
\* transaction was open together with the sealing transaction of that day:
\* archiveDocument's check closes the day to every other one.
SealedDayComplete ==
  \A l \in chain : EntriesForDay(l.day) \ l.root \subseteq overlapped

\* prevRoot names the root of a link of an earlier day that is in the chain,
\* or is null: a seal never points at a link that was not committed, nor
\* forward or at itself, whatever ran beside it.
PrevRootIsEarlierLink ==
  \A l \in chain :
    \A r \in l.prevRoot : \E k \in chain : k.day < l.day /\ k.root = r

\* PRIMARY KEY (tenant_id, day) together with the read of linkForDay: of two
\* sealers of one day, one fails, and no day has two roots.
OneLinkPerDay ==
  \A k, l \in chain : k.day = l.day => k = l

\* What a root vouches for is what was archived on its day, but for documents
\* whose archiving overlapped its sealing.
RootsHoldTheirDay == RootsAreArchived /\ SealedDayComplete

\* Whatever sealers run beside each other, a day has one link, and each link
\* leads back to an earlier day that is in the chain.
LinksAreOrdered == OneLinkPerDay /\ PrevRootIsEarlierLink

\* A proof that was served stays true: its link is the link of that day, the
\* link covers the document, and the links that came with it are all still in
\* the chain.
ServedProofsHold ==
  \A s \in served :
    /\ LinkForDay(s.link.day) = {s.link}
    /\ s.doc \in s.link.root
    /\ archivedOn[s.doc] = s.link.day
    /\ s.link \in s.chain
    /\ s.chain \subseteq chain

\* verifyChain: the first link has no previous root, and each later one names
\* the root of the link before it.
VerifyChain(links) ==
  \A l \in links :
    LET before == {k \in links : k.day < l.day}
    IN  l.prevRoot = {k.root : k \in {b \in before : \A c \in before : c.day <= b.day}}

\* With one sealing connection the tenant's chain always verifies.
ChainVerifies == VerifyChain(chain)

\* archive_chain and the archived columns are written once: a row of the chain
\* is never changed or removed, and archived_at never changes once set
\* (archiveDocument's archived_at IS NULL).
ArchiveIsAppendOnly ==
  [][/\ chain \subseteq chain'
     /\ \A d \in Docs : archivedOn[d] # 0 => archivedOn'[d] = archivedOn[d]]_vars

\* README.md: "A document cannot be archived into a day that already has a
\* chain link": every document of a sealed day is under its root.
SealedDayClosed ==
  \A l \in chain : EntriesForDay(l.day) = l.root

\* With one sealing connection, and any archivers beside it, the transactions
\* implement the atomic ledger: what it excepts is all that overlapping loses.
Promise == INSTANCE Ledger WITH archivedOn <- archivedOn, chain <- chain,
                               overlapped <- overlapped
ImplementsLedger == Promise!Spec
=============================================================================
