------------------------------- MODULE Ledger -------------------------------
(***************************************************************************)
(* What the archive of one tenant promises (packages/db/README.md, Archive *)
(* writer): documents are archived once, into a day that is still open; a  *)
(* day is sealed once, after every sealed day, over the documents archived *)
(* on it, and names the root of the last sealed day.  Archiving and        *)
(* sealing are single steps.                                               *)
(*                                                                         *)
(* The one exception: a document whose archiving was under way together    *)
(* with the sealing of its day may be missing from the root.  As long as   *)
(* nothing overlaps, this is the ledger without exceptions.  ArchiveChain  *)
(* implements it with any archivers beside one sealer.                     *)
(***************************************************************************)
EXTENDS Integers

CONSTANTS Docs, MaxDay

VARIABLES archivedOn, chain, overlapped

vars == <<archivedOn, chain, overlapped>>

Sealed(day) == \E l \in chain : l.day = day

On(day) == {d \in Docs : archivedOn[d] = day}

Init ==
  /\ archivedOn = [d \in Docs |-> 0]
  /\ chain = {}
  /\ overlapped = {}

Archive(d, day) ==
  /\ archivedOn[d] = 0
  /\ ~Sealed(day) \/ d \in overlapped
  /\ archivedOn' = [archivedOn EXCEPT ![d] = day]
  /\ UNCHANGED <<chain, overlapped>>

Seal(day) ==
  /\ \A l \in chain : l.day < day
  /\ \E root \in SUBSET On(day) :
       /\ On(day) \ root \subseteq overlapped
       /\ chain' = chain \cup
            {[day |-> day, root |-> root,
              prevRoot |-> {l.root : l \in {k \in chain : \A j \in chain : j.day <= k.day}}]}
  /\ UNCHANGED <<archivedOn, overlapped>>

\* Archiving and sealing of a day are under way together.
Overlap(docs) ==
  /\ overlapped' = overlapped \cup docs
  /\ UNCHANGED <<archivedOn, chain>>

Next ==
  \/ \E day \in 1..MaxDay : Seal(day) \/ \E d \in Docs : Archive(d, day)
  \/ \E docs \in SUBSET Docs : Overlap(docs)

Spec == Init /\ [][Next]_vars
=============================================================================
