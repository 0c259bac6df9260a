--------------------------- MODULE MCArchiveChain ---------------------------
(***************************************************************************)
(* Model-checking instances of ArchiveChain.  Documents are interchangeable*)
(* and so are the connections of one role; the cfg files that use Symmetry *)
(* give the three roles disjoint sets.                                     *)
(***************************************************************************)
EXTENDS ArchiveChain, TLC

Symmetry == Permutations(Docs) \cup Permutations(Archivers)
            \cup Permutations(Sealers)
=============================================================================
