------------------------------- MODULE Merkle --------------------------------
(***************************************************************************)
(* The Merkle tree under a sealed day (packages/archive/src/merkle.ts, RFC *)
(* 6962), the proof that a document is in it (proveInclusion in chain.ts), *)
(* and the auditor who checks a proof with nothing but the document's      *)
(* entry and the root (verifyEntryProof).                                  *)
(*                                                                         *)
(* SHA-256 is taken to be injective, so a hash is the sequence of what was *)
(* hashed.  An entry of the day is <<i>>, i its place in orderEntries; the *)
(* 64 bytes of two hashes side by side are the pair of them.               *)
(***************************************************************************)
EXTENDS Integers, SequencesExt

CONSTANT MaxLeaves  \* bound on the documents of a day

ASSUME MaxLeavesAssumption == MaxLeaves \in Nat

VARIABLE audit  \* what an auditor is shown, and what verifyEntryProof says of it

\* LEAF_PREFIX and NODE_PREFIX
HashLeaf(data) == <<0>> \o data
HashNode(left, right) == <<1, left, right>>

\* The largest power of two that is less than n, for n > 1.
SplitPoint(n) ==
  LET from[k \in 1..n] == IF k * 2 < n THEN from[k * 2] ELSE k
  IN  from[1]

\* What merkleRoot and inclusionPath slice the leaves into: how many leaves come
\* before the slice, and how many are in it.
Slices(leaves) ==
  {s \in (0..Len(leaves)) \X (0..Len(leaves)) : s[1] + s[2] <= Len(leaves)}

Left(s) == <<s[1], SplitPoint(s[2])>>
Right(s) == <<s[1] + SplitPoint(s[2]), s[2] - SplitPoint(s[2])>>

\* The root of every slice.  The empty tree is the hash of nothing.
Roots(leaves) ==
  LET root[s \in Slices(leaves)] ==
        IF s[2] = 0 THEN <<>>
        ELSE IF s[2] = 1 THEN leaves[s[1] + 1]
        ELSE HashNode(root[Left(s)], root[Right(s)])
  IN  root

MerkleRoot(leaves) == Roots(leaves)[<<0, Len(leaves)>>]

\* In every slice that has the index: from the leaf upwards; the index counts
\* from 0.
PathsTo(index, leaves) ==
  LET path[s \in Slices(leaves)] ==
        IF s[2] <= 1 THEN <<>>
        ELSE IF index < s[1] + SplitPoint(s[2])
             THEN Append(path[Left(s)], Roots(leaves)[Right(s)])
             ELSE Append(path[Right(s)], Roots(leaves)[Left(s)])
  IN  path

InclusionPath(index, leaves) == PathsTo(index, leaves)[<<0, Len(leaves)>>]

\* One level up, and before it as many as leave the position even.
Ascend(fn, sn) ==
  LET up[p \in (0..fn) \X (0..sn)] ==
        IF p[1] # 0 /\ p[1] % 2 = 0 THEN up[<<p[1] \div 2, p[2] \div 2>>]
        ELSE <<p[1] \div 2, p[2] \div 2>>
  IN  up[<<fn, sn>>]

\* Variant: the last node of a level has its sibling on the right as well.
ClimbByParity(at, sibling) ==
  IF at.spent \/ at.sn = 0 THEN [at EXCEPT !.spent = TRUE]
  ELSE [fn |-> at.fn \div 2, sn |-> at.sn \div 2, spent |-> FALSE,
        hash |-> IF at.fn % 2 = 1 THEN HashNode(sibling, at.hash)
                                  ELSE HashNode(at.hash, sibling)]

\* The sibling is to the left of an odd position, and of the last one, which
\* has risen alone.  A sibling with nothing above it is one too many.
Climb(at, sibling) ==
  LET up == Ascend(at.fn, at.sn) IN
  IF at.spent \/ at.sn = 0 THEN [at EXCEPT !.spent = TRUE]
  ELSE IF at.fn % 2 = 1 \/ at.fn = at.sn
       THEN [fn |-> up[1], sn |-> up[2], spent |-> FALSE, hash |-> HashNode(sibling, at.hash)]
       ELSE [fn |-> at.fn \div 2, sn |-> at.sn \div 2, spent |-> FALSE,
             hash |-> HashNode(at.hash, sibling)]

\* Where the verifier is after each sibling.
Climbed(leaf, index, size, path) ==
  LET at[i \in 0..Len(path)] ==
        IF i = 0 THEN [fn |-> index, sn |-> size - 1, spent |-> FALSE, hash |-> leaf]
        ELSE Climb(at[i - 1], path[i])
  IN  at

VerifyInclusion(leaf, index, size, path, root) ==
  LET top == Climbed(leaf, index, size, path)[Len(path)]
  IN  /\ 0 <= index /\ index < size
      /\ ~top.spent /\ top.sn = 0 /\ top.hash = root

\* chain.ts: the proof names a leaf and brings its own root.
VerifyEntryProof(data, proof) ==
  /\ proof.leaf = HashLeaf(data)
  /\ VerifyInclusion(HashLeaf(data), proof.index, proof.size, proof.path, proof.root)

-----------------------------------------------------------------------------
(* An auditor of a day with n documents. *)

Leaves(n) == [i \in 1..n |-> HashLeaf(<<i>>)]

\* chain.ts
ProveInclusion(n, i) ==
  [leaf |-> Leaves(n)[i], index |-> i - 1, size |-> n,
   path |-> InclusionPath(i - 1, Leaves(n)), root |-> MerkleRoot(Leaves(n))]

Honest(n) == {[tree |-> n, data |-> <<i>>, proof |-> ProveInclusion(n, i)] : i \in 1..n}

Root(n) == MerkleRoot(Leaves(n))
FullPaths(n) == {InclusionPath(i, Leaves(n)) : i \in 0..(n - 1)}

\* Paths, also with the lower levels left away and with one sibling too many.
Paths(n) ==
  (UNION {Suffixes(path) : path \in FullPaths(n)})
  \cup {Append(path, Leaves(n)[1]) : path \in FullPaths(n)}

\* The inner nodes' halves, which hash like a document without the prefixes.
Halves(n) ==
  {Tail(node) : node \in {h \in (UNION {Range(path) : path \in FullPaths(n)}) \cup {Root(n)} :
                            Len(h) = 3}}

\* What somebody who knows the tree may put together: a document of the day, one
\* that is not, or a forged one, with any place, size and path.  The root is the
\* one that was published.
Claims(n) ==
  LET root == Root(n) IN
  {[tree |-> n, data |-> data,
    proof |-> [leaf |-> IF own THEN HashLeaf(data) ELSE Leaves(n)[1], index |-> index,
               size |-> size, path |-> path, root |-> root]] :
   data \in {<<i>> : i \in 1..(n + 1)} \cup Halves(n), own \in BOOLEAN,
   index \in 0..n, size \in 1..(n + 1), path \in Paths(n)}

NoAudit == [claim |-> {}, verdict |-> "none"]

AuditInit ==
  \E n \in 1..MaxLeaves : \E c \in Honest(n) \cup Claims(n) :
    audit = [claim |-> {c}, verdict |-> "open"]

\* One call of verifyEntryProof.
Verify ==
  /\ audit.verdict = "open"
  /\ \E c \in audit.claim :
       audit' = [audit EXCEPT !.verdict =
                   IF VerifyEntryProof(c.data, c.proof) THEN "accepted" ELSE "refused"]

AuditSpec == AuditInit /\ [][Verify]_audit

-----------------------------------------------------------------------------
(* The property *)

\* The proof of a document of the day convinces, wherever the document stands in
\* a tree of any shape.  Nothing convinces for what is not a document of the day,
\* neither a stranger nor the halves of an inner node, whatever place, size and
\* path come with it; and with the true size, nothing for the wrong place.
ProofsConvince ==
  \A c \in audit.claim :
    /\ audit.verdict = "refused" => c \notin Honest(c.tree)
    /\ audit.verdict = "accepted" =>
         \E i \in 1..c.tree : /\ c.data = <<i>>
                              /\ c.proof.size = c.tree => c.proof.index = i - 1
=============================================================================
