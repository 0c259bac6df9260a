--------------------------- MODULE MCArchiveAudit ----------------------------
(***************************************************************************)
(* The archive of MCArchiveChain and, beside it, an auditor with the tree  *)
(* of a day that was sealed long ago.  The two share nothing: a behaviour  *)
(* is one of the archive, or one verification.                             *)
(***************************************************************************)
EXTENDS MCArchiveChain, Merkle

MCInit == Init /\ (audit = NoAudit \/ AuditInit)
MCNext ==
  \/ audit = NoAudit /\ Next /\ UNCHANGED audit
  \/ Verify /\ UNCHANGED vars
MCSpec == MCInit /\ [][MCNext]_<<vars, audit>>
=============================================================================
