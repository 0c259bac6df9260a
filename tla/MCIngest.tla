------------------------------ MODULE MCIngest ------------------------------
(***************************************************************************)
(* Model-checking instances of Ingest: who sends what to whom.             *)
(***************************************************************************)
EXTENDS Ingest, TLC

CONSTANTS m1, m2, u1, a, b, t1, t2, i1, i2, q1, q2, q3, q4

\* m1 is delivered twice at a time; m2 carries the same files in the opposite
\* order; a fourth request uploads one of them.
CrossedJob == q1 :> m1 @@ q2 :> m1 @@ q3 :> m2 @@ q4 :> u1
CrossedAttachments == m1 :> <<a, b>> @@ m2 :> <<b, a>> @@ u1 :> <<b>>
SameTenant == [j \in Jobs |-> t1]
OwnIds == m1 :> i1 @@ m2 :> i2
=============================================================================
