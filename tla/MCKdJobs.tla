------------------------------ MODULE MCKdJobs ------------------------------
(* Instances of KdJobs for TLC: two threads of one file, or of two files.  *)
EXTENDS KdJobs, TLC

CONSTANTS c1, c2, t1, t2, b1, b2

OneFileOf == [t \in {t1, t2} |-> c1]
OneOwnerOf == [b \in {b1, b2} |-> c1]

TwoFilesOf == t1 :> c1 @@ t2 :> c2
TwoOwnersOf == b1 :> c1 @@ b2 :> c2
=============================================================================
