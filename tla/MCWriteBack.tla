------------------------------ MODULE MCWriteBack ------------------------------
(* Instances of WriteBack for TLC.                                             *)
EXTENDS WriteBack, TLC

\* Regions, appliers and posts are interchangeable.
Symmetry == Permutations(Regions) \cup Permutations(Appliers) \cup Permutations(Posts)

===============================================================================
