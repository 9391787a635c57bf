----------------------------- MODULE MCQualityLoop -----------------------------
(* Instances of QualityLoop: a requirements job alone with four attempts, an   *)
(* exploration job with three, two exploration jobs at once with one each,     *)
(* and the last two with a change of the source and an exception.              *)
EXTENDS QualityLoop

CONSTANTS r, x, y

MCJobs == {r, x, y}
MCKind == [j \in MCJobs |-> IF j = r THEN "requirements" ELSE "exploration"]
Clear == {<<0, 0>>}
Scored == {<<0, 1>>, <<1, 0>>}

MCScenarios ==
    {[asked |-> {r}, ceiling |-> 4, findings |-> Clear, edits |-> 0, faults |-> 0],
     [asked |-> {r}, ceiling |-> 1, findings |-> Clear, edits |-> 1, faults |-> 2],
     [asked |-> {x}, ceiling |-> 3, findings |-> Scored, edits |-> 0, faults |-> 1],
     [asked |-> {x, y}, ceiling |-> 1, findings |-> Clear, edits |-> 1, faults |-> 0]}
MCTokens == [k \in {"requirements", "exploration"} |->
                IF k = "requirements" THEN {"job", "outcome"} ELSE {"distinctness"}]
===============================================================================
