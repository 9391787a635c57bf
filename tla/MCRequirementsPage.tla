-------------------------- MODULE MCRequirementsPage --------------------------
(* An instance of RequirementsPage: two units and two texts, one gap, one      *)
(* comment, and jobs two of which may be at work at once.                      *)
EXTENDS RequirementsPage, TLC

CONSTANTS a, b, t1, t2, w1, w2, g, c1

MCUnits == {a, b}
MCTexts == {t1, t2}
MCWords == {w1, w2}
MCGaps == {g}
MCComments == {c1}
Symmetry == Permutations(MCUnits) \cup Permutations(MCTexts)

MCScenarios ==
    {[jobs |-> 1 .. 3, attempts |-> 1, words |-> {w1}, gaps |-> {}, comments |-> {},
      edits |-> 2, wipes |-> FALSE],
     [jobs |-> 1 .. 2, attempts |-> 1, words |-> {w1}, gaps |-> {g}, comments |-> {},
      edits |-> 1, wipes |-> FALSE],
     [jobs |-> 1 .. 2, attempts |-> 1, words |-> {w1, w2}, gaps |-> {}, comments |-> {c1},
      edits |-> 1, wipes |-> FALSE],
     [jobs |-> 1 .. 2, attempts |-> 2, words |-> {w1}, gaps |-> {}, comments |-> {},
      edits |-> 1, wipes |-> TRUE],
     [jobs |-> {1}, attempts |-> 2, words |-> {w1, w2}, gaps |-> {}, comments |-> {c1},
      edits |-> 0, wipes |-> FALSE]}
===============================================================================
