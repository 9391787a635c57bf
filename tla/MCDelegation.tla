------------------------------ MODULE MCDelegation ------------------------------
EXTENDS Delegation, TLC

CONSTANTS alpha, beta, s1, s2, t1, t2

MCMay == {<<alpha, beta>>, <<beta, beta>>}

MCScenarios == {
    \* two sessions, one of which may lose posts
    [runs |-> 3, actors |-> 3, wire |-> 1, errors |-> 0, agents |-> {beta}, sessions |-> {s1, s2}, writes |-> {},
     ops |-> {"subagents", "skills", "lose"}],
    \* one session: plain prompts and subagents, long turns
    [runs |-> 3, actors |-> 3, wire |-> 2, errors |-> 0, agents |-> {beta}, sessions |-> {s1}, writes |-> {},
     ops |-> {"subagents", "skills", "plain"}],
    [runs |-> 3, actors |-> 3, wire |-> 2, errors |-> 0, agents |-> {beta}, sessions |-> {s1}, writes |-> {},
     ops |-> {"subagents", "hour", "restart"}],
    \* a launched run whose session is discovered, its subagents, and the page's buttons
    [runs |-> 2, actors |-> 2, wire |-> 2, errors |-> 0, agents |-> {beta}, sessions |-> {}, writes |-> {},
     ops |-> {"subagents", "skills", "dispatch", "stuck", "operator"}],
    [runs |-> 2, actors |-> 2, wire |-> 1, errors |-> 0, agents |-> {beta}, sessions |-> {}, writes |-> {"completed"},
     ops |-> {"subagents", "skills", "dispatch"}],
    \* a forest of subagents
    [runs |-> 3, actors |-> 3, wire |-> 1, errors |-> 0, agents |-> {alpha}, sessions |-> {s1}, writes |-> {},
     ops |-> {"subagents", "operator"}],
    \* a forest of delegated runs, deeper than the tree is shown
    [runs |-> 4, actors |-> 0, wire |-> 0, errors |-> 0, agents |-> {alpha, beta}, sessions |-> {}, writes |-> {},
     ops |-> {"dispatch", "operator"}],
    \* parents that wait, agents that keep failing
    [runs |-> 2, actors |-> 2, wire |-> 0, errors |-> 0, agents |-> {beta}, sessions |-> {},
     writes |-> {"empty", "torn", "completed"}, ops |-> {"dispatch", "poll", "cancel"}],
    [runs |-> 2, actors |-> 2, wire |-> 0, errors |-> 2, agents |-> {beta}, sessions |-> {},
     writes |-> {"working", "partial"}, ops |-> {"dispatch", "poll", "restart"}]}

===============================================================================
