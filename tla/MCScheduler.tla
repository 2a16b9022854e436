----------------------------- MODULE MCScheduler -----------------------------
(* Small instances of Scheduler for TLC: the graphs and gates of the runs. *)
EXTENDS Scheduler

CONSTANTS a, b, c, d

MCOne == [n \in Node |-> 1]
MCTwo == [n \in Node |-> 2]
MCRetry == [n \in Node |-> IF n = c THEN 2 ELSE 1]
MCRank == [n \in Node |->
              CASE n = a -> 1 [] n = b -> 2 [] n = c -> 3 [] n = d -> 4]
MCBackwards == [n \in Node |-> 5 - MCRank[n]]
MCFree == [n \in Node |-> {}]
MCUnconditional == [n \in Node |-> NoNode]

\* a decides between b and d, c joins the branches.
MCDiamond == [n \in Node |-> CASE n \in {b, d} -> {a} [] n = c -> {b, d}
                              [] OTHER -> {}]
MCBranch == [n \in Node |-> IF n \in {b, d} THEN a ELSE NoNode]

\* b follows a.
MCChain == [n \in Node |-> IF n = b THEN {a} ELSE {}]

MCGates == {<<a, "admit", "approval">>, <<a, "exec", "question">>,
            <<b, "exec", "approval">>}
MCInnerGates == {<<a, "exec", "approval">>}
MCAskThenAsk == {<<a, "exec", "approval">>, <<a, "exec", "question">>}
=============================================================================
