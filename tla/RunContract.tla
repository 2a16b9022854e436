----------------------------- MODULE RunContract -----------------------------
(***************************************************************************)
(* What a run promises to whoever watches its rows, with no scheduler in    *)
(* sight: nodes are tried until they are done, nothing is tried again once   *)
(* it is done, the run ends once, and nothing happens to it afterwards.      *)
(***************************************************************************)
EXTENDS Naturals

CONSTANT Node

VARIABLES
    phase,   \* "open", or the status the run finished with
    tries,   \* attempts recorded for a node
    done,    \* nodes whose outcome is a checkpoint
    ends     \* `end` events

contract == <<phase, tries, done, ends>>

Outcome == {"succeeded", "failed", "cancelled", "interrupted"}

Init == phase = "open" /\ tries = [n \in Node |-> 0] /\ done = {} /\ ends = 0

\* An attempt of a node that is not done.
Try(n) == /\ phase = "open" /\ n \notin done
          /\ tries' = [tries EXCEPT ![n] = @ + 1]
          /\ UNCHANGED <<phase, done, ends>>

\* An attempt is the node's last.
Check(n) == /\ phase = "open" /\ n \notin done /\ tries[n] > 0
            /\ done' = done \cup {n}
            /\ UNCHANGED <<phase, tries, ends>>

\* Success means that whatever was tried is done.
End(o) == /\ phase = "open"
          /\ o = "succeeded" => \A n \in Node : tries[n] > 0 => n \in done
          /\ phase' = o /\ ends' = ends + 1
          /\ UNCHANGED <<tries, done>>

Next == \/ \E n \in Node : Try(n) \/ Check(n)
        \/ \E o \in Outcome : End(o)

Spec == Init /\ [][Next]_contract
=============================================================================
