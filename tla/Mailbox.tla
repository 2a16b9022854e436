------------------------------ MODULE Mailbox ------------------------------
(* What the queue of a conversation promises for the messages written while  *)
(* a turn runs: each waits until it is stored, once, or is taken back.       *)
EXTENDS Sequences, SequencesExt

CONSTANT Messages

VARIABLES waiting, stored, gone

box == <<waiting, stored, gone>>

Init == waiting = {} /\ stored = <<>> /\ gone = {}

Write(m) ==
    /\ m \notin waiting \cup ToSet(stored) \cup gone
    /\ waiting' = waiting \cup {m}
    /\ UNCHANGED <<stored, gone>>

(* Some of the waiting messages become messages of the conversation.         *)
Store ==
    /\ stored' = stored \o SubSeq(stored', Len(stored) + 1, Len(stored'))
    /\ IsInjective(stored')
    /\ ToSet(stored') \ ToSet(stored) \subseteq waiting
    /\ waiting' = waiting \ ToSet(stored')
    /\ UNCHANGED gone

(* Some of them are removed by the person, or lost with the process.         *)
Withdraw ==
    /\ gone \subseteq gone' /\ gone' \ gone \subseteq waiting
    /\ waiting' = waiting \ gone'
    /\ UNCHANGED stored

Next == (\E m \in Messages : Write(m)) \/ Store \/ Withdraw

Spec == Init /\ [][Next]_box
=============================================================================
