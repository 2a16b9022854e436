--------------------------- MODULE MCConversation ---------------------------
(* A small instance of Conversation: two threads, and loads that each bring  *)
(* out some of the interplay: messages sent, put back and added again; a     *)
(* goal that gives way to a message; two processes that end close together;  *)
(* a message and a process; a goal, a process and a restart.  And one of     *)
(* Files, the tools that turns change files with: two runs and batches that  *)
(* overwrite, create, move and delete.  The two share no state; a behaviour  *)
(* is of one of them, and the variables of the other keep their initial      *)
(* state.                                                                    *)
EXTENDS Conversation, Files, TLC
CONSTANTS t1, t2, s1, s2, file1, file2, w1, w2

Bounds(ms, ss, gs, ts, fs, rs) ==
    [messages |-> ms, shells |-> ss, goals |-> gs, overlap |-> FALSE,
     turns |-> ts, refusals |-> fs, restarts |-> rs]

MCQueue == Bounds({1, 2}, {}, FALSE, 2, 1, 0)
MCGoal == Bounds({1}, {}, TRUE, 2, 1, 0)
MCWake == Bounds({}, Shells, FALSE, 3, 1, 0)
MCBoth == Bounds({1}, {s1}, FALSE, 2, 1, 0)
MCRestart == Bounds({}, {s1}, TRUE, 2, 0, 1)
MCOverlap == [Bounds({1}, {s1}, FALSE, 2, 0, 0) EXCEPT !.overlap = TRUE]

MCLoads == {MCQueue, MCGoal, MCWake, MCBoth, MCRestart, MCOverlap}

Creates(f) == [kind |-> "write", path |-> f, to |-> NoFile]
Edits(f) == [kind |-> "edit", path |-> f, to |-> NoFile]
Deletes(f) == [kind |-> "delete", path |-> f, to |-> NoFile]
Moves(f, g) == [kind |-> "move", path |-> f, to |-> g]

MCBatch == {<<Creates(file1)>>, <<Edits(file1), Creates(file2)>>,
            <<Moves(file1, file2), Edits(file2)>>, <<Deletes(file1)>>}

MCSymmetry == Permutations(Threads) \cup Permutations(Worker)

VARIABLE who    \* the component the behaviour is of

TurnsInit ==
    /\ Init /\ FilesInit /\ who \in {"conversation", "files"}
    /\ who = "files" => load = MCQueue
OfConversation(step) == who = "conversation" /\ step /\ UNCHANGED <<filesVars, who>>
OfFiles(step) == who = "files" /\ step /\ UNCHANGED <<vars, who>>
TurnsNext == OfConversation(Next) \/ OfFiles(FilesNext)
TurnsSpec == TurnsInit /\ [][TurnsNext]_<<vars, filesVars, who>>

(* The types of both.                                                        *)
TypesOK == TypeOK /\ FilesTypeOK
=============================================================================
