----------------------------- MODULE MCDownloads -----------------------------
(* Small instances of Downloads for TLC. *)
EXTENDS Downloads, TLC
CONSTANTS d1, d2, r1, r2, u
MCItemOf == [d \in Download |-> d]
MCSymmetry == Permutations(Run) \cup Permutations(Call)
                  \cup Permutations(Download)

\* Commands that settle a row by what they read of it stay out.
MCNoSettling == \A c \in Call : at[c] \notin {"settling", "discarding", "unbound"}
=============================================================================
