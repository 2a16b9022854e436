----------------------------- MODULE PumpPromise -----------------------------
(***************************************************************************)
(* What a caller of DownloadService::pump relies on                         *)
(* (crates/zvs-host/src/downloads/service.rs): passes over the queue do not  *)
(* overlap, and unless the service is closed one more pass begins after the  *)
(* call, however many calls fall together.                                   *)
(***************************************************************************)
VARIABLES wanted, passing, closed
vars == <<wanted, passing, closed>>

Init == wanted = FALSE /\ passing = FALSE /\ closed = FALSE

Ask == wanted' = TRUE /\ UNCHANGED <<passing, closed>>

\* A pass answers every call made before it begins.
Begin == wanted /\ ~passing /\ wanted' = FALSE /\ passing' = TRUE
         /\ UNCHANGED closed

Finish == passing /\ passing' = FALSE /\ UNCHANGED <<wanted, closed>>

Close == closed' = TRUE /\ UNCHANGED <<wanted, passing>>

Next == Ask \/ Begin \/ Finish \/ Close

Safe == Init /\ [][Next]_vars
Spec == Safe /\ WF_vars(~closed /\ Begin) /\ WF_vars(Finish)
=============================================================================
