----------------------------- MODULE PumpProofs -----------------------------
(***************************************************************************)
(* Proofs about Pump, for any number of threads: the lock admits one pass at *)
(* a time, no request is lost, and every step is a step of PumpPromise.      *)
(***************************************************************************)
EXTENDS Pump, TLAPS

\* The owner of the lock is the one thread between try_lock and the release.
Owned == \A t \in Thread : holder = t <=> pc[t] \in Inside

\* A thread that has yet to look at the flag after the request was made.
Awake == requested /\ ~closed => \E t \in Thread : pc[t] # "away"

IInv == PumpTypeOK /\ Owned /\ Awake

\* Nobody owns the lock and nothing is requested at first.
LEMMA InitInv == PumpInit => IInv
BY NobodyAssumption DEF PumpInit, IInv, PumpTypeOK, Owned, Awake, Place, Inside

\* The types are kept by every step.
LEMMA StepTyped == PumpTypeOK /\ [PumpNext]_pumpVars => PumpTypeOK'
<1> SUFFICES ASSUME PumpTypeOK, [PumpNext]_pumpVars PROVE PumpTypeOK'
  OBVIOUS
<1> USE DEF PumpTypeOK, Place, Inside
<1>1. CASE Close
  BY <1>1 DEF Close
<1>2. ASSUME NEW t \in Thread, Call(t) PROVE PumpTypeOK'
  BY <1>2 DEF Call, Goes
<1>3. ASSUME NEW t \in Thread, Work(t) PROVE PumpTypeOK'
  BY <1>3 DEF Work, Enter, Store, TryLock, Swap, Pass, Unlock, Recheck, Goes,
              Free, AfterUnlock
<1>4. CASE UNCHANGED pumpVars
  BY <1>4 DEF pumpVars
<1> QED
  BY <1>1, <1>2, <1>3, <1>4 DEF PumpNext

\* try_lock is the only way in and the release the only way out.
LEMMA StepOwned == PumpTypeOK /\ Owned /\ [PumpNext]_pumpVars => Owned'
<1> SUFFICES ASSUME PumpTypeOK, Owned, [PumpNext]_pumpVars PROVE Owned'
  OBVIOUS
<1> USE NobodyAssumption DEF PumpTypeOK, Owned, Place, Inside
<1>1. CASE Close
  BY <1>1 DEF Close
<1>2. ASSUME NEW t \in Thread, Call(t) PROVE Owned'
  BY <1>2 DEF Call, Goes
<1>3. ASSUME NEW t \in Thread, Work(t) PROVE Owned'
  <2>1. CASE Enter(t)
    BY <2>1 DEF Enter, Goes
  <2>2. CASE Store(t)
    BY <2>2 DEF Store, Goes
  <2>3. CASE TryLock(t)
    BY <2>3 DEF TryLock, Goes, Free
  <2>4. CASE Swap(t)
    BY <2>4 DEF Swap, Goes
  <2>5. CASE Pass(t)
    BY <2>5 DEF Pass, Goes
  <2>6. CASE Unlock(t)
    BY <2>6 DEF Unlock, Goes
  <2>7. CASE Recheck(t)
    BY <2>7 DEF Recheck, Goes, AfterUnlock
  <2> QED
    BY <1>3, <2>1, <2>2, <2>3, <2>4, <2>5, <2>6, <2>7 DEF Work
<1>4. CASE UNCHANGED pumpVars
  BY <1>4 DEF pumpVars
<1> QED
  BY <1>1, <1>2, <1>3, <1>4 DEF PumpNext

\* A thread leaves with a request pending only if another owns the lock, or
\* if the service is closed.
LEMMA StepAwake == PumpTypeOK /\ Owned /\ Awake /\ [PumpNext]_pumpVars => Awake'
<1> SUFFICES ASSUME PumpTypeOK, Owned, Awake, [PumpNext]_pumpVars, requested', ~closed'
             PROVE  \E t \in Thread : pc'[t] # "away"
  BY DEF Awake
<1> USE DEF PumpTypeOK, Place, Inside
<1>1. CASE Close
  BY <1>1 DEF Close
<1>2. ASSUME NEW t \in Thread, Call(t) PROVE \E s \in Thread : pc'[s] # "away"
  <2>1. pc'[t] = "enter"
    BY <1>2 DEF Call, Goes
  <2> QED
    BY <2>1
<1>3. ASSUME NEW t \in Thread, Work(t) PROVE \E s \in Thread : pc'[s] # "away"
  <2>1. CASE TryLock(t) /\ ~Free
    <3>1. holder \in Thread /\ pc[holder] \in Inside
      BY <2>1 DEF Free, Owned
    <3>2. holder # t /\ pc'[holder] = pc[holder]
      BY <2>1, <3>1 DEF TryLock, Goes
    <3> QED
      BY <3>1, <3>2
  <2>2. CASE ~(TryLock(t) /\ ~Free)
    <3>1. pc'[t] # "away"
      BY <1>3, <2>2 DEF Work, Enter, Store, TryLock, Swap, Pass, Unlock,
                        Recheck, Goes, AfterUnlock
    <3> QED
      BY <3>1
  <2> QED
    BY <2>1, <2>2
<1>4. CASE UNCHANGED pumpVars
  BY <1>4 DEF pumpVars, Awake
<1> QED
  BY <1>1, <1>2, <1>3, <1>4 DEF PumpNext

\* The three parts together are inductive.
LEMMA StepInv == IInv /\ [PumpNext]_pumpVars => IInv'
BY StepTyped, StepOwned, StepAwake DEF IInv

\* So they hold in every state.
LEMMA Invariant == PumpSpec => []IInv
BY InitInv, StepInv, PTL DEF PumpSpec

\* The lock, the flag and the threads keep their types (pump).
THEOREM PumpTyped == PumpSpec => []PumpTypeOK
<1>1. IInv => PumpTypeOK BY DEF IInv
<1> QED BY Invariant, <1>1, PTL

\* Passes never overlap, for any number of threads (pump, `pumping`).
THEOREM Exclusive == PumpSpec => []OnePass
<1>1. IInv => OnePass
  BY DEF IInv, Owned, OnePass, Inside
<1> QED
  BY <1>1, Invariant, PTL

\* No request is lost, for any number of threads (pump, `pump_requested`).
THEOREM NothingLost == PumpSpec => []NoLostRequest
<1>1. IInv => NoLostRequest
  BY DEF IInv, Awake, NoLostRequest
<1> QED
  BY <1>1, Invariant, PTL

\* Every step of the flag and the lock is a step of the promise or a stutter.
LEMMA StepPromise == IInv /\ [PumpNext]_pumpVars => [Promise!Next]_(Promise!vars)
<1> SUFFICES ASSUME IInv, [PumpNext]_pumpVars PROVE [Promise!Next]_(Promise!vars)
  OBVIOUS
<1> DEFINE passing == \E t \in Thread : pc[t] = "pass"
<1> USE DEF IInv, PumpTypeOK, Place, Inside
<1>1. CASE Close
  BY <1>1 DEF Close, Promise!Next, Promise!Close
<1>2. ASSUME NEW t \in Thread, Call(t) PROVE [Promise!Next]_(Promise!vars)
  BY <1>2 DEF Call, Goes, Promise!vars
<1>3. ASSUME NEW t \in Thread, Work(t) PROVE [Promise!Next]_(Promise!vars)
  <2>1. CASE Enter(t)
    BY <2>1 DEF Enter, Goes, Promise!vars
  <2>2. CASE Store(t)
    BY <2>2 DEF Store, Goes, Promise!Next, Promise!Ask
  <2>3. CASE TryLock(t)
    BY <2>3 DEF TryLock, Goes, Promise!vars
  <2>4. CASE Swap(t)
    <3>1. pc[t] = "swap" /\ \A s \in Thread : s # t => pc[s] # "pass"
      BY <2>4 DEF Swap, Goes, Owned
    <3>2. ~passing
      BY <3>1
    <3>3. CASE requested
      <4>1. passing' /\ requested' = FALSE /\ UNCHANGED closed
        BY <2>4, <3>3 DEF Swap, Goes
      <4> QED
        BY <3>2, <3>3, <4>1 DEF Promise!Next, Promise!Begin
    <3>4. CASE ~requested
      <4>1. ~passing' /\ UNCHANGED <<requested, closed>>
        BY <2>4, <3>1, <3>4 DEF Swap, Goes
      <4> QED
        BY <3>2, <4>1 DEF Promise!vars
    <3> QED
      BY <3>3, <3>4
  <2>5. CASE Pass(t)
    <3>1. pc[t] = "pass" /\ \A s \in Thread : s # t => pc[s] # "pass"
      BY <2>5 DEF Pass, Goes, Owned
    <3>2. passing /\ ~passing' /\ UNCHANGED <<requested, closed>>
      BY <2>5, <3>1 DEF Pass, Goes
    <3> QED
      BY <3>2 DEF Promise!Next, Promise!Finish
  <2>6. CASE Unlock(t)
    BY <2>6 DEF Unlock, Goes, Promise!vars
  <2>7. CASE Recheck(t)
    BY <2>7 DEF Recheck, Goes, AfterUnlock, Promise!vars
  <2> QED
    BY <1>3, <2>1, <2>2, <2>3, <2>4, <2>5, <2>6, <2>7 DEF Work
<1>4. CASE UNCHANGED pumpVars
  BY <1>4 DEF pumpVars, Promise!vars
<1> QED
  BY <1>1, <1>2, <1>3, <1>4 DEF PumpNext

\* Pump implements the safety part of PumpPromise, for any number of threads.
THEOREM Implements == PumpSpec => Promise!Safe
<1>1. PumpInit => Promise!Init
  BY DEF PumpInit, Promise!Init
<1> QED
  BY <1>1, Invariant, StepPromise, PTL DEF PumpSpec, Promise!Safe
=============================================================================
