--------------------------- MODULE DownloadsProofs ---------------------------
(***************************************************************************)
(* The cap on rows that are `running`, that none of them is forgotten, and   *)
(* what keeps the transfers within the cap, for any number of downloads,     *)
(* runs and commands and every setting of the concurrency.                   *)
(***************************************************************************)
EXTENDS Downloads, FiniteSetTheorems, TLAPS

Status == Active \cup Terminal \cup {"none", "gone"}

\* What a pass has taken of the cap: the slots it counted, then the rows it was
\* handed, which are not `running` yet.
Taken == Cardinality(With("running")) + slots + Cardinality(batch)

\* A pass counts before it picks and picks before it marks; whatever the others
\* do in between only makes `running` rows fewer, so the count stays good.
CapInv == /\ row \in [Download -> Status]
          /\ slots \in Nat
          /\ batch \subseteq Download
          /\ pump \in {"rest", "pick"} => batch = {}
          /\ pump # "pick" => slots = 0
          /\ Taken <= Concurrency

\* Sets of downloads are finite and have a size.
LEMMA Sizes ==
    ASSUME NEW S \in SUBSET Download
    PROVE  IsFiniteSet(S) /\ Cardinality(S) \in Nat
<1>1. IsFiniteSet(S)
  BY PoolAssumption, FS_Subset
<1> QED
  BY <1>1, FS_CardinalityType

\* A step that makes no row `running` and takes no slot keeps the cap.
LEMMA Fewer ==
    ASSUME CapInv, row' \in [Download -> Status],
           With("running")' \subseteq With("running"),
           slots' = slots, batch' = batch, pump' = pump
    PROVE  CapInv'
<1>1. With("running") \in SUBSET Download /\ IsFiniteSet(With("running"))
  <2>1. With("running") \in SUBSET Download
    BY DEF With
  <2> QED
    BY <2>1, Sizes
<1>2. Cardinality(With("running")') <= Cardinality(With("running"))
  BY <1>1, FS_Subset
<1>3. /\ Cardinality(With("running")') \in Nat
      /\ Cardinality(With("running")) \in Nat
  BY <1>1, FS_Subset, FS_CardinalityType
<1>4. Cardinality(batch) \in Nat
  BY Sizes DEF CapInv
<1> QED
  BY <1>2, <1>3, <1>4, CapAssumption DEF CapInv, Taken

\* A verdict other than `running`, written by whoever, is such a step.
LEMMA WriteKeeps ==
    ASSUME CapInv, NEW d, NEW s \in Status \ {"running"}, Write(d, s)
    PROVE  /\ row' \in [Download -> Status]
           /\ With("running")' \subseteq With("running")
  BY DEF CapInv, Write, With

\* An empty queue takes nothing.
LEMMA CapInitially == Init => CapInv
<1> SUFFICES ASSUME Init PROVE CapInv
  OBVIOUS
<1>1. With("running") = {} /\ batch = {}
  BY DEF Init, With
<1>2. Cardinality({}) = 0
  BY FS_EmptySet
<1> QED
  BY <1>1, <1>2, CapAssumption DEF Init, CapInv, Taken, Status, Active, Terminal

-----------------------------------------------------------------------------
(* The pass. *)

\* The count takes the free slots and no more.
LEMMA PassCap == ASSUME CapInv, Pass PROVE CapInv'
<1> DEFINE R == Cardinality(With("running"))
<1>1. R \in Nat
  BY Sizes DEF With
<1>2. batch = {} /\ Cardinality({}) = 0
  BY FS_EmptySet DEF Pass, CapInv
<1>3. FreeSlots \in Nat /\ (R <= Concurrency => R + FreeSlots <= Concurrency)
  BY <1>1, CapAssumption DEF FreeSlots
<1>4. R <= Concurrency
  BY <1>1, <1>2, CapAssumption DEF CapInv, Taken
<1>5. /\ With("running")' = With("running")
      /\ row' = row /\ batch' = {} /\ slots' = FreeSlots
      /\ pump' = IF slots' = 0 THEN "rest" ELSE "pick"
  BY <1>2 DEF Pass, rows, With
<1> QED
  BY <1>1, <1>2, <1>3, <1>4, <1>5 DEF CapInv, Taken

\* The batch has no more rows than slots were counted.
LEMMA PickCap == ASSUME CapInv, Pick PROVE CapInv'
<1> DEFINE R == Cardinality(With("running"))
<1>1. R \in Nat
  BY Sizes DEF With
<1>2. /\ batch' \subseteq Download /\ Cardinality(batch') <= slots
      /\ slots' = 0 /\ pump' = "next" /\ row' = row
  BY DEF Pick, rows, With
<1>3. Cardinality(batch') \in Nat
  BY <1>2, Sizes
<1>4. batch = {} /\ Cardinality({}) = 0
  BY FS_EmptySet DEF Pick, CapInv
<1>5. With("running")' = With("running")
  BY <1>2 DEF With
<1> QED
  BY <1>1, <1>2, <1>3, <1>4, <1>5, CapAssumption DEF CapInv, Taken

\* The only step that makes a row `running` pays for it with a row of the batch.
LEMMA MarkCap == ASSUME CapInv, Mark PROVE CapInv'
<1>1. CASE batch = {}
  <2>1. row' = row /\ slots' = slots /\ batch' = batch /\ pump' = "rest"
    BY <1>1 DEF Mark
  <2>2. With("running")' = With("running")
    BY <2>1 DEF With
  <2> QED
    BY <1>1, <2>1, <2>2 DEF CapInv, Taken, Mark
<1>2. CASE batch # {}
  <2>1. PICK d \in batch : /\ batch' = batch \ {d}
                           /\ Write(d, "running")
                           /\ pump' = "start" /\ slots' = slots
    BY <1>2 DEF Mark
  <2>2. /\ row' \in [Download -> Status]
        /\ With("running")' \subseteq With("running") \cup {d}
    BY <2>1 DEF CapInv, Write, With, Status, Active
  <2>3. /\ IsFiniteSet(With("running")) /\ IsFiniteSet(batch)
        /\ Cardinality(With("running")) \in Nat /\ Cardinality(batch) \in Nat
    BY Sizes DEF With, CapInv
  <2>4. /\ Cardinality(batch') = Cardinality(batch) - 1
        /\ Cardinality(batch') \in Nat
    BY <2>1, <2>3, FS_RemoveElement, Sizes DEF CapInv
  <2>5. Cardinality(With("running") \cup {d}) <= Cardinality(With("running")) + 1
    <3>1. Cardinality(With("running") \cup {d})
            \in {Cardinality(With("running")), Cardinality(With("running")) + 1}
      BY <2>3, FS_AddElement
    <3> QED
      BY <3>1, <2>3
  <2>6. /\ Cardinality(With("running")') <= Cardinality(With("running") \cup {d})
        /\ Cardinality(With("running")') \in Nat
        /\ Cardinality(With("running") \cup {d}) \in Nat
    <3>1. IsFiniteSet(With("running") \cup {d})
      BY <2>3, FS_AddElement
    <3> QED
      BY <3>1, <2>2, FS_Subset, FS_CardinalityType
  <2>7. /\ batch' \subseteq Download /\ slots' \in Nat
        /\ slots = 0 /\ pump' = "start"
    BY <2>1 DEF CapInv, Mark
  <2> QED
    BY <2>1, <2>2, <2>3, <2>4, <2>5, <2>6, <2>7, CapAssumption DEF CapInv, Taken
<1> QED
  BY <1>1, <1>2

-----------------------------------------------------------------------------
(* The rest of the launch moves the pump but leaves slots and batch alone. *)

\* Between two rows of the batch the pump may go anywhere but to a count.
LEMMA FewerOnTheWay ==
    ASSUME CapInv, row' \in [Download -> Status],
           With("running")' \subseteq With("running"),
           slots' = slots, batch' = batch,
           pump \notin {"rest", "pick"}, pump' \notin {"rest", "pick"}
    PROVE  CapInv'
<1>1. With("running") \in SUBSET Download /\ IsFiniteSet(With("running"))
  BY Sizes DEF With
<1>2. /\ Cardinality(With("running")') <= Cardinality(With("running"))
      /\ Cardinality(With("running")') \in Nat
      /\ Cardinality(With("running")) \in Nat
  BY <1>1, FS_Subset, FS_CardinalityType
<1>3. Cardinality(batch) \in Nat
  BY Sizes DEF CapInv
<1> QED
  BY <1>2, <1>3, CapAssumption DEF CapInv, Taken

\* No step of launch after the mark makes a row `running`.
LEMMA LaunchCap ==
    ASSUME CapInv, Start \/ Bind \/ Watch \/ Check \/ FailLaunched
    PROVE  CapInv'
<1>1. /\ slots' = slots /\ batch' = batch
      /\ pump \notin {"rest", "pick"} /\ pump' \notin {"rest", "pick"}
  BY DEF Start, Bind, Watch, Check, FailLaunched, Launched
<1>2. row' = row \/ Write(current, "failed")
  BY DEF Start, Bind, Watch, Check, FailLaunched, rows
<1>3. /\ row' \in [Download -> Status]
      /\ With("running")' \subseteq With("running")
  BY <1>2, WriteKeeps DEF CapInv, With, Status, Active, Terminal
<1> QED
  BY <1>1, <1>3, FewerOnTheWay

-----------------------------------------------------------------------------
(* Runs, commands and the host. *)

\* A run only writes verdicts.
LEMMA RunCap == ASSUME CapInv, NEW r \in Run, RunStep(r) PROVE CapInv'
<1>1. /\ slots' = slots /\ batch' = batch /\ pump' = pump
  BY DEF RunStep, Fetch, Break, Land, TransferFails, Interrupted, Leave, End,
         Publish, MarkEnded, StopRun, pass
<1>2. row' = row \/ \E s \in Status \ {"running"} : Write(of[r], s)
  BY DEF RunStep, Fetch, Break, Land, TransferFails, Interrupted, Leave, End,
         Publish, MarkEnded, StopRun, rows, Status, Active, Terminal
<1>3. /\ row' \in [Download -> Status]
      /\ With("running")' \subseteq With("running")
  BY <1>2, WriteKeeps DEF CapInv, With
<1> QED
  BY <1>1, <1>3, Fewer

\* A command never makes a row `running`.
LEMMA CallCap == ASSUME CapInv, NEW c \in Call, CallStep(c) PROVE CapInv'
<1> USE DEF CallStep, AskStart, AskPause, AskCancel, AskResume, AskRemove, Asks,
            Create, Settle, Discard, Resume, Remove, Intend, SettleUnbound,
            Abort, Await
<1>1. /\ slots' = slots /\ batch' = batch /\ pump' = pump
  BY DEF Returns, pass
<1>2. \/ row' = row
      \/ \E s \in Status \ {"running"} :
           \/ Write(target[c], s)
           \/ row' = [row EXCEPT ![target[c]] = s]
  BY DEF rows, Status, Active, Terminal
<1>3. /\ row' \in [Download -> Status]
      /\ With("running")' \subseteq With("running")
  BY <1>2, WriteKeeps DEF CapInv, With
<1> QED
  BY <1>1, <1>3, Fewer

\* A new process counts afresh; recover empties the slots.
LEMMA HostCap == ASSUME CapInv, HostStep PROVE CapInv'
<1>1. CASE Exit
  <2>1. /\ row' = row /\ slots' = 0 /\ batch' = {} /\ pump' = "rest"
        /\ With("running")' = With("running")
    BY <1>1 DEF Exit, rows, With
  <2>2. /\ Cardinality(With("running")) \in Nat /\ Cardinality(batch) \in Nat
        /\ Cardinality({}) = 0
    BY Sizes, FS_EmptySet DEF With, CapInv
  <2> QED
    BY <2>1, <2>2, CapAssumption DEF CapInv, Taken
<1>2. CASE Dispose \/ Suspend \/ Attach \/ Attached \/ Recover
  <2>1. slots' = slots /\ batch' = batch /\ pump' = pump
    BY <1>2 DEF Dispose, Suspend, Attach, Attached, Recover, pass
  <2>2. row' = row \/ row' = Requeued
    BY <1>2 DEF Dispose, Suspend, Attach, Attached, Recover, rows
  <2>3. /\ row' \in [Download -> Status]
        /\ With("running")' \subseteq With("running")
    BY <2>2 DEF CapInv, With, Requeued, Status, Active
  <2> QED
    BY <2>1, <2>3, Fewer
<1> QED
  BY <1>1, <1>2 DEF HostStep

\* Every step keeps the cap.
LEMMA CapStep == CapInv /\ [Next]_vars => CapInv'
<1> SUFFICES ASSUME CapInv, [Next]_vars PROVE CapInv'
  OBVIOUS
<1>1. CASE PumpStep
  BY <1>1, PassCap, PickCap, MarkCap, LaunchCap DEF PumpStep
<1>2. CASE HostStep
  BY <1>2, HostCap
<1>3. CASE \E r \in Run : RunStep(r)
  BY <1>3, RunCap
<1>4. CASE \E c \in Call : CallStep(c)
  BY <1>4, CallCap
<1>5. CASE UNCHANGED vars
  BY <1>5, Fewer DEF vars, rows, pass, CapInv, With
<1> QED
  BY <1>1, <1>2, <1>3, <1>4, <1>5 DEF Next

\* No command, late end or restart between the count of the free slots and the
\* launch of a row makes the queue exceed its setting (pump_once, launch).
THEOREM Cap == Spec => []CapRespected
<1>1. CapInv => CapRespected
  <2> SUFFICES ASSUME CapInv PROVE CapRespected
    OBVIOUS
  <2>1. Cardinality(With("running")) \in Nat /\ Cardinality(batch) \in Nat
    BY Sizes DEF With, CapInv
  <2> QED
    BY <2>1, CapAssumption DEF CapInv, CapRespected, Taken
<1> QED
  BY <1>1, CapInitially, CapStep, PTL DEF Spec

-----------------------------------------------------------------------------
(* No row stays `running` with nothing behind it. *)

\* The pump knows the run it has just started, and after the subscription the
\* service hears its end unless it has come already.
FreshInv ==
    /\ phase \in [Run -> {"none", "active", "fetching", "settled", "finished",
                          "marking", "ended"}]
    /\ of \in [Run -> Download \cup {NoDownload}]
    /\ current \in Download \cup {NoDownload}
    /\ pump \in {"bind", "watch", "check"} =>
         /\ fresh \in Run /\ phase[fresh] # "none"
         /\ phase[fresh] # "ended" => of[fresh] = current
    /\ pump = "check" => phase[fresh] = "ended" \/ fresh \in watched

\* Until the run service is suspended every `running` row has somebody who will
\* answer for it; what a new process finds `running` is recover's business.
Standing == host \in {"up", "closing"} => \A d \in With("running") : Backed(d)

StandInv == FreshInv /\ Standing

\* Who answers for a row goes on doing so if the pump and the runs stay.
LEMMA StillBacked ==
    ASSUME Standing, With("running")' \subseteq With("running"),
           host' \in {"up", "closing"} => host \in {"up", "closing"},
           UNCHANGED <<pump, current, phase, of, watched>>
    PROVE  Standing'
BY DEF Standing, Backed

\* An empty queue has nothing to answer for.
LEMMA StandInitially == Init => StandInv
BY DEF Init, StandInv, FreshInv, Standing, With

\* A write of another verdict leaves no new `running` row, and none at all for
\* the row it is about.
LEMMA Unruns ==
    ASSUME row \in [Download -> Status], NEW d, NEW s \in Status \ {"running"},
           Write(d, s)
    PROVE  With("running")' \subseteq With("running") \ {d}
BY DEF Write, With, Status, Active, Terminal

\* The count, the choice and the end of a pass concern no row.
LEMMA PassStand ==
    ASSUME CapInv, StandInv, Pass \/ Pick PROVE StandInv'
<1>1. /\ With("running")' = With("running") /\ host' = host
      /\ UNCHANGED <<current, phase, of, watched>>
      /\ pump \in {"rest", "pick"} /\ pump' \in {"rest", "pick", "next"}
  BY DEF Pass, Pick, rows, runs, With
<1>2. FreshInv'
  BY <1>1 DEF StandInv, FreshInv
<1>3. Standing'
  BY <1>1 DEF StandInv, Standing, Backed, Launching
<1> QED
  BY <1>2, <1>3 DEF StandInv

\* The row that becomes `running` is the one the launch is at.
LEMMA MarkStand ==
    ASSUME CapInv, StandInv, Mark PROVE StandInv'
<1>1. /\ host' = host /\ UNCHANGED <<phase, of, watched>>
      /\ pump = "next" /\ pump' \in {"rest", "start"}
      /\ current' = current \/ current' \in Download
  BY DEF Mark, runs, CapInv
<1>2. FreshInv'
  BY <1>1 DEF StandInv, FreshInv
<1>3. \A d \in With("running")' :
        d \in With("running") \/ (pump' = "start" /\ current' = d)
  BY DEF Mark, Write, With, CapInv
<1>4. Standing'
  BY <1>1, <1>3 DEF StandInv, Standing, Backed, Launching
<1> QED
  BY <1>2, <1>4 DEF StandInv

\* A launch that goes on is still at its row.
LEMMA LaunchStand ==
    ASSUME CapInv, StandInv, Start \/ Bind \/ Watch PROVE StandInv'
<1>1. host' = host /\ pump \in Launching
  BY DEF Start, Bind, Watch, Launching
<1>2. CASE host = "suspended" /\ Start
  <2>1. FreshInv'
    BY <1>2 DEF StandInv, FreshInv, Start, Launched, runs
  <2> QED
    BY <1>1, <1>2, <2>1 DEF StandInv, Standing
<1>3. CASE host # "suspended" /\ Start
  <2>1. PICK r \in Run :
          /\ phase[r] = "none" /\ phase' = [phase EXCEPT ![r] = "active"]
          /\ of' = [of EXCEPT ![r] = current]
          /\ watched' = watched /\ fresh' = r /\ pump' = "bind"
          /\ row' = row /\ current' = current
    BY <1>3 DEF Start
  <2>2. FreshInv'
    BY <1>3, <2>1 DEF StandInv, FreshInv, Start
  <2>3. \A q \in Run : phase[q] \notin Over => phase'[q] = phase[q] /\ of'[q] = of[q]
    BY <2>1 DEF Over, StandInv, FreshInv
  <2>4. \A d \in With("running") : Backed(d) => Backed(d)'
    BY <1>1, <2>1, <2>3 DEF Backed, Launching
  <2> QED
    BY <1>1, <2>1, <2>2, <2>4 DEF StandInv, Standing, With
<1>4. CASE Bind \/ Watch
  <2>1. /\ row' = row /\ UNCHANGED <<current, fresh, phase, of>>
        /\ watched \subseteq watched' /\ pump' \in {"watch", "check"}
    BY <1>4 DEF Bind, Watch, rows, runs
  <2>2. FreshInv'
    BY <1>4, <2>1 DEF StandInv, FreshInv, Bind, Watch
  <2>3. \A d \in With("running") : Backed(d) => Backed(d)'
    BY <1>1, <2>1 DEF Backed, Launching
  <2> QED
    BY <1>1, <2>1, <2>2, <2>3 DEF StandInv, Standing, With
<1> QED
  BY <1>2, <1>3, <1>4

\* The look after the subscription: a launch leaves a `running` row only to a
\* run that has not finished and is heard.
LEMMA CheckStand ==
    ASSUME CapInv, StandInv, Check PROVE StandInv'
<1>1. /\ row' = row /\ host' = host /\ UNCHANGED <<phase, of, watched>>
      /\ pump = "check" /\ pump' \in {"fail", "next"}
      /\ current' \in {current, NoDownload}
  BY DEF Check, rows, runs, Launched
<1>2. FreshInv'
  BY <1>1 DEF StandInv, FreshInv
<1>3. CASE Finished /\ row[current] = "running"
  <2>1. pump' = "fail" /\ current' = current
    BY <1>3 DEF Check
  <2> QED
    BY <1>1, <1>2, <2>1 DEF StandInv, Standing, Backed, Launching, With
<1>4. CASE ~(Finished /\ row[current] = "running")
  <2>1. ASSUME NEW d \in With("running"), Backed(d)
        PROVE  Backed(d)'
    <3>1. CASE current = d
      <4>1. ~Finished
        BY <1>4, <2>1, <3>1 DEF With
      <4>2. /\ fresh \in Run /\ of[fresh] = d /\ fresh \in watched
            /\ phase[fresh] \notin Over
        BY <1>1, <3>1, <4>1 DEF StandInv, FreshInv, Finished, Over
      <4> QED
        BY <1>1, <4>2 DEF Backed
    <3>2. CASE current # d
      BY <1>1, <2>1, <3>2 DEF Backed
    <3> QED
      BY <3>1, <3>2
  <2> QED
    BY <1>1, <1>2, <2>1 DEF StandInv, Standing, With
<1> QED
  BY <1>3, <1>4

\* A launch that gives up fails its row.
LEMMA FailStand ==
    ASSUME CapInv, StandInv, FailLaunched PROVE StandInv'
<1>1. /\ host' = host /\ UNCHANGED <<phase, of, watched>>
      /\ pump = "fail" /\ pump' = "next" /\ current' = NoDownload
  BY DEF FailLaunched, runs, Launched
<1>2. With("running")' \subseteq With("running") \ {current}
  BY Unruns DEF FailLaunched, CapInv, Status, Terminal
<1>3. FreshInv'
  BY <1>1 DEF StandInv, FreshInv
<1>4. \A d \in With("running") \ {current} : Backed(d) => Backed(d)'
  BY <1>1 DEF Backed
<1> QED
  BY <1>1, <1>2, <1>3, <1>4 DEF StandInv, Standing

-----------------------------------------------------------------------------
(* Runs, commands and the host leave nobody behind either. *)

\* What a run's move does to the books.
LEMMA MoveFresh ==
    ASSUME FreshInv, NEW r \in Run,
           NEW from \in {"active", "fetching", "settled", "finished", "marking"},
           NEW to \in {"fetching", "settled", "finished", "marking", "ended"},
           Moves(r, from, to), UNCHANGED <<pump, current, fresh>>
    PROVE  /\ FreshInv'
           /\ host' = host
           /\ \A q \in Run \ {r} : /\ phase'[q] = phase[q] /\ of'[q] = of[q]
                                   /\ q \in watched' <=> q \in watched
           /\ to # "ended" => /\ phase'[r] \notin Over /\ of'[r] = of[r]
                              /\ r \in watched' <=> r \in watched
<1>1. /\ phase[r] = from /\ phase' = [phase EXCEPT ![r] = to]
      /\ IF to = "ended"
           THEN of' = [of EXCEPT ![r] = NoDownload] /\ watched' = watched \ {r}
           ELSE of' = of /\ watched' = watched
      /\ host' = host
  BY DEF Moves
<1>2. \A q \in Run : phase'[q] = IF q = r THEN to ELSE phase[q]
  BY <1>1 DEF FreshInv
<1>3. \A q \in Run : of'[q] = IF q = r /\ to = "ended" THEN NoDownload ELSE of[q]
  BY <1>1 DEF FreshInv
<1>4. /\ phase' \in [Run -> {"none", "active", "fetching", "settled", "finished",
                             "marking", "ended"}]
      /\ of' \in [Run -> Download \cup {NoDownload}]
  BY <1>1 DEF FreshInv
<1>5. FreshInv'
  BY <1>1, <1>2, <1>3, <1>4 DEF FreshInv
<1> QED
  BY <1>1, <1>2, <1>3, <1>5 DEF Over

\* A run that goes on still answers; one that ends has settled its row, or had
\* it settled for it.
LEMMA RunStand ==
    ASSUME CapInv, StandInv, NEW r \in Run, RunStep(r) PROVE StandInv'
<1>1. UNCHANGED <<pump, current, fresh>>
  BY DEF RunStep, Fetch, Break, Land, TransferFails, Interrupted, Leave, End,
         Publish, MarkEnded, StopRun, pass
<1>2. With("running")' \subseteq With("running")
  <2>1. row' = row \/ \E s \in Status \ {"running"} : Write(of[r], s)
    BY DEF RunStep, Fetch, Break, Land, TransferFails, Interrupted, Leave, End,
           Publish, MarkEnded, StopRun, rows, Status, Active, Terminal
  <2> QED
    BY <2>1, WriteKeeps DEF CapInv, With
<1>3. ASSUME NEW from \in {"active", "fetching", "settled"},
             NEW to \in {"fetching", "settled", "finished"},
             Moves(r, from, to)
      PROVE  StandInv'
  <2>1. FreshInv' /\ host' = host
    BY <1>1, <1>3, MoveFresh DEF StandInv
  <2>2. \A q \in Run : /\ phase[q] \notin Over => phase'[q] \notin Over
                       /\ of'[q] = of[q]
                       /\ q \in watched' <=> q \in watched
    BY <1>1, <1>3, MoveFresh DEF StandInv
  <2>3. \A d : Backed(d) => Backed(d)'
    BY <1>1, <2>2 DEF Backed
  <2> QED
    BY <1>2, <2>1, <2>3 DEF StandInv, Standing
<1>4. CASE Fetch(r) \/ Break(r)
  <2>1. \E to \in {"fetching", "settled"} : Moves(r, "active", to)
    BY <1>4 DEF Fetch, Break
  <2> QED
    BY <1>3, <2>1
<1>5. CASE Land(r) \/ TransferFails(r) \/ Interrupted(r)
  BY <1>3, <1>5 DEF Land, TransferFails, Interrupted, Leave
<1>6. CASE End(r)
  <2>1. CASE host = "suspended"
    <3>1. Moves(r, "settled", "ended")
      BY <1>6, <2>1 DEF End
    <3>2. FreshInv' /\ host' = host
      BY <1>1, <3>1, MoveFresh DEF StandInv
    <3> QED
      BY <2>1, <3>2 DEF StandInv, Standing
  <2>2. CASE host # "suspended"
    BY <1>3, <1>6, <2>2 DEF End
  <2> QED
    BY <2>1, <2>2
<1>7. CASE Publish(r) \/ MarkEnded(r)
  <2>1. PICK from \in {"finished", "marking"}, to \in {"marking", "ended"} :
          /\ Moves(r, from, to)
          /\ to = "ended" => \A d \in With("running")' : r \in watched => of[r] # d
    <3>1. CASE Publish(r)
      <4>1. Moves(r, "finished", IF Accused(r) THEN "marking" ELSE "ended")
            /\ With("running")' = With("running")
        BY <3>1 DEF Publish, rows, With
      <4>2. CASE Accused(r)
        BY <4>1, <4>2
      <4>3. CASE ~Accused(r)
        BY <4>1, <4>3 DEF Accused, With
      <4> QED
        BY <4>2, <4>3
    <3>2. CASE MarkEnded(r)
      <4>1. Moves(r, "marking", "ended") /\ Write(of[r], "failed")
        BY <3>2 DEF MarkEnded
      <4>2. With("running")' \subseteq With("running") \ {of[r]}
        BY <4>1, Unruns DEF CapInv, Status, Terminal
      <4> QED
        BY <4>1, <4>2
    <3> QED
      BY <1>7, <3>1, <3>2
  <2>2. FreshInv' /\ host' = host
    BY <1>1, <2>1, MoveFresh DEF StandInv
  <2>3. /\ \A q \in Run \ {r} : /\ phase'[q] = phase[q] /\ of'[q] = of[q]
                                /\ q \in watched' <=> q \in watched
        /\ to # "ended" => /\ phase'[r] \notin Over /\ of'[r] = of[r]
                           /\ r \in watched' <=> r \in watched
    BY <1>1, <2>1, MoveFresh DEF StandInv
  <2>4. \A d \in With("running")' : Backed(d) => Backed(d)'
    BY <1>1, <2>1, <2>3 DEF Backed
  <2> QED
    BY <1>2, <2>2, <2>4 DEF StandInv, Standing
<1>8. CASE StopRun(r)
  <2>1. UNCHANGED <<phase, of, watched, host>>
    BY <1>8 DEF StopRun
  <2>2. FreshInv'
    BY <1>1, <2>1 DEF StandInv, FreshInv
  <2> QED
    BY <1>1, <1>2, <2>1, <2>2, StillBacked DEF StandInv
<1> QED
  BY <1>4, <1>5, <1>6, <1>7, <1>8 DEF RunStep

\* No command makes a row `running` or touches a run's end.
LEMMA CallStand ==
    ASSUME CapInv, StandInv, NEW c \in Call, CallStep(c) PROVE StandInv'
<1> USE DEF CallStep, AskStart, AskPause, AskCancel, AskResume, AskRemove, Asks,
            Create, Settle, Discard, Resume, Remove, Intend, SettleUnbound,
            Abort, Await
<1>1. UNCHANGED <<pump, current, fresh, phase, of, watched, host>>
  BY DEF Returns, pass, runs
<1>2. \/ row' = row
      \/ \E s \in Status \ {"running"} :
           \/ Write(target[c], s)
           \/ row' = [row EXCEPT ![target[c]] = s]
  BY DEF rows, Status, Active, Terminal
<1>3. With("running")' \subseteq With("running")
  BY <1>2, WriteKeeps DEF CapInv, With
<1>4. FreshInv'
  BY <1>1 DEF StandInv, FreshInv
<1> QED
  BY <1>1, <1>3, <1>4, StillBacked DEF StandInv

\* A new process finds no run and a pump at rest; when recover has been, no row
\* is `running`.
LEMMA HostStand ==
    ASSUME CapInv, StandInv, HostStep PROVE StandInv'
<1>1. CASE Exit
  <2>1. FreshInv'
    BY <1>1 DEF Exit, StandInv, FreshInv
  <2> QED
    BY <1>1, <2>1 DEF Exit, StandInv, Standing
<1>2. CASE Dispose \/ Suspend \/ Attach \/ Attached
  <2>1. /\ UNCHANGED <<pump, current, fresh, phase, of, watched, row>>
        /\ host' \in {"up", "closing"} => host \in {"up", "closing"}
    BY <1>2 DEF Dispose, Suspend, Attach, Attached, pass, runs, rows
  <2>2. FreshInv'
    BY <2>1 DEF StandInv, FreshInv
  <2>3. With("running")' = With("running")
    BY <2>1 DEF With
  <2> QED
    BY <2>1, <2>2, <2>3, StillBacked DEF StandInv
<1>3. CASE Recover
  <2>1. FreshInv'
    BY <1>3 DEF Recover, runs, StandInv, FreshInv
  <2>2. With("running")' = {}
    BY <1>3 DEF Recover, Requeued, With
  <2> QED
    BY <2>1, <2>2 DEF StandInv, Standing
<1> QED
  BY <1>1, <1>2, <1>3 DEF HostStep

\* Every step keeps an answer for every row.
LEMMA StandStep == CapInv /\ StandInv /\ [Next]_vars => StandInv'
<1> SUFFICES ASSUME CapInv, StandInv, [Next]_vars PROVE StandInv'
  OBVIOUS
<1>1. CASE PumpStep
  BY <1>1, PassStand, MarkStand, LaunchStand, CheckStand, FailStand DEF PumpStep
<1>2. CASE HostStep
  BY <1>2, HostStand
<1>3. CASE \E r \in Run : RunStep(r)
  BY <1>3, RunStand
<1>4. CASE \E c \in Call : CallStep(c)
  BY <1>4, CallStand
<1>5. CASE UNCHANGED vars
  BY <1>5 DEF vars, rows, runs, pass, StandInv, FreshInv, Standing, Backed, With
<1> QED
  BY <1>1, <1>2, <1>3, <1>4, <1>5 DEF Next

\* In whatever order a run ends, is stopped or breaks while its launch is still
\* binding and subscribing, no row stays `running` with nobody left to settle
\* it (launch, run_ended, recover).
THEOREM Answered == Spec => []NoneStranded
<1>1. Init => CapInv /\ StandInv
  BY CapInitially, StandInitially
<1>2. CapInv /\ StandInv /\ [Next]_vars => CapInv' /\ StandInv'
  BY CapStep, StandStep
<1>3. StandInv => NoneStranded
  BY DEF StandInv, Standing, NoneStranded
<1> QED
  BY <1>1, <1>2, <1>3, PTL DEF Spec
-----------------------------------------------------------------------------
(* Transfers within the cap, if nobody settles a row that is being worked at. *)

Busy == {"active", "fetching"}

\* A run of d is at work, or about to be started.
AtWork(d) == \/ pump = "start" /\ current = d
             \/ \E r \in Run : phase[r] \in Busy /\ of[r] = d

\* What breaks the cap on transfers, and all that does: a command that settles a
\* row by what it has read of it before, the late end of an earlier run, and a
\* start that finds rows launched by its own pump (pause, run_ended, recover).
Undisturbed ==
    /\ \A c \in Call :
         at[c] \in {"creating", "settling", "discarding", "resuming", "removing", "unbound"}
           => ~AtWork(target[c])
    /\ \A r \in Run : phase[r] = "marking" => ~AtWork(of[r])
    /\ host = "starting" => \A d \in Download : ~AtWork(d)

\* A busy run has a `running` row to itself, unless it was removed before the
\* run could look at it; the row of a batch has none, and that of the launch
\* only the run it has started.
Working(r) == \/ row[of[r]] = "running"
              \/ row[of[r]] = "gone" /\ phase[r] = "active"
Sole ==
    \A r \in Run : phase[r] \in Busy =>
        /\ of[r] \in Download /\ Working(r)
        /\ \A q \in Run : phase[q] \in Busy /\ of[q] = of[r] => q = r
        /\ pump \in {"start", "fail"} => of[r] # current
        /\ pump \in {"bind", "watch", "check"} /\ of[r] = current => r = fresh
        /\ of[r] \notin batch
LaunchKept ==
    /\ pump = "start" => current \in Download /\ row[current] \in {"running", "gone"}
    /\ pump \in Launching => current \notin batch
SoleInv == Sole /\ LaunchKept

\* A step that leaves the pump, starts nothing and settles no row at which
\* somebody is at work.
LEMMA Leaves ==
    ASSUME SoleInv, UNCHANGED <<pump, current, fresh, batch>>,
           \A r \in Run : phase'[r] \in Busy =>
               /\ phase[r] \in Busy /\ of'[r] = of[r] /\ row'[of[r]] = row[of[r]]
               /\ phase'[r] = phase[r] \/ row[of[r]] # "gone",
           pump = "start" => row'[current] = row[current]
    PROVE  SoleInv'
<1>1. ASSUME NEW r \in Run, phase'[r] \in Busy
      PROVE  of'[r] \in Download /\ Working(r)'
  BY <1>1 DEF SoleInv, Sole, Working
<1>2. Sole'
  BY <1>1 DEF SoleInv, Sole
<1>3. LaunchKept'
  BY DEF SoleInv, LaunchKept
<1> QED
  BY <1>2, <1>3 DEF SoleInv

\* The pass and its pick.
LEMMA PickSole == ASSUME CapInv, SoleInv, Pass \/ Pick PROVE SoleInv'
<1>1. /\ UNCHANGED <<row, phase, of, current, fresh>>
      /\ pump' \in {"rest", "pick", "next"}
  BY DEF Pass, Pick, rows, runs
<1>2. \A d \in batch' : row[d] = "queued" \/ d \in batch
  BY DEF Pass, Pick, With
<1>3. \A r \in Run : phase[r] \in Busy => of[r] \notin batch'
  BY <1>2 DEF SoleInv, Sole, Working
<1> QED
  BY <1>1, <1>3 DEF SoleInv, Sole, Working, LaunchKept, Launching

\* A row of the batch is nobody's, and is the launch's from then on.
LEMMA MarkSole == ASSUME CapInv, SoleInv, Mark PROVE SoleInv'
<1>1. UNCHANGED <<phase, of>> /\ pump = "next"
  BY DEF Mark, runs
<1>2. CASE batch = {}
  BY <1>1, <1>2 DEF Mark, SoleInv, Sole, Working, LaunchKept, Launching
<1>3. ASSUME NEW d \in batch, batch' = batch \ {d}, current' = d, Write(d, "running"),
             pump' = "start"
      PROVE  SoleInv'
  <2>1. d \in Download /\ \A r \in Run : phase[r] \in Busy => of[r] # d
    BY <1>3 DEF CapInv, SoleInv, Sole
  <2>2. row'[d] \in {"running", "gone"} /\ \A e \in Download \ {d} : row'[e] = row[e]
    BY <1>3, <2>1 DEF CapInv, Write
  <2>3. Sole'
    BY <1>1, <1>3, <2>1, <2>2 DEF SoleInv, Sole, Working
  <2>4. LaunchKept'
    BY <1>3, <2>1, <2>2 DEF LaunchKept
  <2> QED
    BY <2>3, <2>4 DEF SoleInv
<1> QED
  BY <1>2, <1>3 DEF Mark

\* The run that is started is the only one of its row.
LEMMA StartSole == ASSUME CapInv, StandInv, SoleInv, Start PROVE SoleInv'
<1>1. pump = "start" /\ batch' = batch /\ current \in Download
  BY DEF Start, SoleInv, LaunchKept
<1>2. CASE host = "suspended" /\ Write(current, "failed") /\ Launched /\ UNCHANGED runs
  <2>1. \A d \in Download \ {current} : row'[d] = row[d]
    BY <1>2 DEF Write, CapInv
  <2>2. \A r \in Run : phase[r] \in Busy => of[r] # current
    BY <1>1 DEF SoleInv, Sole
  <2>3. Sole'
    BY <1>1, <1>2, <2>1, <2>2 DEF SoleInv, Sole, Working, runs, Launched
  <2> QED
    BY <1>2, <2>3 DEF SoleInv, LaunchKept, Launched, Launching
<1>3. ASSUME NEW r \in Run, phase[r] = "none", phase' = [phase EXCEPT ![r] = "active"],
             of' = [of EXCEPT ![r] = current], fresh' = r, pump' = "bind",
             UNCHANGED <<row, current>>
      PROVE  SoleInv'
  <2>1. /\ phase'[r] = "active" /\ of'[r] = current
        /\ \A q \in Run \ {r} : phase'[q] = phase[q] /\ of'[q] = of[q]
    BY <1>3 DEF StandInv, FreshInv
  <2>2. row[current] \in {"running", "gone"} /\ current \notin batch
    BY <1>1 DEF SoleInv, LaunchKept, Launching
  <2>3. Sole'
    BY <1>1, <1>3, <2>1, <2>2 DEF SoleInv, Sole, Working, Busy
  <2>4. LaunchKept'
    BY <1>1, <1>3, <2>2 DEF LaunchKept, Launching
  <2> QED
    BY <2>3, <2>4 DEF SoleInv
<1> QED
  BY <1>2, <1>3 DEF Start

\* The rest of a launch writes its row only once the run is over.
LEMMA LaunchSole ==
    ASSUME CapInv, StandInv, SoleInv, Bind \/ Watch \/ Check \/ FailLaunched
    PROVE  SoleInv'
<1>1. CASE Bind \/ Watch
  <2>1. /\ UNCHANGED <<row, phase, of, current, fresh, batch>>
        /\ pump \in {"bind", "watch"} /\ pump' \in {"watch", "check"}
    BY <1>1 DEF Bind, Watch, rows, runs
  <2> QED
    BY <2>1 DEF SoleInv, Sole, Working, LaunchKept, Launching
<1>2. CASE Check
  <2>1. UNCHANGED <<row, phase, of, batch>> /\ pump = "check"
    BY <1>2 DEF Check, rows, runs
  <2>2. CASE Finished /\ pump' = "fail" /\ UNCHANGED <<current, fresh>>
    <3>1. phase[fresh] \notin Busy
      BY <2>2 DEF Finished, Busy
    <3> QED
      BY <2>1, <2>2, <3>1 DEF SoleInv, Sole, Working, LaunchKept, Launching
  <2>3. CASE Launched
    BY <2>1, <2>3 DEF Launched, SoleInv, Sole, Working, LaunchKept, Launching
  <2> QED
    BY <1>2, <2>2, <2>3 DEF Check
<1>3. CASE FailLaunched
  <2>1. UNCHANGED <<phase, of, batch>> /\ pump = "fail" /\ Launched
    BY <1>3 DEF FailLaunched, runs
  <2>2. \A d \in Download \ {current} : row'[d] = row[d]
    BY <1>3 DEF FailLaunched, Write, CapInv
  <2>3. \A r \in Run : phase[r] \in Busy => of[r] # current
    BY <2>1 DEF SoleInv, Sole
  <2> QED
    BY <2>1, <2>2, <2>3 DEF Launched, SoleInv, Sole, Working, LaunchKept, Launching
<1> QED
  BY <1>1, <1>2, <1>3

\* A run settles its own row, when it is done with it.
LEMMA RunSole ==
    ASSUME CapInv, StandInv, Undisturbed, SoleInv, NEW r \in Run, RunStep(r)
    PROVE  SoleInv'
<1>1. UNCHANGED <<pump, current, fresh, batch>>
  BY DEF RunStep, Fetch, Break, Land, TransferFails, Interrupted, Leave, End,
         Publish, MarkEnded, StopRun, pass
<1>2. ASSUME NEW from, NEW to, Moves(r, from, to)
      PROVE  /\ phase[r] = from /\ phase'[r] = to
             /\ to # "ended" => of' = of
             /\ \A q \in Run \ {r} : phase'[q] = phase[q] /\ of'[q] = of[q]
  BY <1>2 DEF Moves, StandInv, FreshInv
<1>3. CASE Fetch(r)
  <2>1. /\ phase[r] = "active" /\ of' = of /\ row' = row
        /\ phase'[r] = IF row[of[r]] = "gone" THEN "settled" ELSE "fetching"
        /\ \A q \in Run \ {r} : phase'[q] = phase[q]
    BY <1>2, <1>3 DEF Fetch, rows
  <2> QED
    BY <1>1, <2>1, Leaves DEF Busy
<1>4. CASE Break(r) \/ End(r) \/ Publish(r)
  <2>1. row' = row /\ phase'[r] \notin Busy
        /\ \A q \in Run \ {r} : phase'[q] = phase[q] /\ of'[q] = of[q]
    BY <1>2, <1>4 DEF Break, End, Publish, rows, Busy
  <2> QED
    BY <1>1, <2>1, Leaves
<1>5. CASE Land(r) \/ TransferFails(r) \/ Interrupted(r)
  <2>1. PICK s : Leave(r, s)
    BY <1>5 DEF Land, TransferFails, Interrupted
  <2>2. /\ phase[r] = "fetching" /\ phase'[r] = "settled"
        /\ \A q \in Run \ {r} : phase'[q] = phase[q] /\ of'[q] = of[q]
    BY <1>2, <2>1 DEF Leave
  <2>3. \A d \in Download \ {of[r]} : row'[d] = row[d]
    BY <2>1 DEF Leave, Write, CapInv
  <2>4. /\ \A q \in Run \ {r} : phase[q] \in Busy => of[q] \in Download \ {of[r]}
        /\ pump = "start" => current \in Download \ {of[r]}
    BY <2>2 DEF SoleInv, Sole, LaunchKept, Busy
  <2> QED
    BY <1>1, <2>2, <2>3, <2>4, Leaves DEF Busy
<1>6. CASE MarkEnded(r)
  <2>1. /\ phase[r] = "marking" /\ phase'[r] = "ended"
        /\ \A q \in Run \ {r} : phase'[q] = phase[q] /\ of'[q] = of[q]
    BY <1>2, <1>6 DEF MarkEnded
  <2>2. \A d \in Download \ {of[r]} : row'[d] = row[d]
    BY <1>6 DEF MarkEnded, Write, CapInv
  <2>3. ~AtWork(of[r])
    BY <2>1 DEF Undisturbed
  <2>4. /\ \A q \in Run \ {r} : phase[q] \in Busy => of[q] \in Download \ {of[r]}
        /\ pump = "start" => current \in Download \ {of[r]}
    BY <2>3 DEF AtWork, SoleInv, Sole, LaunchKept
  <2> QED
    BY <1>1, <2>1, <2>2, <2>4, Leaves DEF Busy
<1>7. CASE StopRun(r)
  BY <1>1, <1>7, Leaves DEF StopRun, rows
<1> QED
  BY <1>3, <1>4, <1>5, <1>6, <1>7 DEF RunStep

\* A command writes a row nobody is at work at.
LEMMA CallSole ==
    ASSUME CapInv, Undisturbed, SoleInv, NEW c \in Call, CallStep(c) PROVE SoleInv'
<1> USE DEF CallStep, AskStart, AskPause, AskCancel, AskResume, AskRemove, Asks,
            Create, Settle, Discard, Resume, Remove, Intend, SettleUnbound,
            Abort, Await
<1>1. UNCHANGED <<pump, current, fresh, batch, phase, of>>
  BY DEF Returns, pass, runs
<1>2. \/ row' = row
      \/ /\ at[c] \in {"creating", "settling", "discarding", "resuming", "removing", "unbound"}
         /\ \E s : Write(target[c], s) \/ row' = [row EXCEPT ![target[c]] = s]
  BY DEF rows
<1>3. row' = row \/ (~AtWork(target[c]) /\ \A d \in Download \ {target[c]} : row'[d] = row[d])
  BY <1>2 DEF Undisturbed, Write, CapInv
<1>4. /\ \A r \in Run : phase[r] \in Busy => row'[of[r]] = row[of[r]]
      /\ pump = "start" => row'[current] = row[current]
  BY <1>3 DEF AtWork, SoleInv, Sole, LaunchKept
<1> QED
  BY <1>1, <1>4, Leaves

\* A new process has no run; recover finds none at work.
LEMMA HostSole ==
    ASSUME CapInv, StandInv, Undisturbed, SoleInv, HostStep PROVE SoleInv'
<1>1. CASE Exit
  <2>1. \A r \in Run : phase'[r] \notin Busy
    BY <1>1 DEF Exit, Busy
  <2> QED
    BY <1>1, <2>1 DEF Exit, SoleInv, Sole, LaunchKept, Launching
<1>2. CASE Dispose \/ Suspend \/ Attach \/ Attached
  <2>1. UNCHANGED <<pump, current, fresh, batch, phase, of, row>>
    BY <1>2 DEF Dispose, Suspend, Attach, Attached, pass, runs, rows
  <2> QED
    BY <2>1, Leaves
<1>3. CASE Recover
  <2>1. UNCHANGED <<pump, current, fresh, batch, phase, of>>
    BY <1>3 DEF Recover, runs
  <2>2. \A d \in Download : ~AtWork(d)
    BY <1>3 DEF Recover, Undisturbed
  <2>3. (\A r \in Run : phase[r] \notin Busy) /\ pump # "start"
    BY <2>2 DEF AtWork, SoleInv, Sole, LaunchKept
  <2> QED
    BY <2>1, <2>3, Leaves
<1> QED
  BY <1>1, <1>2, <1>3 DEF HostStep

\* Every step of an undisturbed queue keeps one run to a row.
LEMMA SoleStep ==
    CapInv /\ StandInv /\ Undisturbed /\ SoleInv /\ [Next]_vars => SoleInv'
<1> SUFFICES ASSUME CapInv, StandInv, Undisturbed, SoleInv, [Next]_vars PROVE SoleInv'
  OBVIOUS
<1>1. CASE PumpStep
  BY <1>1, PickSole, MarkSole, StartSole, LaunchSole DEF PumpStep
<1>2. CASE HostStep
  BY <1>2, HostSole
<1>3. CASE \E r \in Run : RunStep(r)
  BY <1>3, RunSole
<1>4. CASE \E c \in Call : CallStep(c)
  BY <1>4, CallSole
<1>5. CASE UNCHANGED vars
  BY <1>5, Leaves DEF vars, rows, runs, pass
<1> QED
  BY <1>1, <1>2, <1>3, <1>4, <1>5 DEF Next

\* Each transfer has a `running` row of its own, so there are no more of them
\* than of those.
LEMMA Transfers ==
    ASSUME CapRespected, SoleInv, row \in [Download -> Status] PROVE TransfersCapped
<1> DEFINE F == Fetching
           R == With("running")
           own == [r \in F |-> of[r]]
<1>1. IsFiniteSet(R) /\ Cardinality(R) \in Nat
  BY Sizes DEF With
<1>2. \A r \in F : of[r] \in R
  BY DEF Fetching, With, SoleInv, Sole, Working, Busy
<1>3. \A r, q \in F : of[r] = of[q] => r = q
  BY DEF Fetching, SoleInv, Sole, Busy
<1>4. own \in Injection(F, R)
  <2> HIDE DEF F, R
  <2>1. own \in [F -> R]
    BY <1>2
  <2>2. \A r, q \in F : own[r] = own[q] => r = q
    BY <1>3
  <2> QED
    BY <2>1, <2>2 DEF Injection, IsInjective
<1>5. IsFiniteSet(F) /\ Cardinality(F) <= Cardinality(R)
  <2> HIDE DEF F, R, own
  <2> QED
    BY <1>1, <1>4, FS_Injection DEF ExistsInjection
<1>6. Cardinality(F) \in Nat
  BY <1>5, FS_CardinalityType
<1> QED
  BY <1>1, <1>5, <1>6, CapAssumption DEF CapRespected, TransfersCapped

\* The cap holds for the transfers themselves as long as nobody settles a row at
\* which a run is at work: the run `restart` shows one of the three ways to do
\* so, and there are no others (pump_once, launch, recover).
THEOREM TransfersWithin == Spec /\ []Undisturbed => []TransfersCapped
<1>1. Init => SoleInv
  BY DEF Init, SoleInv, Sole, LaunchKept, Launching, Busy
<1>2. Spec => [](CapInv /\ StandInv)
  <2>1. Init => CapInv /\ StandInv
    BY CapInitially, StandInitially
  <2>2. CapInv /\ StandInv /\ [Next]_vars => CapInv' /\ StandInv'
    BY CapStep, StandStep
  <2> QED
    BY <2>1, <2>2, PTL DEF Spec
<1>3. CapInv /\ CapRespected /\ SoleInv => TransfersCapped
  BY Transfers DEF CapInv
<1> QED
  BY <1>1, <1>2, <1>3, Cap, SoleStep, PTL DEF Spec
=============================================================================
