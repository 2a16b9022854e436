-------------------------------- MODULE Files --------------------------------
(* The file tools (files/nodes.rs, plan.rs, commit.rs, ledger.rs): runs read *)
(* files and apply batches of changes to them, which somebody reviews in     *)
(* between, while other runs and the user change the same files.  Whatever   *)
(* is written is a new number, and 0 is no file.  Folders, access to them,   *)
(* quotas, binary files and the files of the app's own folders, which need   *)
(* no reading, are left out.                                                 *)
EXTENDS Naturals, Sequences, SequencesExt

CONSTANTS
    Worker,        \* runs that use the tools
    File, Existing,
    NoFile,
    Batch,         \* the batches a model may ask for: sequences of changes
    LedgerRuns,    \* LEDGER_RUNS
    MaxBatches, MaxEdits, MaxIoErrors, MaxDeaths   \* bounds

ASSUME FilesAssumption ==
    /\ NoFile \notin File /\ Existing \subseteq File /\ LedgerRuns \in Nat \ {0}
    /\ {MaxBatches, MaxEdits, MaxIoErrors, MaxDeaths} \subseteq Nat

(* Change: a move says where to.                                             *)
Change ==
    [kind : {"write", "edit", "delete"}, path : File, to : {NoFile}]
    \cup [kind : {"move"}, path : File, to : File]

ASSUME BatchAssumption == Batch \subseteq Seq(Change)

VARIABLES
    disk,          \* the content of every file
    copies,        \* the originals kept under snapshots/, with their files
    knows, recent, \* ReadLedger: the contents each run knows; its runs in order
    job,           \* where each run is in its batch
    plan,          \* the Overlay of each run, and then its Plan
    contents,      \* contents made so far
    left,          \* what the bounds leave: batches, edits, errors, deaths
    foreign,       \* files a run knows that another wrote since (history)
    late           \* files another wrote since the batch compared them (history)

filesVars == <<disk, copies, knows, recent, job, plan, contents, left, foreign, late>>

Absent == 0
Unread == [f \in File |-> Absent]
Phase == {"idle", "planning", "reviewing", "comparing", "committing", "restoring"}
NoBatch == [at |-> "idle", batch |-> <<>>, index |-> 0, restored |-> TRUE]
NoPlan == [stored |-> <<>>, slots |-> <<>>, order |-> <<>>, touched |-> {}]

FilesTypeOK ==
    /\ disk \in [File -> Nat] /\ copies \subseteq File \X Nat /\ contents \in Nat
    /\ knows \in [Worker -> [File -> Nat]]
    /\ ToSet(recent) \subseteq Worker /\ Len(recent) <= LedgerRuns
    /\ \A w \in Worker :
         /\ job[w].at \in Phase /\ job[w].index \in Nat
         /\ ToSet(job[w].batch) \subseteq Change
         /\ DOMAIN plan[w].slots \subseteq DOMAIN plan[w].stored
         /\ ToSet(plan[w].order) = DOMAIN plan[w].slots
         /\ plan[w].touched \subseteq File
         /\ w \in ToSet(recent) \/ knows[w] = Unread
    /\ foreign \in [Worker -> SUBSET File] /\ late \in [Worker -> SUBSET File]

FilesInit ==
    /\ disk = [f \in File |-> IF f \in Existing THEN 1 ELSE Absent] /\ contents = 1
    /\ copies = {} /\ recent = <<>> /\ knows = [w \in Worker |-> Unread]
    /\ job = [w \in Worker |-> NoBatch] /\ plan = [w \in Worker |-> NoPlan]
    /\ left = [batches |-> MaxBatches, edits |-> MaxEdits,
               errors |-> MaxIoErrors, deaths |-> MaxDeaths]
    /\ foreign = [w \in Worker |-> {}] /\ late = [w \in Worker |-> {}]

Spends(what) == left[what] > 0 /\ left' = [left EXCEPT ![what] = @ - 1]

-----------------------------------------------------------------------------
(* The ledger.  A run that is pushed out has read nothing, and a deleted     *)
(* file is not known to it.                                                  *)

Evicted(w) ==
    IF w \in ToSet(recent) \/ Len(recent) < LedgerRuns THEN {} ELSE {Head(recent)}

LedgerRecord(w, hashes) ==
    /\ knows' = [v \in Worker |-> IF v = w THEN hashes
                                 ELSE IF v \in Evicted(w) THEN Unread ELSE knows[v]]
    /\ IF w \in ToSet(recent)
         THEN \E i \in DOMAIN recent :
                recent[i] = w /\ recent' = Append(RemoveAt(recent, i), w)
         ELSE recent' = Append(IF Evicted(w) = {} THEN recent ELSE Tail(recent), w)

ReadOne(w, f) ==
    /\ job[w].at = "idle"
    /\ IF disk[f] = Absent
         THEN UNCHANGED <<knows, recent, foreign>>
         ELSE /\ LedgerRecord(w, [knows[w] EXCEPT ![f] = disk[f]])
              /\ foreign' = [foreign EXCEPT ![w] = @ \ {f}]
    /\ UNCHANGED <<disk, copies, job, plan, contents, left, late>>

-----------------------------------------------------------------------------
(* plan: the changes of a batch over what the disk holds when each file is   *)
(* first met.                                                                *)

Stored(j, f) == IF f \in DOMAIN j.stored THEN j.stored[f] ELSE disk[f]

Slot(j, f) ==
    IF f \in DOMAIN j.slots THEN j.slots[f]
      ELSE [text |-> Stored(j, f), origin |-> IF Stored(j, f) = Absent THEN NoFile ELSE f]

Exists(j, f) == Slot(j, f).text # Absent

With(map, f, x) == [g \in DOMAIN map \cup {f} |-> IF g = f THEN x ELSE map[g]]

Puts(j, f, text, origin) ==
    [j EXCEPT !.stored = With(@, f, Stored(j, f)),
              !.slots = With(@, f, [text |-> text, origin |-> origin]),
              !.order = IF f \in DOMAIN j.slots THEN @ ELSE Append(@, f)]

Touches(j, f) == [j EXCEPT !.touched = @ \cup ({Slot(j, f).origin} \ {NoFile})]

Applicable(j, c) ==
    CASE c.kind = "write" -> TRUE
      [] c.kind = "move"  -> Exists(j, c.path) /\ ~Exists(j, c.to)
      [] OTHER            -> Exists(j, c.path)

(* A move takes its source along unread: only its content arrives elsewhere. *)
Applied(j, c, new) ==
    CASE c.kind = "write"  -> Puts(Touches(j, c.path), c.path, new, NoFile)
      [] c.kind = "edit"   -> Puts(Touches(j, c.path), c.path, new, Slot(j, c.path).origin)
      [] c.kind = "delete" -> Puts(Touches(j, c.path), c.path, Absent, NoFile)
      [] c.kind = "move"   ->
           LET source == Slot(j, c.path)
           IN  Puts(Puts(j, c.to, source.text, source.origin), c.path, Absent, NoFile)

(* The files a plan changes, and those of them met at place n or before.     *)
Changed(w) ==
    {f \in File : /\ f \in DOMAIN plan[w].slots
                  /\ plan[w].stored[f] # plan[w].slots[f].text}
Met(w, f) == CHOOSE i \in DOMAIN plan[w].order : plan[w].order[i] = f
Upto(w, n) == {f \in Changed(w) : Met(w, f) <= n}
Before(w, f) == plan[w].stored[f]
After(w, f) == plan[w].slots[f].text

Goes(w, from, to) ==
    job[w].at = from /\ job' = [job EXCEPT ![w] = [@ EXCEPT !.at = to, !.index = 0]]

Steps(w, n) == job' = [job EXCEPT ![w] = [@ EXCEPT !.index = n]]

Leaves(w) ==
    /\ job' = [job EXCEPT ![w] = NoBatch] /\ plan' = [plan EXCEPT ![w] = NoPlan]
    /\ late' = [late EXCEPT ![w] = {}]

Apply(w) ==
    /\ job[w].at = "idle" /\ Spends("batches")
    /\ \E b \in Batch :
         job' = [job EXCEPT ![w] =
                   [at |-> "planning", batch |-> b, index |-> 1, restored |-> TRUE]]
    /\ UNCHANGED <<disk, copies, knows, recent, plan, contents, foreign, late>>

Planning(w) == job[w].at = "planning" /\ job[w].index <= Len(job[w].batch)

PlanChange(w) ==
    LET c == job[w].batch[job[w].index]
        writes == c.kind \in {"write", "edit"}
    IN  /\ Planning(w) /\ Applicable(plan[w], c)
        /\ contents' = IF writes THEN contents + 1 ELSE contents
        /\ plan' = [plan EXCEPT ![w] = Applied(@, c, contents')]
        /\ Steps(w, job[w].index + 1)
        /\ UNCHANGED <<disk, copies, knows, recent, left, foreign, late>>

(* Nothing to change, something in the way, or an edit that does not fit.    *)
PlanRefused(w) ==
    LET c == job[w].batch[job[w].index]
    IN  /\ Planning(w) /\ (c.kind = "edit" \/ ~Applicable(plan[w], c))
        /\ Leaves(w)
        /\ UNCHANGED <<disk, copies, knows, recent, contents, left, foreign>>

(* check_fresh: what the batch changes in place was read by this run, as it  *)
(* was when it was planned.  A batch that changes nothing ends here.         *)
CheckFresh(w) ==
    /\ job[w].at = "planning" /\ job[w].index > Len(job[w].batch)
    /\ IF Changed(w) # {}
          /\ \A f \in plan[w].touched \cap Changed(w) : knows[w][f] = Before(w, f)
         THEN Goes(w, "planning", "reviewing") /\ UNCHANGED <<plan, late>>
         ELSE Leaves(w)
    /\ UNCHANGED <<disk, copies, knows, recent, contents, left, foreign>>

-----------------------------------------------------------------------------
(* The review, as long as it takes, then the batch on the blocking thread.   *)

ReviewPasses(w) ==
    /\ Goes(w, "reviewing", "comparing")
    /\ UNCHANGED <<disk, copies, knows, recent, plan, contents, left, foreign, late>>

(* Denied by a rule or a person, or the run was cancelled.                   *)
ReviewEnds(w) ==
    /\ job[w].at = "reviewing" /\ Leaves(w)
    /\ UNCHANGED <<disk, copies, knows, recent, contents, left, foreign>>

(* A batch goes through the files it changes in the order they were met, and *)
(* its index is the place of the last one behind it.  It comes to the first  *)
(* one ahead, and a rollback to the last one behind.                         *)
Behind(w) == Upto(w, job[w].index)
Ahead(w) == Changed(w) \ Behind(w)

AtFile(w, phase, f) ==
    /\ job[w].at = phase /\ f \in Ahead(w)
    /\ \A g \in Ahead(w) : Met(w, f) <= Met(w, g)

BackAt(w, f) ==
    /\ job[w].at = "restoring" /\ f \in Behind(w)
    /\ \A g \in Behind(w) : Met(w, g) <= Met(w, f)

Done(w, phase) == job[w].at = phase /\ Ahead(w) = {}

(* Mutant: the disk is not looked at again after the review.                 *)
CompareNothing(w, f) ==
    /\ AtFile(w, "comparing", f) /\ Steps(w, Met(w, f))
    /\ UNCHANGED <<disk, copies, knows, recent, plan, contents, left, foreign, late>>

(* unchanged_since_plan, a file at a time.                                   *)
Compare(w, f) ==
    /\ AtFile(w, "comparing", f)
    /\ IF disk[f] = Before(w, f)
         THEN Steps(w, Met(w, f)) /\ UNCHANGED <<plan, late>>
         ELSE Leaves(w)
    /\ UNCHANGED <<disk, copies, knows, recent, contents, left, foreign>>

TakeSnapshot(w) ==
    /\ Done(w, "comparing") /\ Goes(w, "comparing", "committing")
    /\ LET existing == {f \in Changed(w) : Before(w, f) # Absent}
       IN  copies' = copies \cup {<<f, Before(w, f)>> : f \in existing}
    /\ UNCHANGED <<disk, knows, recent, plan, contents, left, foreign, late>>

SnapshotFails(w) ==
    /\ Done(w, "comparing") /\ Spends("errors") /\ Leaves(w)
    /\ UNCHANGED <<disk, copies, knows, recent, contents, foreign>>

(* The files a batch has compared and may still write.                       *)
Compared(w) ==
    CASE job[w].at = "comparing" -> Behind(w)
      [] job[w].at \in {"committing", "restoring"} -> Changed(w)
      [] OTHER -> {}

(* Somebody writes a file, and the histories of the others say so.           *)
WritesDisk(f, text, others) ==
    /\ disk' = [disk EXCEPT ![f] = text]
    /\ foreign' = [w \in Worker |->
            foreign[w] \cup {g \in {f} : w \in others /\ knows[w][f] # Absent}]
    /\ late' = [w \in Worker |->
            late[w] \cup {g \in {f} : w \in others /\ f \in Compared(w)}]

(* A file that is to go but is not there any more is an error.               *)
Vanished(w, f) == After(w, f) = Absent /\ disk[f] = Absent

CommitFile(w, f) ==
    /\ AtFile(w, "committing", f) /\ ~Vanished(w, f)
    /\ WritesDisk(f, After(w, f), Worker \ {w})
    /\ Steps(w, Met(w, f))
    /\ UNCHANGED <<copies, knows, recent, plan, contents, left>>

CommitFails(w, f) ==
    /\ AtFile(w, "committing", f)
    /\ Spends("errors") \/ (Vanished(w, f) /\ UNCHANGED left)
    /\ job' = [job EXCEPT ![w] = [@ EXCEPT !.at = "restoring", !.index = Met(w, f)]]
    /\ UNCHANGED <<disk, copies, knows, recent, plan, contents, foreign, late>>

(* Mutant: a file the batch created is left where it is.                     *)
RestoreSkipsCreated(w, f) ==
    /\ BackAt(w, f)
    /\ IF Before(w, f) = Absent
         THEN UNCHANGED <<disk, foreign, late>>
         ELSE WritesDisk(f, Before(w, f), Worker \ {w})
    /\ Steps(w, Met(w, f) - 1)
    /\ UNCHANGED <<copies, knows, recent, plan, contents, left>>

(* restore: from the file that failed back to the first.                     *)
RestoreFile(w, f) ==
    /\ BackAt(w, f)
    /\ WritesDisk(f, Before(w, f), Worker \ {w})
    /\ Steps(w, Met(w, f) - 1)
    /\ UNCHANGED <<copies, knows, recent, plan, contents, left>>

RestoreFails(w, f) ==
    /\ BackAt(w, f) /\ Spends("errors")
    /\ foreign' = [foreign EXCEPT ![w] = @ \cup {f}]
    /\ job' = [job EXCEPT ![w] = [@ EXCEPT !.index = Met(w, f) - 1, !.restored = FALSE]]
    /\ UNCHANGED <<disk, copies, knows, recent, plan, contents, late>>

CommitReported(w) ==
    /\ job[w].at = "restoring" /\ Behind(w) = {} /\ Leaves(w)
    /\ UNCHANGED <<disk, copies, knows, recent, contents, left, foreign>>

(* Mutant: the ledger keeps what the run had read.                           *)
FinishForgets(w) ==
    /\ Done(w, "committing") /\ Leaves(w)
    /\ foreign' = [foreign EXCEPT ![w] = (@ \ Changed(w)) \cup late[w]]
    /\ UNCHANGED <<disk, copies, knows, recent, contents, left>>

(* The ledger follows what the run wrote itself.  To forget the files it     *)
(* deleted makes a run no more recent.                                       *)
FinishApply(w) ==
    /\ Done(w, "committing") /\ Leaves(w)
    /\ LET written == [f \in File |-> IF f \in Changed(w) THEN After(w, f)
                                                       ELSE knows[w][f]]
       IN  IF \E f \in Changed(w) : After(w, f) # Absent
             THEN LedgerRecord(w, written)
             ELSE knows' = [knows EXCEPT ![w] = written] /\ UNCHANGED recent
    /\ foreign' = [foreign EXCEPT ![w] = (@ \ Changed(w)) \cup late[w]]
    /\ UNCHANGED <<disk, copies, contents, left>>

-----------------------------------------------------------------------------
(* The user, or another program, saves or deletes a file; the host dies.     *)

UserWrites(f) ==
    /\ Spends("edits") /\ contents' = contents + 1
    /\ \E text \in {contents', Absent} : text # disk[f] /\ WritesDisk(f, text, Worker)
    /\ UNCHANGED <<copies, knows, recent, job, plan>>

HostDies ==
    /\ Spends("deaths")
    /\ job' = [w \in Worker |-> NoBatch] /\ plan' = [w \in Worker |-> NoPlan]
    /\ knows' = [w \in Worker |-> Unread] /\ recent' = <<>>
    /\ foreign' = [w \in Worker |-> {}] /\ late' = [w \in Worker |-> {}]
    /\ UNCHANGED <<disk, copies, contents>>

FilesNext ==
    \/ \E w \in Worker :
         \/ Apply(w) \/ PlanChange(w) \/ PlanRefused(w) \/ CheckFresh(w)
         \/ ReviewPasses(w) \/ ReviewEnds(w) \/ TakeSnapshot(w) \/ SnapshotFails(w)
         \/ CommitReported(w) \/ FinishApply(w)
         \/ \E f \in File :
              \/ ReadOne(w, f) \/ Compare(w, f) \/ CommitFile(w, f) \/ CommitFails(w, f)
              \/ RestoreFile(w, f) \/ RestoreFails(w, f)
    \/ \E f \in File : UserWrites(f)
    \/ HostDies

FilesSpec == FilesInit /\ [][FilesNext]_filesVars

-----------------------------------------------------------------------------
(* What a batch is about to replace is what its run planned from, and its    *)
(* review showed, and a copy of it is on the disk for whoever comes after a  *)
(* crash - unless somebody wrote in the moments since it was compared        *)
(* (unchanged_since_plan, snapshot, commit).                                 *)
OriginalsKept ==
    \A w \in Worker : job[w].at = "committing" =>
        \A f \in Changed(w) \ Behind(w) :
            /\ disk[f] = Before(w, f) \/ f \in late[w]
            /\ Before(w, f) = Absent \/ <<f, Before(w, f)>> \in copies

(* "All-or-nothing by rollback": a batch that is reported as applied has all *)
(* its files as planned, one reported as failed and restored has them all as *)
(* they were, but for files others wrote meanwhile (commit, restore).        *)
AllOrNothing ==
    [][\A w \in Worker : job'[w].at = "idle" /\ left'.deaths = left.deaths =>
         \A f \in Changed(w) \ late[w] :
             /\ job[w].at = "committing" => disk[f] = After(w, f)
             /\ job[w].at = "restoring" /\ job[w].restored => disk[f] = Before(w, f)
      ]_filesVars

(* A run whose files nobody else writes is never told to read them again:    *)
(* what the ledger says of a file is what the disk holds, through batches    *)
(* that are refused, applied, rolled back and cut off (record, forget).      *)
LedgerCurrent ==
    \A w \in Worker : job[w].at \notin {"committing", "restoring"} =>
        \A f \in File \ foreign[w] : knows[w][f] \in {Absent, disk[f]}
=============================================================================
