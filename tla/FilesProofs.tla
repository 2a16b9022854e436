----------------------------- MODULE FilesProofs -----------------------------
(* What the file tools rely on, for any number of runs, files and batches,   *)
(* any order of reviews, writes, failures and deaths.                        *)
EXTENDS Files, SequenceTheorems, TLAPS

(* A concatenation holds what its parts hold.                                *)
LEMMA ConcatHolds ==
    ASSUME NEW S, NEW s \in Seq(S), NEW r \in Seq(S)
    PROVE  /\ s \o r \in Seq(S)
           /\ ToSet(s \o r) = ToSet(s) \cup ToSet(r)
           /\ s # <<>> => s \o r # <<>>
<1>1. /\ s \o r \in Seq(S) /\ Len(s \o r) = Len(s) + Len(r)
      /\ Len(s) \in Nat /\ Len(r) \in Nat
      /\ DOMAIN s = 1 .. Len(s) /\ DOMAIN r = 1 .. Len(r)
      /\ DOMAIN (s \o r) = 1 .. Len(s) + Len(r)
  BY ConcatProperties, LenProperties
<1>2. \A i \in DOMAIN (s \o r) :
        (s \o r)[i] = IF i <= Len(s) THEN s[i] ELSE r[i - Len(s)]
  BY <1>1
<1>3. \A i \in DOMAIN s : i \in DOMAIN (s \o r) /\ (s \o r)[i] = s[i]
  BY <1>1, <1>2
<1>4. \A i \in DOMAIN r :
        i + Len(s) \in DOMAIN (s \o r) /\ (s \o r)[i + Len(s)] = r[i]
  BY <1>1, <1>2
<1>5. \A i \in DOMAIN (s \o r) : i \in DOMAIN s \/ i - Len(s) \in DOMAIN r
  BY <1>1
<1>6. ToSet(s \o r) \subseteq ToSet(s) \cup ToSet(r)
  BY <1>1, <1>2, <1>5 DEF ToSet
<1>7. ToSet(s) \cup ToSet(r) \subseteq ToSet(s \o r)
  BY <1>3, <1>4 DEF ToSet
<1>8. s # <<>> => s \o r # <<>>
  <2>1. s # <<>> => Len(s) # 0
    BY EmptySeq
  <2>2. s \o r = <<>> => Len(s \o r) = 0
    OBVIOUS
  <2> QED
    BY <1>1, <2>1, <2>2
<1> QED
  BY <1>1, <1>6, <1>7, <1>8

(* It repeats nothing if the parts do not and share nothing.                 *)
LEMMA ConcatInjective ==
    ASSUME NEW S, NEW s \in Seq(S), NEW r \in Seq(S),
           IsInjective(s), IsInjective(r), ToSet(s) \cap ToSet(r) = {}
    PROVE  IsInjective(s \o r)
<1>1. /\ Len(s) \in Nat /\ Len(r) \in Nat
      /\ DOMAIN s = 1 .. Len(s) /\ DOMAIN r = 1 .. Len(r)
      /\ DOMAIN (s \o r) = 1 .. Len(s) + Len(r)
      /\ \A i \in DOMAIN (s \o r) :
           (s \o r)[i] = IF i <= Len(s) THEN s[i] ELSE r[i - Len(s)]
  BY ConcatProperties, LenProperties
<1>2. \A i \in DOMAIN s, j \in DOMAIN r : s[i] # r[j]
  BY DEF ToSet
<1> SUFFICES ASSUME NEW i \in DOMAIN (s \o r), NEW j \in DOMAIN (s \o r),
                    (s \o r)[i] = (s \o r)[j]
             PROVE  i = j
  BY DEF IsInjective
<1>3. CASE i <= Len(s) /\ j <= Len(s)
  BY <1>1, <1>3 DEF IsInjective
<1>4. CASE ~(i <= Len(s)) /\ ~(j <= Len(s))
  <2>1. i - Len(s) \in DOMAIN r /\ j - Len(s) \in DOMAIN r
    BY <1>1, <1>4
  <2>2. r[i - Len(s)] = r[j - Len(s)]
    BY <1>1, <1>4
  <2> QED
    BY <1>1, <2>1, <2>2 DEF IsInjective
<1>5. CASE (i <= Len(s)) # (j <= Len(s))
  BY <1>1, <1>2, <1>5
<1> QED
  BY <1>3, <1>4, <1>5

(* What was appended can be cut off again.                                   *)
LEMMA ConcatSplits ==
    ASSUME NEW S, NEW s \in Seq(S), NEW r \in Seq(S)
    PROVE  s \o r = s \o SubSeq(s \o r, Len(s) + 1, Len(s \o r))
<1>1. CASE r = <<>>
  <2>1. s \o r = s
    BY <1>1, ConcatEmptySeq
  <2>2. Len(s) \in Nat
    BY LenProperties
  <2>3. SubSeq(s \o r, Len(s) + 1, Len(s \o r)) = <<>>
    BY <2>1, <2>2, SubSeqEmpty
  <2> QED
    BY <1>1, <2>3
<1>2. CASE r # <<>>
  <2>1. Len(s) \in Nat /\ Len(r) \in Nat \ {0} /\ Len(s \o r) = Len(s) + Len(r)
    BY <1>2, LenProperties, EmptySeq, ConcatProperties
  <2>2. SubSeq(s \o r, Len(s) + 1, Len(s) + Len(r))
          = SubSeq(r, Len(s) + 1 - Len(s), Len(s) + Len(r) - Len(s))
    BY <2>1, SubSeqOfConcat2
  <2>3. SubSeq(r, 1, Len(r)) = r
    BY SubSeqFull
  <2>4. Len(s) + 1 - Len(s) = 1 /\ Len(s) + Len(r) - Len(s) = Len(r)
    BY <2>1
  <2> QED
    BY <2>1, <2>2, <2>3, <2>4
<1> QED
  BY <1>1, <1>2

(* One more element, and one less.                                           *)
LEMMA AppendHolds ==
    ASSUME NEW S, NEW s \in Seq(S), NEW e \in S
    PROVE  /\ Append(s, e) \in Seq(S) /\ Append(s, e) # <<>>
           /\ ToSet(Append(s, e)) = ToSet(s) \cup {e}
           /\ IsInjective(s) /\ e \notin ToSet(s) => IsInjective(Append(s, e))
<1>1. /\ Append(s, e) \in Seq(S) /\ Append(s, e) # <<>>
      /\ DOMAIN s = 1 .. Len(s) /\ Len(s) \in Nat
      /\ DOMAIN Append(s, e) = 1 .. Len(s) + 1
      /\ \A i \in 1 .. Len(s) : Append(s, e)[i] = s[i]
      /\ Append(s, e)[Len(s) + 1] = e
  BY AppendProperties, LenProperties
<1>2. \A i \in DOMAIN Append(s, e) : i \in DOMAIN s \/ i = Len(s) + 1
  BY <1>1
<1>3. DOMAIN s \cup {Len(s) + 1} \subseteq DOMAIN Append(s, e)
  BY <1>1
<1>4. ToSet(Append(s, e)) = ToSet(s) \cup {e}
  BY <1>1, <1>2, <1>3 DEF ToSet
<1>5. ASSUME IsInjective(s), e \notin ToSet(s)
      PROVE  IsInjective(Append(s, e))
  BY <1>1, <1>2, <1>5 DEF IsInjective, ToSet
<1> QED
  BY <1>1, <1>4, <1>5

(* Without one of its elements, a sequence holds the others.                 *)
LEMMA RemoveHolds ==
    ASSUME NEW S, NEW s \in Seq(S), NEW i \in DOMAIN s, IsInjective(s)
    PROVE  /\ RemoveAt(s, i) \in Seq(S)
           /\ ToSet(RemoveAt(s, i)) = ToSet(s) \ {s[i]}
           /\ IsInjective(RemoveAt(s, i))
<1> DEFINE a == SubSeq(s, 1, i - 1)
           b == SubSeq(s, i + 1, Len(s))
<1>1. Len(s) \in Nat /\ DOMAIN s = 1 .. Len(s) /\ i \in 1 .. Len(s)
      /\ \A j \in DOMAIN s : s[j] \in S
  BY LenProperties
<1>2. /\ a \in Seq(S) /\ Len(a) = i - 1
      /\ \A j \in 1 .. i - 1 : a[j] = s[j]
  <2>1. /\ a \in Seq(S) /\ Len(a) = IF 1 <= i - 1 THEN i - 1 - 1 + 1 ELSE 0
        /\ \A j \in 1 .. i - 1 - 1 + 1 : a[j] = s[1 + j - 1]
    BY <1>1, SubSeqProperties
  <2> QED
    BY <1>1, <2>1
<1>3. /\ b \in Seq(S) /\ Len(b) = Len(s) - i
      /\ \A j \in 1 .. Len(s) - i : b[j] = s[i + j]
  <2>1. /\ b \in Seq(S)
        /\ Len(b) = IF i + 1 <= Len(s) THEN Len(s) - (i + 1) + 1 ELSE 0
        /\ \A j \in 1 .. Len(s) - (i + 1) + 1 : b[j] = s[i + 1 + j - 1]
    BY <1>1, SubSeqProperties
  <2> QED
    BY <1>1, <2>1
<1>4. DOMAIN a = 1 .. i - 1 /\ DOMAIN b = 1 .. Len(s) - i
  BY <1>2, <1>3, LenProperties
<1> HIDE DEF a, b
<1>5. ToSet(a) = {s[j] : j \in 1 .. i - 1}
  BY <1>2, <1>4 DEF ToSet
<1>6. ToSet(b) = {s[j] : j \in i + 1 .. Len(s)}
  <2>1. \A j \in i + 1 .. Len(s) : j - i \in DOMAIN b /\ b[j - i] = s[j]
    BY <1>1, <1>3, <1>4
  <2>2. \A j \in DOMAIN b : i + j \in i + 1 .. Len(s) /\ b[j] = s[i + j]
    BY <1>1, <1>3, <1>4
  <2> QED
    BY <2>1, <2>2 DEF ToSet
<1>7. ToSet(a) \cup ToSet(b) = ToSet(s) \ {s[i]}
  <2>1. \A j \in DOMAIN s : j = i \/ j \in 1 .. i - 1 \/ j \in i + 1 .. Len(s)
    BY <1>1
  <2>2. \A j \in (1 .. i - 1) \cup (i + 1 .. Len(s)) : j \in DOMAIN s /\ s[j] # s[i]
    BY <1>1 DEF IsInjective
  <2>3. ToSet(s) \ {s[i]} \subseteq ToSet(a) \cup ToSet(b)
    BY <1>5, <1>6, <2>1 DEF ToSet
  <2>4. ToSet(a) \cup ToSet(b) \subseteq ToSet(s) \ {s[i]}
    BY <1>5, <1>6, <2>2 DEF ToSet
  <2> QED
    BY <2>3, <2>4
<1>8. ToSet(a) \cap ToSet(b) = {}
  <2>1. \A j \in 1 .. i - 1, k \in i + 1 .. Len(s) : s[j] # s[k]
    BY <1>1 DEF IsInjective
  <2> QED
    BY <1>5, <1>6, <2>1
<1>9. IsInjective(a) /\ IsInjective(b)
  <2>1. IsInjective(a)
    BY <1>1, <1>2, <1>4 DEF IsInjective
  <2>2. ASSUME NEW j \in DOMAIN b, NEW k \in DOMAIN b, b[j] = b[k]
        PROVE  j = k
    <3>1. j \in 1 .. Len(s) - i /\ k \in 1 .. Len(s) - i
      BY <1>4, <2>2
    <3>2. s[i + j] = s[i + k]
      BY <1>3, <2>2, <3>1
    <3>3. i + j \in DOMAIN s /\ i + k \in DOMAIN s
      BY <1>1, <3>1
    <3>4. i + j = i + k
      BY <3>2, <3>3 DEF IsInjective
    <3> QED
      BY <1>1, <3>1, <3>4
  <2> QED
    BY <2>1, <2>2 DEF IsInjective
<1>10. a \o b \in Seq(S) /\ ToSet(a \o b) = ToSet(a) \cup ToSet(b)
  BY <1>2, <1>3, ConcatHolds
<1>11. IsInjective(a \o b)
  BY <1>2, <1>3, <1>8, <1>9, ConcatInjective
<1>12. RemoveAt(s, i) = a \o b
  BY DEF RemoveAt, a, b
<1> QED
  BY <1>7, <1>10, <1>11, <1>12

-----------------------------------------------------------------------------
(* An overlay: what it met in order, and what it holds of each file.         *)
PlanTyped(j) ==
    /\ DOMAIN j = {"stored", "slots", "order", "touched"}
    /\ j.order \in Seq(File) /\ ToSet(j.order) = DOMAIN j.slots
    /\ DOMAIN j.slots \subseteq DOMAIN j.stored /\ DOMAIN j.stored \subseteq File
    /\ \A f \in DOMAIN j.stored : j.stored[f] \in Nat
    /\ \A f \in DOMAIN j.slots : /\ j.slots[f].text \in Nat
                                  /\ j.slots[f].origin \in File \cup {NoFile}
    /\ j.touched \subseteq File

(* What an overlay finds in a file.                                          *)
LEMMA SlotTyped ==
    ASSUME disk \in [File -> Nat], NEW j, PlanTyped(j), NEW f \in File
    PROVE  Stored(j, f) \in Nat /\ Slot(j, f).text \in Nat /\ Slot(j, f).origin \in File \cup {NoFile}
BY DEF PlanTyped, Stored, Slot

(* One file more leaves an overlay an overlay.                               *)
LEMMA PutsTyped ==
    ASSUME disk \in [File -> Nat], NEW j, PlanTyped(j), NEW f \in File,
           NEW text \in Nat, NEW origin \in File \cup {NoFile}
    PROVE  PlanTyped(Puts(j, f, text, origin))
<1> DEFINE p == Puts(j, f, text, origin)
<1>1. /\ DOMAIN p = DOMAIN j /\ p.touched = j.touched
      /\ p.stored = With(j.stored, f, Stored(j, f))
      /\ p.slots = With(j.slots, f, [text |-> text, origin |-> origin])
      /\ p.order = IF f \in DOMAIN j.slots THEN j.order ELSE Append(j.order, f)
  BY DEF PlanTyped, Puts
<1>2. /\ DOMAIN p.stored = {f} \cup DOMAIN j.stored
      /\ \A g \in DOMAIN p.stored : p.stored[g] = IF g = f THEN Stored(j, f) ELSE j.stored[g]
  BY <1>1 DEF With
<1>3. /\ DOMAIN p.slots = {f} \cup DOMAIN j.slots
      /\ \A g \in DOMAIN p.slots :
           p.slots[g] = IF g = f THEN [text |-> text, origin |-> origin] ELSE j.slots[g]
  BY <1>1 DEF With
<1>4. p.order \in Seq(File) /\ ToSet(p.order) = DOMAIN p.slots
  <2>1. j.order \in Seq(File) /\ ToSet(j.order) = DOMAIN j.slots
    BY DEF PlanTyped
  <2>2. /\ Append(j.order, f) \in Seq(File)
        /\ ToSet(Append(j.order, f)) = ToSet(j.order) \cup {f}
    BY <2>1, AppendHolds
  <2> HIDE DEF p
  <2>3. CASE f \in DOMAIN j.slots
    BY <1>1, <1>3, <2>1, <2>3
  <2>4. CASE f \notin DOMAIN j.slots
    BY <1>1, <1>3, <2>1, <2>2, <2>4
  <2> QED BY <2>3, <2>4
<1>5. Stored(j, f) \in Nat
  BY SlotTyped
<1>6. \A g \in DOMAIN p.slots : /\ p.slots[g].text \in Nat
                                /\ p.slots[g].origin \in File \cup {NoFile}
  BY <1>3 DEF PlanTyped
<1>7. PlanTyped(p)
  <2> HIDE DEF p
  <2> QED BY <1>1, <1>2, <1>3, <1>4, <1>5, <1>6 DEF PlanTyped
<1> QED BY <1>7

(* One change leaves an overlay an overlay.                                  *)
LEMMA AppliedTyped ==
    ASSUME disk \in [File -> Nat], NEW j, PlanTyped(j), NEW c \in Change, NEW new \in Nat
    PROVE  PlanTyped(Applied(j, c, new))
<1>1. c.path \in File /\ c.kind \in {"write", "edit", "delete", "move"}
      /\ (c.kind = "move" => c.to \in File)
  BY DEF Change
<1>2. NoFile \in File \cup {NoFile} /\ Absent \in Nat
  BY DEF Absent
<1>3. PlanTyped(Touches(j, c.path))
  BY <1>1, SlotTyped DEF Touches, PlanTyped
<1>4. CASE c.kind = "write"
  <2>1. Applied(j, c, new) = Puts(Touches(j, c.path), c.path, new, NoFile)
    BY <1>4 DEF Applied
  <2> QED BY <1>1, <1>2, <1>3, <2>1, PutsTyped
<1>5. CASE c.kind = "edit"
  <2>1. Applied(j, c, new) = Puts(Touches(j, c.path), c.path, new, Slot(j, c.path).origin)
    BY <1>5 DEF Applied
  <2>2. Slot(j, c.path).origin \in File \cup {NoFile}
    BY <1>1, SlotTyped
  <2> QED BY <1>1, <1>3, <2>1, <2>2, PutsTyped
<1>6. CASE c.kind = "delete"
  <2>1. Applied(j, c, new) = Puts(Touches(j, c.path), c.path, Absent, NoFile)
    BY <1>6 DEF Applied
  <2> QED BY <1>1, <1>2, <1>3, <2>1, PutsTyped
<1>7. CASE c.kind = "move"
  <2> DEFINE source == Slot(j, c.path)
             moved == Puts(j, c.to, source.text, source.origin)
  <2>1. Applied(j, c, new) = Puts(moved, c.path, Absent, NoFile)
    BY <1>7 DEF Applied
  <2>2. source.text \in Nat /\ source.origin \in File \cup {NoFile}
    BY <1>1, SlotTyped
  <2>3. PlanTyped(moved)
    BY <1>1, <1>7, <2>2, PutsTyped
  <2> QED BY <1>1, <1>2, <2>1, <2>3, PutsTyped
<1> QED BY <1>1, <1>4, <1>5, <1>6, <1>7

(* The types, part by part.  A run that is planning is at one of its changes *)
(* or past them.                                                             *)
DiskTyped ==
    /\ disk \in [File -> Nat] /\ copies \subseteq File \X Nat /\ contents \in Nat
    /\ left \in [batches : Nat, edits : Nat, errors : Nat, deaths : Nat]

LedgerTyped ==
    /\ knows \in [Worker -> [File -> Nat]]
    /\ recent \in Seq(Worker) /\ IsInjective(recent) /\ Len(recent) <= LedgerRuns
    /\ \A w \in Worker : w \in ToSet(recent) \/ knows[w] = Unread

JobsTyped ==
    /\ job \in [Worker -> [at : Phase, batch : Seq(Change), index : Nat, restored : BOOLEAN]]
    /\ \A w \in Worker : job[w].at = "planning" => job[w].index # 0

PlansTyped == DOMAIN plan = Worker /\ \A w \in Worker : PlanTyped(plan[w])

HistoriesTyped ==
    /\ foreign \in [Worker -> SUBSET File] /\ late \in [Worker -> SUBSET File]

FilesTypes == DiskTyped /\ LedgerTyped /\ JobsTyped /\ PlansTyped /\ HistoriesTyped

(* The parts make up the type invariant.                                     *)
LEMMA TypesImply == FilesTypes => FilesTypeOK
<1> SUFFICES ASSUME FilesTypes PROVE FilesTypeOK
  OBVIOUS
<1>1. ToSet(recent) \subseteq Worker
  BY ElementOfSeq DEF FilesTypes, LedgerTyped, ToSet
<1>2. ASSUME NEW w \in Worker
      PROVE  /\ job[w].at \in Phase /\ job[w].index \in Nat
             /\ ToSet(job[w].batch) \subseteq Change
  <2>1. job[w] \in [at : Phase, batch : Seq(Change), index : Nat, restored : BOOLEAN]
    BY DEF FilesTypes, JobsTyped
  <2>2. job[w].batch \in Seq(Change)
    BY <2>1
  <2>3. ToSet(job[w].batch) \subseteq Change
    BY <2>2, ElementOfSeq DEF ToSet
  <2> QED BY <2>1, <2>3
<1> QED
  BY <1>1, <1>2 DEF FilesTypes, FilesTypeOK, DiskTyped, LedgerTyped, PlansTyped, PlanTyped,
     HistoriesTyped

(* No batch, no plan and nothing read.                                       *)
LEMMA NothingTyped ==
    /\ PlanTyped(NoPlan) /\ Unread \in [File -> Nat]
    /\ NoBatch \in [at : Phase, batch : Seq(Change), index : Nat, restored : BOOLEAN]
<1>1. PlanTyped(NoPlan)
  <2>1. NoPlan.order \in Seq(File) /\ ToSet(NoPlan.order) = {}
    BY EmptySeq DEF NoPlan, ToSet
  <2>2. DOMAIN NoPlan.slots = {} /\ DOMAIN NoPlan.stored = {} /\ NoPlan.touched = {}
        /\ DOMAIN NoPlan = {"stored", "slots", "order", "touched"}
    BY DEF NoPlan
  <2> QED BY <2>1, <2>2 DEF PlanTyped
<1>2. <<>> \in Seq(Change)
  BY EmptySeq
<1> QED BY <1>1, <1>2 DEF Unread, Absent, NoBatch, Phase

(* The types hold at first.                                                  *)
LEMMA TypedAtFirst == FilesInit => FilesTypes
<1> SUFFICES ASSUME FilesInit PROVE FilesTypes
  OBVIOUS
<1>1. DiskTyped
  BY FilesAssumption DEF FilesInit, DiskTyped, Absent
<1>2. LedgerTyped
  <2>1. recent \in Seq(Worker) /\ IsInjective(recent) /\ Len(recent) = 0
    BY EmptySeq DEF FilesInit, IsInjective
  <2> QED BY <2>1, NothingTyped, FilesAssumption DEF FilesInit, LedgerTyped
<1>3. JobsTyped
  <2>1. NoBatch.at # "planning"
    BY DEF NoBatch
  <2> QED BY <2>1, NothingTyped DEF FilesInit, JobsTyped
<1>4. PlansTyped /\ HistoriesTyped
  BY NothingTyped DEF FilesInit, PlansTyped, HistoriesTyped
<1> QED BY <1>1, <1>2, <1>3, <1>4 DEF FilesTypes

(* A file a plan changes has a place in it, that of no other file.          *)
LEMMA MetTyped ==
    ASSUME NEW w \in Worker, PlanTyped(plan[w]), NEW f \in Changed(w)
    PROVE  /\ Met(w, f) \in Nat \ {0} /\ plan[w].order[Met(w, f)] = f
           /\ Before(w, f) \in Nat /\ After(w, f) \in Nat
<1>1. /\ f \in DOMAIN plan[w].slots /\ f \in DOMAIN plan[w].stored
      /\ plan[w].order \in Seq(File) /\ f \in ToSet(plan[w].order)
  BY DEF Changed, PlanTyped
<1>2. \E i \in DOMAIN plan[w].order : plan[w].order[i] = f
  BY <1>1 DEF ToSet
<1>3. Met(w, f) \in DOMAIN plan[w].order /\ plan[w].order[Met(w, f)] = f
  BY <1>2 DEF Met
<1>4. DOMAIN plan[w].order = 1 .. Len(plan[w].order) /\ Len(plan[w].order) \in Nat
  BY <1>1, LenProperties
<1>5. Met(w, f) \in Nat \ {0}
  BY <1>3, <1>4
<1> QED BY <1>1, <1>3, <1>5 DEF PlanTyped, Before, After

(* record: the run comes last; of a full ledger the first goes.              *)
LEMMA RecordTyped ==
    ASSUME LedgerTyped, NEW w \in Worker, NEW hashes \in [File -> Nat], LedgerRecord(w, hashes)
    PROVE  LedgerTyped'
<1>1. knows' = [v \in Worker |-> IF v = w THEN hashes
                                ELSE IF v \in Evicted(w) THEN Unread ELSE knows[v]]
  BY DEF LedgerRecord
<1>2. knows' \in [Worker -> [File -> Nat]]
  BY <1>1, NothingTyped DEF LedgerTyped
<1>3. CASE w \in ToSet(recent)
  <2>1. PICK i \in DOMAIN recent : recent[i] = w /\ recent' = Append(RemoveAt(recent, i), w)
    BY <1>3 DEF LedgerRecord
  <2>2. /\ RemoveAt(recent, i) \in Seq(Worker)
        /\ ToSet(RemoveAt(recent, i)) = ToSet(recent) \ {w}
        /\ IsInjective(RemoveAt(recent, i))
    BY <2>1, RemoveHolds DEF LedgerTyped
  <2>3. /\ recent' \in Seq(Worker) /\ ToSet(recent') = ToSet(recent) \cup {w}
        /\ IsInjective(recent')
    BY <2>1, <2>2, AppendHolds
  <2>4. Len(recent') = Len(recent)
    <3>1. /\ Len(recent) \in Nat /\ i \in 1 .. Len(recent)
          /\ \A j \in 1 .. Len(recent) : recent[j] \in Worker
      BY LenProperties, ElementOfSeq DEF LedgerTyped
    <3> DEFINE a == SubSeq(recent, 1, i - 1)
               b == SubSeq(recent, i + 1, Len(recent))
    <3>2. a \in Seq(Worker) /\ Len(a) = IF 1 <= i - 1 THEN i - 1 - 1 + 1 ELSE 0
      BY <3>1, SubSeqProperties
    <3>3. b \in Seq(Worker)
          /\ Len(b) = IF i + 1 <= Len(recent) THEN Len(recent) - (i + 1) + 1 ELSE 0
      BY <3>1, SubSeqProperties
    <3>4. Len(a) = i - 1 /\ Len(b) = Len(recent) - i
      BY <3>1, <3>2, <3>3
    <3>5. RemoveAt(recent, i) = a \o b
      BY DEF RemoveAt
    <3> HIDE DEF a, b
    <3>6. Len(RemoveAt(recent, i)) = Len(recent) - 1
      BY <3>1, <3>2, <3>3, <3>4, <3>5, ConcatProperties
    <3> QED BY <2>1, <2>2, <3>1, <3>6, AppendProperties
  <2> QED
    BY <1>1, <1>2, <1>3, <2>3, <2>4 DEF LedgerTyped, Evicted
<1>4. CASE w \notin ToSet(recent) /\ Len(recent) < LedgerRuns
  <2>1. recent' = Append(recent, w) /\ Evicted(w) = {}
    BY <1>4 DEF LedgerRecord, Evicted
  <2>2. /\ recent' \in Seq(Worker) /\ ToSet(recent') = ToSet(recent) \cup {w}
        /\ IsInjective(recent')
    BY <1>4, <2>1, AppendHolds DEF LedgerTyped
  <2>3. Len(recent) \in Nat /\ Len(recent') = Len(recent) + 1
    BY <2>1, LenProperties, AppendProperties DEF LedgerTyped
  <2>4. Len(recent') <= LedgerRuns
    BY <1>4, <2>3, FilesAssumption
  <2> QED
    BY <1>1, <1>2, <2>1, <2>2, <2>4 DEF LedgerTyped
<1>5. CASE w \notin ToSet(recent) /\ ~(Len(recent) < LedgerRuns)
  <2>1. recent' = Append(Tail(recent), w) /\ Evicted(w) = {Head(recent)}
    BY <1>5 DEF LedgerRecord, Evicted
  <2>2. /\ Len(recent) = LedgerRuns /\ recent # <<>> /\ recent \in Seq(Worker)
        /\ DOMAIN recent = 1 .. Len(recent) /\ Len(recent) \in Nat \ {0}
    <3>1. Len(recent) \in Nat /\ recent \in Seq(Worker) /\ DOMAIN recent = 1 .. Len(recent)
      BY LenProperties DEF LedgerTyped
    <3>2. Len(recent) = LedgerRuns
      <4>1. Len(recent) <= LedgerRuns /\ LedgerRuns \in Nat
        BY FilesAssumption DEF LedgerTyped
      <4>2. \A n \in Nat : n <= LedgerRuns /\ ~(n < LedgerRuns) => n = LedgerRuns
        BY <4>1
      <4> QED BY <1>5, <3>1, <4>1, <4>2
    <3> QED BY <3>1, <3>2, FilesAssumption, EmptySeq
  <2>3. /\ Tail(recent) \in Seq(Worker) /\ Len(Tail(recent)) = Len(recent) - 1
        /\ \A i \in 1 .. Len(Tail(recent)) : Tail(recent)[i] = recent[i + 1]
        /\ Head(recent) = recent[1] /\ DOMAIN Tail(recent) = 1 .. Len(Tail(recent))
    BY <2>2, HeadTailProperties, LenProperties
  <2>4. /\ ToSet(recent) \subseteq ToSet(Tail(recent)) \cup {Head(recent)}
        /\ ToSet(Tail(recent)) \subseteq ToSet(recent)
    <3>1. \A i \in DOMAIN recent : i = 1 \/ i - 1 \in DOMAIN Tail(recent)
      BY <2>2, <2>3
    <3>2. \A i \in DOMAIN recent : i = 1 \/ Tail(recent)[i - 1] = recent[i]
      BY <2>2, <2>3, <3>1
    <3>3. \A i \in DOMAIN Tail(recent) : i + 1 \in DOMAIN recent
      BY <2>2, <2>3
    <3> QED BY <2>3, <3>1, <3>2, <3>3 DEF ToSet
  <2>5. IsInjective(Tail(recent))
    <3>1. \A i \in DOMAIN Tail(recent) :
            i + 1 \in DOMAIN recent /\ Tail(recent)[i] = recent[i + 1] /\ i \in Nat
      BY <2>2, <2>3
    <3> QED BY <3>1 DEF IsInjective, LedgerTyped
  <2>6. /\ recent' \in Seq(Worker) /\ ToSet(recent') = ToSet(Tail(recent)) \cup {w}
        /\ IsInjective(recent') /\ Len(recent') = Len(Tail(recent)) + 1
    <3>1. w \notin ToSet(Tail(recent))
      BY <1>5, <2>4
    <3>2. Len(Append(Tail(recent), w)) = Len(Tail(recent)) + 1
      BY <2>3, AppendProperties
    <3>3. /\ Append(Tail(recent), w) \in Seq(Worker)
          /\ ToSet(Append(Tail(recent), w)) = ToSet(Tail(recent)) \cup {w}
          /\ IsInjective(Append(Tail(recent), w))
      <4>1. \A r \in Seq(Worker) : IsInjective(r) /\ w \notin ToSet(r) =>
              /\ Append(r, w) \in Seq(Worker) /\ ToSet(Append(r, w)) = ToSet(r) \cup {w}
              /\ IsInjective(Append(r, w))
        BY AppendHolds
      <4> QED BY <2>3, <2>5, <3>1, <4>1
    <3> QED BY <2>1, <3>2, <3>3
  <2>7. Len(recent') <= LedgerRuns
    BY <2>2, <2>3, <2>6
  <2> QED
    BY <1>1, <1>2, <2>1, <2>4, <2>6, <2>7 DEF LedgerTyped
<1> QED BY <1>3, <1>4, <1>5

(* Steps that move a run on, or end its batch.                               *)
LEMMA MovingTyped ==
    ASSUME JobsTyped, NEW w \in Worker, NEW n \in Nat, Steps(w, n),
           job[w].at = "planning" => n # 0
    PROVE  JobsTyped'
BY DEF JobsTyped, Steps

(* The next phase of a batch.                                                *)
LEMMA GoingTyped ==
    ASSUME JobsTyped, NEW w \in Worker, NEW from,
           NEW to \in Phase \ {"planning"}, Goes(w, from, to)
    PROVE  JobsTyped'
BY DEF JobsTyped, Goes

(* The end of a batch.                                                       *)
LEMMA LeavingTyped ==
    ASSUME JobsTyped, PlansTyped, HistoriesTyped, NEW w \in Worker, Leaves(w)
    PROVE  /\ JobsTyped' /\ PlansTyped'
           /\ foreign' \in [Worker -> SUBSET File] => HistoriesTyped'
<1>1. NoBatch.at # "planning"
  BY DEF NoBatch
<1> QED
  BY <1>1, NothingTyped DEF JobsTyped, PlansTyped, HistoriesTyped, Leaves

(* A write to the disk.                                                      *)
LEMMA WritesTyped ==
    ASSUME disk \in [File -> Nat], HistoriesTyped, NEW f \in File, NEW text \in Nat,
           NEW others, WritesDisk(f, text, others)
    PROVE  disk' \in [File -> Nat] /\ HistoriesTyped'
BY DEF WritesDisk, HistoriesTyped

(* Using up one of the bounds keeps the shape of `left`.                     *)
LEMMA Spending ==
    ASSUME left \in [batches : Nat, edits : Nat, errors : Nat, deaths : Nat],
           NEW what \in {"batches", "edits", "errors", "deaths"}, Spends(what)
    PROVE  /\ left' \in [batches : Nat, edits : Nat, errors : Nat, deaths : Nat]
           /\ what = "deaths" => left'.deaths # left.deaths
BY DEF Spends

(* Every step keeps the types.                                               *)
LEMMA TypedByEveryStep == FilesTypes /\ [FilesNext]_filesVars => FilesTypes'
<1> SUFFICES ASSUME FilesTypes, [FilesNext]_filesVars PROVE FilesTypes'
  OBVIOUS
<1>t. /\ DiskTyped /\ LedgerTyped /\ JobsTyped /\ PlansTyped /\ HistoriesTyped
      /\ disk \in [File -> Nat] /\ copies \subseteq File \X Nat /\ contents \in Nat
      /\ left \in [batches : Nat, edits : Nat, errors : Nat, deaths : Nat]
      /\ foreign \in [Worker -> SUBSET File]
  BY DEF FilesTypes, DiskTyped, HistoriesTyped
<1> DEFINE Ends(w) ==
      /\ Leaves(w) /\ UNCHANGED <<disk, copies, knows, recent, contents, foreign>>
      /\ left' = left \/ Spends("errors")
<1>1. ASSUME NEW w \in Worker, Ends(w) PROVE FilesTypes'
  <2>1. DiskTyped' /\ LedgerTyped'
    BY <1>t, <1>1, Spending DEF DiskTyped, LedgerTyped
  <2> QED BY <1>t, <1>1, <2>1, LeavingTyped DEF FilesTypes
<1> DEFINE Walks(w) ==
      /\ UNCHANGED <<disk, copies, knows, recent, plan, contents, late>>
      /\ left' = left \/ Spends("errors") \/ Spends("batches")
      /\ foreign' \in [Worker -> SUBSET File]
<1>2. ASSUME NEW w \in Worker, Walks(w), JobsTyped' PROVE FilesTypes'
  <2>1. DiskTyped' /\ LedgerTyped'
    BY <1>t, <1>2, Spending DEF DiskTyped, LedgerTyped
  <2> QED BY <1>t, <1>2, <2>1 DEF FilesTypes, PlansTyped, HistoriesTyped
<1>3. ASSUME NEW w \in Worker, Apply(w) PROVE FilesTypes'
  <2>1. PICK b \in Batch :
          job' = [job EXCEPT ![w] =
                    [at |-> "planning", batch |-> b, index |-> 1, restored |-> TRUE]]
    BY <1>3 DEF Apply
  <2>2. b \in Seq(Change)
    BY BatchAssumption
  <2>3. JobsTyped'
    BY <1>t, <2>1, <2>2 DEF JobsTyped, Phase
  <2> QED BY <1>t, <1>2, <1>3, <2>3 DEF Apply
<1>4. ASSUME NEW w \in Worker, PlanChange(w) PROVE FilesTypes'
  <2> DEFINE c == job[w].batch[job[w].index]
             n == IF c.kind \in {"write", "edit"} THEN contents + 1 ELSE contents
  <2>1. /\ contents' = n /\ plan' = [plan EXCEPT ![w] = Applied(plan[w], c, n)]
        /\ Steps(w, job[w].index + 1) /\ Planning(w)
        /\ UNCHANGED <<disk, copies, knows, recent, left, foreign, late>>
    BY <1>4 DEF PlanChange
  <2>2. job[w].index \in Nat /\ job[w].index + 1 \in Nat \ {0} /\ n \in Nat
    BY <1>t DEF JobsTyped
  <2>3. c \in Change
    <3>1. job[w].batch \in Seq(Change) /\ job[w].index # 0
      BY <1>t, <2>1 DEF JobsTyped, Planning
    <3>2. Len(job[w].batch) \in Nat
      BY <3>1, LenProperties
    <3>3. job[w].index \in 1 .. Len(job[w].batch)
      BY <2>1, <2>2, <3>1, <3>2 DEF Planning
    <3> QED BY <3>1, <3>3, ElementOfSeq
  <2> HIDE DEF c, n
  <2>4. PlansTyped'
    <3>1. PlanTyped(Applied(plan[w], c, n))
      BY <1>t, <2>2, <2>3, AppliedTyped DEF PlansTyped
    <3> QED BY <1>t, <2>1, <3>1 DEF PlansTyped
  <2>5. JobsTyped'
    BY <1>t, <2>1, <2>2, MovingTyped
  <2> QED
    BY <1>t, <2>1, <2>2, <2>4, <2>5 DEF FilesTypes, DiskTyped, LedgerTyped, HistoriesTyped
<1>5. ASSUME NEW w \in Worker, PlanRefused(w) \/ ReviewEnds(w) \/ SnapshotFails(w)
                                \/ CommitReported(w)
      PROVE  FilesTypes'
  BY <1>1, <1>5 DEF PlanRefused, ReviewEnds, SnapshotFails, CommitReported
<1>6. ASSUME NEW w \in Worker, CheckFresh(w) \/ ReviewPasses(w) PROVE FilesTypes'
  <2>1. CASE Leaves(w)
    BY <1>1, <1>6, <2>1 DEF CheckFresh, ReviewPasses, Goes, Leaves
  <2>2. CASE Goes(w, "planning", "reviewing") /\ Walks(w)
    BY <1>t, <1>2, <2>2, GoingTyped DEF Phase
  <2>3. CASE Goes(w, "reviewing", "comparing") /\ Walks(w)
    BY <1>t, <1>2, <2>3, GoingTyped DEF Phase
  <2> QED BY <1>t, <1>6, <2>1, <2>2, <2>3 DEF CheckFresh, ReviewPasses
<1>7. ASSUME NEW w \in Worker, TakeSnapshot(w) PROVE FilesTypes'
  <2>1. JobsTyped'
    BY <1>t, <1>7, GoingTyped DEF TakeSnapshot, Phase
  <2>2. \A f \in Changed(w) : f \in File /\ Before(w, f) \in Nat
    BY <1>t, MetTyped DEF PlansTyped, Changed
  <2>3. copies' \subseteq File \X Nat
    BY <1>t, <1>7, <2>2 DEF TakeSnapshot
  <2> QED
    BY <1>t, <1>7, <2>1, <2>3 DEF TakeSnapshot, FilesTypes, DiskTyped, LedgerTyped, PlansTyped,
       HistoriesTyped
<1>8. ASSUME NEW w \in Worker, FinishApply(w) PROVE FilesTypes'
  <2>1. PICK written \in [File -> Nat] :
          \/ LedgerRecord(w, written)
          \/ knows' = [knows EXCEPT ![w] = written] /\ UNCHANGED recent
             /\ \A f \in File : written[f] = knows[w][f] \/ written[f] = Absent
    <3> DEFINE written == [f \in File |-> IF f \in Changed(w) THEN After(w, f)
                                                            ELSE knows[w][f]]
    <3>1. written \in [File -> Nat]
      BY <1>t, MetTyped DEF PlansTyped, LedgerTyped
    <3> QED BY <1>8, <3>1 DEF FinishApply
  <2>2. LedgerTyped'
    <3>1. CASE LedgerRecord(w, written)
      BY <1>t, <3>1, RecordTyped
    <3>2. CASE /\ knows' = [knows EXCEPT ![w] = written] /\ UNCHANGED recent
               /\ \A f \in File : written[f] = knows[w][f] \/ written[f] = Absent
      <4>1. knows[w] = Unread => written = Unread
        BY <3>2 DEF Unread
      <4> QED BY <1>t, <3>2, <4>1 DEF LedgerTyped
    <3> QED BY <2>1, <3>1, <3>2
  <2>3. foreign' \in [Worker -> SUBSET File]
    BY <1>t, <1>8 DEF FinishApply, HistoriesTyped
  <2> QED
    BY <1>t, <1>8, <2>2, <2>3, LeavingTyped DEF FinishApply, FilesTypes, DiskTyped
<1>9. ASSUME NEW w \in Worker, NEW f \in File, ReadOne(w, f) PROVE FilesTypes'
  <2>1. LedgerTyped'
    <3>1. CASE disk[f] = Absent
      BY <1>t, <1>9, <3>1 DEF ReadOne, LedgerTyped
    <3>2. CASE disk[f] # Absent
      <4>1. [knows[w] EXCEPT ![f] = disk[f]] \in [File -> Nat]
        BY <1>t DEF LedgerTyped
      <4> QED BY <1>t, <1>9, <3>2, <4>1, RecordTyped DEF ReadOne
    <3> QED BY <3>1, <3>2
  <2>2. foreign' \in [Worker -> SUBSET File]
    BY <1>t, <1>9 DEF ReadOne
  <2> QED
    BY <1>t, <1>9, <2>1, <2>2 DEF ReadOne, FilesTypes, DiskTyped, JobsTyped, PlansTyped,
       HistoriesTyped
<1>10. ASSUME NEW w \in Worker, NEW f \in File, Compare(w, f) \/ CommitFails(w, f)
                                                \/ RestoreFails(w, f)
       PROVE  FilesTypes'
  <2>1. Met(w, f) \in Nat \ {0} /\ Met(w, f) - 1 \in Nat
    <3>1. f \in Changed(w)
      BY <1>10 DEF Compare, CommitFails, RestoreFails, AtFile, BackAt, Ahead, Behind, Upto
    <3> QED BY <1>t, <3>1, MetTyped DEF PlansTyped
  <2>2. CASE Compare(w, f) /\ Leaves(w)
    BY <1>1, <2>2 DEF Compare
  <2>3. CASE Compare(w, f) /\ ~Leaves(w)
    BY <1>t, <1>2, <2>1, <2>3, MovingTyped DEF Compare
  <2>4. CASE CommitFails(w, f)
    <3>1. JobsTyped'
      BY <1>t, <2>1, <2>4 DEF CommitFails, JobsTyped, Phase
    <3> QED BY <1>t, <1>2, <2>4, <3>1 DEF CommitFails
  <2>5. CASE RestoreFails(w, f)
    <3>1. JobsTyped'
      BY <1>t, <2>1, <2>5 DEF RestoreFails, BackAt, JobsTyped
    <3>2. foreign' \in [Worker -> SUBSET File]
      BY <1>t, <2>5 DEF RestoreFails
    <3> QED BY <1>t, <1>2, <2>5, <3>1, <3>2 DEF RestoreFails
  <2> QED BY <1>10, <2>2, <2>3, <2>4, <2>5
<1>11. ASSUME NEW w \in Worker, NEW f \in File, CommitFile(w, f) \/ RestoreFile(w, f)
       PROVE  FilesTypes'
  <2>1. f \in Changed(w)
    BY <1>11 DEF CommitFile, RestoreFile, AtFile, BackAt, Ahead, Behind, Upto
  <2>2. /\ Met(w, f) \in Nat \ {0} /\ Met(w, f) - 1 \in Nat
        /\ Before(w, f) \in Nat /\ After(w, f) \in Nat
    BY <1>t, <2>1, MetTyped DEF PlansTyped
  <2>3. JobsTyped'
    BY <1>t, <1>11, <2>2, MovingTyped DEF CommitFile, RestoreFile, AtFile, BackAt
  <2>4. disk' \in [File -> Nat] /\ HistoriesTyped'
    BY <1>t, <1>11, <2>2, WritesTyped DEF CommitFile, RestoreFile
  <2> QED
    BY <1>t, <1>11, <2>3, <2>4 DEF CommitFile, RestoreFile, FilesTypes, DiskTyped, LedgerTyped,
       PlansTyped
<1>12. ASSUME NEW f \in File, UserWrites(f) PROVE FilesTypes'
  <2>1. contents' \in Nat /\ {contents', Absent} \subseteq Nat
    BY <1>t, <1>12 DEF UserWrites, Absent
  <2>2. disk' \in [File -> Nat] /\ HistoriesTyped'
    BY <1>t, <1>12, <2>1, WritesTyped DEF UserWrites
  <2>3. left' \in [batches : Nat, edits : Nat, errors : Nat, deaths : Nat]
    BY <1>t, <1>12, Spending DEF UserWrites
  <2> QED
    BY <1>t, <1>12, <2>1, <2>2, <2>3 DEF UserWrites, FilesTypes, DiskTyped, LedgerTyped,
       JobsTyped, PlansTyped
<1>13. CASE HostDies
  <2>1. LedgerTyped'
    <3>1. recent' \in Seq(Worker) /\ IsInjective(recent') /\ Len(recent') = 0
      BY <1>13, EmptySeq DEF HostDies, IsInjective
    <3> QED BY <1>13, <3>1, NothingTyped, FilesAssumption DEF HostDies, LedgerTyped
  <2>2. left' \in [batches : Nat, edits : Nat, errors : Nat, deaths : Nat]
    BY <1>t, <1>13, Spending DEF HostDies
  <2>3. JobsTyped' /\ PlansTyped' /\ HistoriesTyped'
    <3>1. NoBatch.at # "planning"
      BY DEF NoBatch
    <3> QED
      BY <1>13, <3>1, NothingTyped DEF HostDies, JobsTyped, PlansTyped, HistoriesTyped
  <2> QED BY <1>t, <1>13, <2>1, <2>2, <2>3 DEF HostDies, FilesTypes, DiskTyped
<1>14. CASE UNCHANGED filesVars
  BY <1>t, <1>14 DEF filesVars, FilesTypes, DiskTyped, LedgerTyped, JobsTyped, PlansTyped,
     HistoriesTyped
<1> QED
  BY <1>3, <1>4, <1>5, <1>6, <1>7, <1>8, <1>9, <1>10, <1>11, <1>12, <1>13, <1>14 DEF FilesNext

(* The types always hold.                                                    *)
LEMMA TypesAlways == FilesSpec => []FilesTypes
BY TypedAtFirst, TypedByEveryStep, PTL DEF FilesSpec

(* The variables of Files keep their types: every plan knows what each file  *)
(* it changes held, and the ledger never holds more runs than it may.        *)
THEOREM FilesTyped == FilesSpec => []FilesTypeOK
BY TypesAlways, TypesImply, PTL

-----------------------------------------------------------------------------
Writing(w) == job[w].at \in {"committing", "restoring"}
AsBefore(w, f) == disk[f] = Before(w, f) \/ f \in late[w]
AsAfter(w, f) == disk[f] = After(w, f) \/ f \in late[w]

(* As much of the types as the proof needs.                                  *)
Shape ==
    /\ DOMAIN disk = File /\ DOMAIN knows = Worker
    /\ DOMAIN job = Worker /\ DOMAIN plan = Worker
    /\ DOMAIN foreign = Worker /\ DOMAIN late = Worker
    /\ left \in [batches : Nat, edits : Nat, errors : Nat, deaths : Nat]

ShapeOf(w) ==
    /\ DOMAIN knows[w] = File
    /\ DOMAIN job[w] = {"at", "batch", "index", "restored"}
    /\ job[w].index \in Nat

(* While a run writes, what it knows of the files it changes is what they    *)
(* were before.                                                              *)
Informed(w) ==
    \A f \in File \ foreign[w] :
        \/ knows[w][f] = Absent
        \/ ~(Writing(w) /\ f \in Changed(w)) /\ knows[w][f] = disk[f]
        \/ Writing(w) /\ f \in Changed(w) /\ knows[w][f] = Before(w, f)

LateIsForeign(w) ==
    /\ job[w].at = "idle" => late[w] = {}
    /\ \A f \in File \cap late[w] : f \in foreign[w] \/ knows[w][f] = Absent

(* What a batch has behind it and what it has ahead, in each phase.          *)
Comparing(w) == job[w].at = "comparing" => \A f \in Behind(w) : AsBefore(w, f)

Committing(w) ==
    job[w].at = "committing" =>
        /\ \A f \in Behind(w) : AsAfter(w, f)
        /\ \A f \in Changed(w) \ Behind(w) : AsBefore(w, f)
        /\ \A f \in Changed(w) : Before(w, f) = Absent \/ <<f, Before(w, f)>> \in copies

Restoring(w) ==
    job[w].at = "restoring" =>
        \A f \in Changed(w) \ Behind(w) :
            AsBefore(w, f) \/ (~job[w].restored /\ f \in foreign[w])

RunInv(w) ==
    /\ ShapeOf(w) /\ Informed(w) /\ LateIsForeign(w)
    /\ Comparing(w) /\ Committing(w) /\ Restoring(w)

FilesInv == Shape /\ \A w \in Worker : RunInv(w)

(* The invariant says what the properties say.                               *)
LEMMA InvImplies == FilesInv => LedgerCurrent /\ OriginalsKept
BY DEF FilesInv, RunInv, Informed, Committing, AsBefore, Writing, LedgerCurrent, OriginalsKept

(* What a batch has written so far is part of what it changes.               *)
LEMMA BehindChanged == \A w, n : Upto(w, n) \subseteq Changed(w)
BY DEF Upto, Changed

(* The batch comes to its first file ahead, which is then behind it.         *)
LEMMA Advance ==
    ASSUME FilesTypes, NEW w \in Worker, NEW phase, NEW f, AtFile(w, phase, f)
    PROVE  /\ job[w].at = phase /\ f \in Changed(w) \ Behind(w) /\ f \in File
           /\ Met(w, f) \in Nat /\ Upto(w, Met(w, f)) = Behind(w) \cup {f}
<1>1. \A g \in Changed(w) : Met(w, g) \in Nat \ {0} /\ plan[w].order[Met(w, g)] = g
  BY MetTyped DEF FilesTypes, PlansTyped
<1>2. f \in Changed(w) \ Behind(w) /\ job[w].index \in Nat
  BY DEF AtFile, Ahead, FilesTypes, JobsTyped
<1>3. ASSUME NEW g \in Changed(w), Met(w, g) <= Met(w, f), g \notin Behind(w) PROVE g = f
  <2>1. Met(w, f) <= Met(w, g)
    BY <1>3 DEF AtFile, Ahead
  <2>2. Met(w, f) = Met(w, g)
    BY <1>1, <1>2, <1>3, <2>1
  <2> QED BY <1>1, <1>2, <2>2
<1>4. ASSUME NEW g \in Behind(w) PROVE g \in Changed(w) /\ Met(w, g) <= Met(w, f)
  <2>1. g \in Changed(w) /\ Met(w, g) <= job[w].index
    BY DEF Behind, Upto
  <2>2. ~(Met(w, f) <= job[w].index)
    BY <1>2 DEF Behind, Upto
  <2> QED BY <1>1, <1>2, <2>1, <2>2
<1>5. Met(w, f) <= Met(w, f) /\ Met(w, f) \in Nat
  BY <1>1, <1>2
<1> QED BY <1>2, <1>3, <1>4, <1>5 DEF AtFile, Upto, Changed

(* A rollback comes to the last file behind, and has it behind no more.      *)
LEMMA Retreat ==
    ASSUME FilesTypes, NEW w \in Worker, NEW f, BackAt(w, f)
    PROVE  /\ job[w].at = "restoring" /\ f \in Changed(w) /\ f \in File
           /\ Met(w, f) - 1 \in Nat /\ Upto(w, Met(w, f) - 1) = Behind(w) \ {f}
<1>1. \A g \in Changed(w) : Met(w, g) \in Nat \ {0} /\ plan[w].order[Met(w, g)] = g
  BY MetTyped DEF FilesTypes, PlansTyped
<1>2. f \in Changed(w) /\ Met(w, f) <= job[w].index /\ job[w].index \in Nat
  BY DEF BackAt, Behind, Upto, FilesTypes, JobsTyped
<1>3. ASSUME NEW g \in Behind(w) \ {f} PROVE g \in Upto(w, Met(w, f) - 1)
  <2>1. g \in Changed(w) /\ Met(w, g) <= Met(w, f) /\ Met(w, g) # Met(w, f)
    BY <1>1, <1>2, <1>3 DEF BackAt, Behind, Upto
  <2>2. Met(w, g) <= Met(w, f) - 1
    BY <1>1, <1>2, <2>1
  <2> QED BY <2>1, <2>2 DEF Upto
<1>4. ASSUME NEW g \in Upto(w, Met(w, f) - 1) PROVE g \in Behind(w) \ {f}
  <2>1. g \in Changed(w) /\ Met(w, g) <= Met(w, f) - 1
    BY DEF Upto
  <2>2. Met(w, g) <= job[w].index /\ Met(w, g) # Met(w, f)
    BY <1>1, <1>2, <2>1
  <2> QED BY <2>1, <2>2 DEF Behind, Upto
<1>5. Met(w, f) - 1 \in Nat
  BY <1>1, <1>2
<1> QED BY <1>2, <1>3, <1>4, <1>5 DEF BackAt, Changed

(* The invariant holds at first.                                             *)
LEMMA AtStart == FilesInit => FilesInv
<1> SUFFICES ASSUME FilesInit PROVE FilesInv
  OBVIOUS
<1>1. Shape
  BY FilesAssumption DEF FilesInit, Shape
<1>2. ASSUME NEW w \in Worker PROVE RunInv(w)
  BY <1>2 DEF FilesInit, RunInv, ShapeOf, Informed, LateIsForeign, Comparing,
     Committing, Restoring, NoBatch, Unread, Writing
<1> QED
  BY <1>1, <1>2 DEF FilesInv

(* A run that no step of its own or of the disk concerns; another may have   *)
(* pushed it out of the ledger.                                              *)
LEMMA Bystander ==
    ASSUME NEW w \in Worker, RunInv(w),
           job'[w] = job[w], plan'[w] = plan[w], disk' = disk,
           knows'[w] \in {knows[w], Unread}, copies \subseteq copies',
           foreign'[w] = foreign[w], late'[w] = late[w]
    PROVE  RunInv(w)'
<1>1. Changed(w)' = Changed(w) /\ Behind(w)' = Behind(w)
  BY DEF Changed, Behind, Upto, Met
<1>2. \A f : Before(w, f)' = Before(w, f) /\ After(w, f)' = After(w, f)
  BY DEF Before, After
<1>3. \A f : AsBefore(w, f)' = AsBefore(w, f) /\ AsAfter(w, f)' = AsAfter(w, f)
  BY <1>2 DEF AsBefore, AsAfter
<1>4. ShapeOf(w)'
  BY DEF RunInv, ShapeOf, Unread
<1>5. Informed(w)' /\ LateIsForeign(w)'
  BY <1>1, <1>2 DEF RunInv, Informed, LateIsForeign, Writing, Unread
<1>6. Comparing(w)' /\ Committing(w)' /\ Restoring(w)'
  BY <1>1, <1>2, <1>3 DEF RunInv, Comparing, Committing, Restoring
<1> QED
  BY <1>4, <1>5, <1>6 DEF RunInv

(* A run beside which somebody else writes a file.                           *)
LEMMA Overtaken ==
    ASSUME NEW w \in Worker, Shape, RunInv(w), NEW f \in File, NEW text, NEW others,
           w \in others, WritesDisk(f, text, others),
           job'[w] = job[w], plan'[w] = plan[w], knows' = knows, copies' = copies
    PROVE  RunInv(w)'
<1>1. Changed(w)' = Changed(w) /\ Behind(w)' = Behind(w)
  BY DEF Changed, Behind, Upto, Met
<1>2. \A g : Before(w, g)' = Before(w, g) /\ After(w, g)' = After(w, g)
  BY DEF Before, After
<1>3. /\ late'[w] = late[w] \cup {g \in {f} : f \in Compared(w)}
      /\ foreign'[w] = foreign[w] \cup {g \in {f} : knows[w][f] # Absent}
      /\ \A g \in File \ {f} : disk'[g] = disk[g]
  BY DEF WritesDisk, Shape
<1>4. ShapeOf(w)'
  BY DEF RunInv, ShapeOf
<1>5. Informed(w)'
  BY <1>1, <1>2, <1>3 DEF RunInv, Informed, Writing
<1>6. LateIsForeign(w)'
  BY <1>3 DEF RunInv, LateIsForeign, Compared
<1>7. ASSUME NEW g \in Compared(w) PROVE g \in File
  BY BehindChanged DEF Compared, Changed, Behind, Upto
<1>8. ASSUME NEW g \in Compared(w)
      PROVE  /\ AsBefore(w, g) => AsBefore(w, g)'
             /\ AsAfter(w, g) => AsAfter(w, g)'
  BY <1>2, <1>3, <1>7 DEF AsBefore, AsAfter
<1>9. Comparing(w)'
  BY <1>1, <1>8 DEF RunInv, Comparing, Compared
<1>10. Committing(w)'
  <2> SUFFICES ASSUME job[w].at = "committing" PROVE Committing(w)'
    BY DEF Committing
  <2>1. Compared(w) = Changed(w) /\ Behind(w) \subseteq Changed(w)
    BY BehindChanged DEF Compared, Behind
  <2> QED
    BY <1>1, <1>2, <1>8, <2>1 DEF RunInv, Committing
<1>11. Restoring(w)'
  <2> SUFFICES ASSUME job[w].at = "restoring" PROVE Restoring(w)'
    BY DEF Restoring
  <2>1. Compared(w) = Changed(w)
    BY DEF Compared
  <2> QED
    BY <1>1, <1>3, <1>8, <2>1 DEF RunInv, Restoring
<1> QED
  BY <1>4, <1>5, <1>6, <1>9, <1>10, <1>11 DEF RunInv

(* A run whose batch ends knows what is on the disk.                         *)
LEMMA Leaving ==
    ASSUME NEW w \in Worker, Shape, Leaves(w), DOMAIN knows'[w] = File,
           \A f \in File \ foreign'[w] : knows'[w][f] \in {Absent, disk'[f]}
    PROVE  RunInv(w)'
<1>1. job'[w] = NoBatch /\ late'[w] = {}
  BY DEF Leaves, Shape
<1> QED
  BY <1>1 DEF RunInv, ShapeOf, Informed, LateIsForeign, Comparing, Committing, Restoring,
     NoBatch, Writing

(* The steps of one run but its writes: the disk stays as it is, and at most *)
(* the ledger of another run is touched.                                     *)
LEMMA OthersUntouched ==
    ASSUME FilesInv, NEW w \in Worker, NEW v \in Worker, v # w,
           job'[v] = job[v], plan'[v] = plan[v], disk' = disk, copies \subseteq copies',
           knows'[v] \in {knows[v], Unread}, foreign'[v] = foreign[v], late'[v] = late[v]
    PROVE  RunInv(v)'
BY Bystander DEF FilesInv

(* A look at the disk takes what is there.                                   *)
LEMMA Reading ==
    ASSUME FilesInv, NEW w \in Worker, NEW f \in File, ReadOne(w, f)
    PROVE  FilesInv'
<1> USE DEF FilesInv, ReadOne
<1>1. CASE disk[f] = Absent
  <2>1. Shape' BY <1>1 DEF Shape
  <2>2. ASSUME NEW v \in Worker PROVE RunInv(v)'
    BY <1>1, Bystander
  <2> QED BY <2>1, <2>2
<1>2. CASE disk[f] # Absent
  <2>1. /\ knows'[w] = [knows[w] EXCEPT ![f] = disk[f]]
        /\ foreign'[w] = foreign[w] \ {f} /\ DOMAIN knows' = Worker
        /\ \A v \in Worker \ {w} : /\ knows'[v] \in {knows[v], Unread}
                                    /\ foreign'[v] = foreign[v]
    BY <1>2 DEF LedgerRecord, Shape
  <2>2. Shape' BY <1>2, <2>1 DEF Shape
  <2>3. ASSUME NEW v \in Worker \ {w} PROVE RunInv(v)'
    BY <2>1, <2>3, OthersUntouched
  <2>4. RunInv(w)'
    <3>1. ShapeOf(w)' BY <2>1 DEF RunInv, ShapeOf
    <3>2. ~Writing(w) /\ ~Writing(w)' BY DEF Writing
    <3>3. Informed(w)'
      BY <2>1, <3>2 DEF RunInv, ShapeOf, Informed
    <3>4. Comparing(w)' /\ Committing(w)' /\ Restoring(w)'
      BY DEF Comparing, Committing, Restoring
    <3>5. LateIsForeign(w)'
      BY DEF RunInv, LateIsForeign
    <3> QED BY <3>1, <3>3, <3>4, <3>5 DEF RunInv
  <2> QED BY <2>2, <2>3, <2>4
<1> QED BY <1>1, <1>2

(* Up to the review: nothing is written, and the batch may end.              *)
LEMMA BeforeWriting ==
    ASSUME FilesTypes, FilesInv, NEW w \in Worker,
           \/ Apply(w) \/ PlanChange(w) \/ PlanRefused(w) \/ CheckFresh(w)
           \/ ReviewPasses(w) \/ ReviewEnds(w) \/ SnapshotFails(w)
           \/ \E f \in File : Compare(w, f)
    PROVE  FilesInv'
<1>1. /\ disk' = disk /\ copies' = copies /\ knows' = knows /\ foreign' = foreign
      /\ ~Writing(w)
  BY DEF Apply, PlanChange, PlanRefused, CheckFresh, ReviewPasses, ReviewEnds, Goes,
     Planning, SnapshotFails, Compare, Done, AtFile, Writing
<1>2. Shape'
  <2>1. DOMAIN job' = Worker /\ DOMAIN plan' = Worker /\ DOMAIN late' = Worker
    BY DEF FilesInv, Shape, Leaves, Goes, Steps,
       Apply, PlanChange, PlanRefused, CheckFresh, ReviewPasses, ReviewEnds, SnapshotFails,
       Compare
  <2>2. left' = left \/ \E what \in {"batches", "errors"} : Spends(what)
    BY DEF Apply, PlanChange, PlanRefused, CheckFresh, ReviewPasses, ReviewEnds, SnapshotFails,
       Compare
  <2> QED BY <1>1, <2>1, <2>2, Spending DEF FilesInv, Shape
<1>3. ASSUME NEW v \in Worker \ {w} PROVE RunInv(v)'
  <2>1. job'[v] = job[v] /\ plan'[v] = plan[v] /\ late'[v] = late[v]
    BY DEF FilesInv, Shape, Leaves, Goes, Steps,
       Apply, PlanChange, PlanRefused, CheckFresh, ReviewPasses, ReviewEnds, SnapshotFails,
       Compare
  <2> QED BY <1>1, <2>1, OthersUntouched
<1>4. CASE Leaves(w)
  <2>1. \A f \in File \ foreign[w] : knows[w][f] \in {Absent, disk[f]}
    BY <1>1 DEF FilesInv, RunInv, Informed
  <2>2. RunInv(w)'
    BY <1>1, <1>4, <2>1, Leaving DEF FilesInv, RunInv, ShapeOf
  <2> QED BY <1>2, <1>3, <2>2 DEF FilesInv
<1>5. CASE ~Leaves(w)
  <2>1. \/ job'[w].at \in {"planning", "reviewing"} /\ job'[w].index \in Nat
        \/ ReviewPasses(w)
        \/ \E f \in File : Compare(w, f)
    <3> USE DEF FilesInv, Shape, RunInv, ShapeOf
    <3>1. CASE Apply(w)
      <4>1. PICK b \in Batch :
              job' = [job EXCEPT ![w] =
                        [at |-> "planning", batch |-> b, index |-> 1, restored |-> TRUE]]
        BY <3>1 DEF Apply
      <4> QED BY <4>1
    <3>2. CASE PlanChange(w) BY <3>2 DEF PlanChange, Planning, Steps
    <3>3. CASE PlanRefused(w) BY <1>5, <3>3 DEF PlanRefused
    <3>4. CASE CheckFresh(w)
      <4>1. Goes(w, "planning", "reviewing") BY <1>5, <3>4 DEF CheckFresh
      <4> QED BY <4>1 DEF Goes
    <3>5. CASE ReviewEnds(w) BY <1>5, <3>5 DEF ReviewEnds
    <3>6. CASE SnapshotFails(w) BY <1>5, <3>6 DEF SnapshotFails
    <3> QED BY <3>1, <3>2, <3>3, <3>4, <3>5, <3>6
  <2>2. ASSUME NEW f \in File, Compare(w, f)
        PROVE  /\ disk[f] = Before(w, f) /\ UNCHANGED <<plan, late>>
               /\ job[w].at = "comparing" /\ job'[w].at = "comparing"
               /\ job'[w].index = Met(w, f) /\ Met(w, f) \in Nat
               /\ Upto(w, Met(w, f)) = Behind(w) \cup {f}
    BY <1>5, <2>2, Advance DEF Compare, Steps, FilesInv, Shape, RunInv, ShapeOf
  <2>3. ASSUME ReviewPasses(w)
        PROVE  UNCHANGED <<plan, late>> /\ job'[w].at = "comparing" /\ job'[w].index = 0
    BY <2>3 DEF ReviewPasses, Goes, FilesInv, Shape, RunInv, ShapeOf
  <2>4. /\ job'[w].at \in {"planning", "reviewing", "comparing"} /\ job'[w].index \in Nat
        /\ late' = late
    <3>1. late' = late
      BY <1>5 DEF Apply, PlanChange, PlanRefused, CheckFresh, ReviewPasses, ReviewEnds,
         SnapshotFails, Compare
    <3> QED BY <2>1, <2>2, <2>3, <3>1 DEF FilesInv, RunInv, ShapeOf
  <2>5. DOMAIN job'[w] = {"at", "batch", "index", "restored"}
    <3> USE <1>5 DEF FilesInv, Shape, RunInv, ShapeOf
    <3>1. CASE Apply(w)
      BY <3>1 DEF Apply, NoBatch
    <3>2. CASE PlanChange(w) BY <3>2 DEF PlanChange, Steps
    <3>3. CASE CheckFresh(w)
      <4>1. Goes(w, "planning", "reviewing") BY <1>5, <3>3 DEF CheckFresh
      <4> QED BY <4>1 DEF Goes
    <3>4. CASE ReviewPasses(w) BY <3>4 DEF ReviewPasses, Goes
    <3>5. CASE \E f \in File : Compare(w, f) BY <3>5 DEF Compare, Steps
    <3>6. ~PlanRefused(w) /\ ~ReviewEnds(w) /\ ~SnapshotFails(w)
      BY DEF PlanRefused, ReviewEnds, SnapshotFails
    <3> QED BY <3>1, <3>2, <3>3, <3>4, <3>5, <3>6
  <2>6. ShapeOf(w)' /\ ~Writing(w)' /\ Committing(w)' /\ Restoring(w)'
    BY <1>1, <2>4, <2>5 DEF FilesInv, RunInv, ShapeOf, Writing, Committing, Restoring
  <2>7. Informed(w)' /\ LateIsForeign(w)'
    BY <1>1, <2>4, <2>6 DEF FilesInv, RunInv, Informed, LateIsForeign
  <2>8. Comparing(w)'
    <3>1. CASE ReviewPasses(w)
      <4>1. \A f \in Changed(w) : ~(Met(w, f) <= 0)
        BY MetTyped DEF FilesTypes, PlansTyped
      <4>2. Upto(w, 0) = {}
        BY <4>1 DEF Upto
      <4>3. Behind(w)' = Upto(w, 0)
        BY <2>3, <3>1 DEF Behind, Upto, Changed, Met
      <4> QED BY <4>2, <4>3 DEF Comparing
    <3>2. ASSUME NEW f \in File, Compare(w, f) PROVE Comparing(w)'
      <4>1. Behind(w)' = Upto(w, Met(w, f))
        <5>1. plan' = plan /\ job'[w].index = Met(w, f)
          BY <2>2, <3>2
        <5> PICK n : n = Met(w, f)
          OBVIOUS
        <5>2. Behind(w)' = Upto(w, n)
          BY <5>1 DEF Behind, Upto, Changed, Met
        <5> QED BY <5>2
      <4> QED
        BY <1>1, <2>2, <3>2, <4>1 DEF Comparing, AsBefore, Before, FilesInv, RunInv
    <3> QED BY <2>1, <3>1, <3>2 DEF Comparing
  <2> QED BY <1>2, <1>3, <2>6, <2>7, <2>8 DEF FilesInv, RunInv
<1> QED BY <1>4, <1>5

(* From the snapshot to the end: what the batch has behind it grows, and     *)
(* shrinks again when it fails.                                              *)
LEMMA Snapshotting ==
    ASSUME FilesTypes, FilesInv, NEW w \in Worker, TakeSnapshot(w)
    PROVE  FilesInv'
<1> USE DEF FilesInv, TakeSnapshot
<1>1. Shape' BY DEF Shape, Goes
<1>2. ASSUME NEW v \in Worker \ {w} PROVE RunInv(v)'
  BY <1>2, OthersUntouched DEF Shape, Goes
<1>3. /\ job[w].at = "comparing" /\ job'[w].at = "committing" /\ job'[w].index = 0
      /\ ShapeOf(w)'
  BY DEF Goes, Shape, RunInv, ShapeOf
<1>4. Behind(w) = Changed(w) /\ Behind(w)' = {} /\ Changed(w)' = Changed(w)
  <2>1. Behind(w) = Changed(w)
    BY BehindChanged DEF Done, Ahead, Behind
  <2>2. \A f \in Changed(w) : ~(Met(w, f) <= 0)
    BY MetTyped DEF FilesTypes, PlansTyped
  <2>3. Upto(w, 0) = {}
    BY <2>2 DEF Upto
  <2>4. Behind(w)' = Upto(w, 0) /\ Changed(w)' = Changed(w)
    BY <1>3 DEF Behind, Upto, Changed, Met
  <2> QED BY <2>1, <2>3, <2>4
<1>5. \A f \in Changed(w) : AsBefore(w, f)
  BY <1>3, <1>4 DEF RunInv, Comparing
<1>6. Committing(w)'
  BY <1>4, <1>5 DEF Committing, AsBefore, Before
<1>7. \A f \in File \ foreign[w] :
        f \in Changed(w) => knows[w][f] \in {Absent, Before(w, f)}
  BY <1>3, <1>5 DEF RunInv, Informed, LateIsForeign, AsBefore, Writing
<1>8. Informed(w)'
  BY <1>3, <1>4, <1>7 DEF RunInv, Informed, Writing, Before
<1>9. LateIsForeign(w)' /\ Comparing(w)' /\ Restoring(w)'
  BY <1>3 DEF RunInv, LateIsForeign, Comparing, Restoring
<1> QED BY <1>1, <1>2, <1>3, <1>6, <1>8, <1>9 DEF RunInv

(* One file is written, by the batch or by its rollback.                     *)
LEMMA WritingOne ==
    ASSUME FilesInv, NEW w \in Worker, NEW f \in Changed(w), NEW text,
           WritesDisk(f, text, Worker \ {w}), UNCHANGED <<knows, copies, plan, left>>,
           NEW n \in Nat, Steps(w, n), Writing(w)
    PROVE  /\ Shape' /\ ShapeOf(w)' /\ Informed(w)' /\ LateIsForeign(w)' /\ Comparing(w)'
           /\ \A v \in Worker \ {w} : RunInv(v)'
           /\ Changed(w)' = Changed(w) /\ late'[w] = late[w] /\ foreign'[w] = foreign[w]
           /\ job'[w].index = n /\ job'[w].at = job[w].at
           /\ job'[w].restored = job[w].restored
           /\ disk' = [disk EXCEPT ![f] = text]
<1> USE DEF FilesInv
<1>0. f \in File
  BY DEF Changed
<1>1. Shape'
  BY DEF WritesDisk, Steps, Shape
<1>2. ASSUME NEW v \in Worker \ {w} PROVE RunInv(v)'
  BY <1>0, <1>2, Overtaken DEF Steps, Shape
<1>3. /\ Changed(w)' = Changed(w) /\ late'[w] = late[w] /\ foreign'[w] = foreign[w]
      /\ job'[w].index = n /\ job'[w].at = job[w].at /\ job'[w].restored = job[w].restored
      /\ disk' = [disk EXCEPT ![f] = text]
  BY DEF WritesDisk, Steps, Shape, RunInv, ShapeOf, Changed
<1>4. ShapeOf(w)'
  BY DEF Steps, Shape, RunInv, ShapeOf
<1>5. LateIsForeign(w)' /\ Comparing(w)'
  BY <1>3 DEF RunInv, LateIsForeign, Comparing, Writing
<1>6. Informed(w)'
  <2>1. \A g \in File \ Changed(w) : disk'[g] = disk[g]
    BY <1>3 DEF Shape
  <2> QED
    BY <1>3, <2>1 DEF RunInv, Informed, Writing, Before
<1> QED BY <1>1, <1>2, <1>3, <1>4, <1>5, <1>6

(* One change of a batch reaches the disk.                                   *)
LEMMA CommittingOne ==
    ASSUME FilesTypes, FilesInv, NEW w \in Worker, NEW f \in File, CommitFile(w, f)
    PROVE  FilesInv'
<1> USE DEF FilesInv, CommitFile
<1>1. /\ f \in Changed(w) \ Behind(w) /\ job[w].at = "committing" /\ Met(w, f) \in Nat
      /\ Upto(w, Met(w, f)) = Behind(w) \cup {f}
  BY Advance
<1>2. /\ Writing(w) /\ UNCHANGED <<knows, copies, plan, left>> /\ Steps(w, Met(w, f))
      /\ WritesDisk(f, After(w, f), Worker \ {w})
  BY <1>1 DEF Writing
<1> HIDE DEF CommitFile, FilesInv
<1> PICK text : text = After(w, f)
  OBVIOUS
<1> PICK n \in Nat : n = Met(w, f)
  BY <1>1
<1>3. /\ Shape' /\ ShapeOf(w)' /\ Informed(w)' /\ LateIsForeign(w)' /\ Comparing(w)'
      /\ \A v \in Worker \ {w} : RunInv(v)'
      /\ Changed(w)' = Changed(w) /\ late'[w] = late[w]
      /\ job'[w].index = Met(w, f) /\ job'[w].at = job[w].at
      /\ disk' = [disk EXCEPT ![f] = After(w, f)]
  <2>1. Steps(w, n) /\ WritesDisk(f, text, Worker \ {w}) /\ FilesInv
    BY <1>2
  <2>2. f \in Changed(w) /\ UNCHANGED <<knows, copies, plan, left>> /\ Writing(w)
    BY <1>1, <1>2
  <2>3. /\ Shape' /\ ShapeOf(w)' /\ Informed(w)' /\ LateIsForeign(w)' /\ Comparing(w)'
        /\ \A v \in Worker \ {w} : RunInv(v)'
        /\ Changed(w)' = Changed(w) /\ late'[w] = late[w] /\ foreign'[w] = foreign[w]
        /\ job'[w].index = n /\ job'[w].at = job[w].at
        /\ job'[w].restored = job[w].restored
        /\ disk' = [disk EXCEPT ![f] = text]
    BY <2>1, <2>2, WritingOne
  <2> QED BY <2>3
<1> USE DEF FilesInv
<1>4. Behind(w)' = Behind(w) \cup {f}
  <2>1. Behind(w)' = Upto(w, Met(w, f))
    BY <1>2, <1>3 DEF Behind, Upto, Changed, Met
  <2> QED BY <1>1, <2>1
<1>5. \A g \in File : After(w, g)' = After(w, g) /\ Before(w, g)' = Before(w, g)
  BY <1>2 DEF After, Before
<1>6. ASSUME NEW g \in Behind(w)' PROVE AsAfter(w, g)'
  <2>1. g \in File BY <1>1, <1>4, <1>6 DEF Behind, Upto, Changed
  <2> QED BY <1>1, <1>3, <1>4, <1>5, <2>1 DEF AsAfter, RunInv, Committing, Shape
<1>7. ASSUME NEW g \in Changed(w) \ Behind(w)' PROVE AsBefore(w, g)'
  <2>1. g \in File /\ g \notin Behind(w) /\ g # f
    BY <1>4, <1>7 DEF Changed
  <2> QED BY <1>1, <1>3, <1>5, <1>7, <2>1 DEF AsBefore, RunInv, Committing, Shape
<1>8. ASSUME NEW g \in Changed(w)
      PROVE  (Before(w, g) = Absent \/ <<g, Before(w, g)>> \in copies)'
  <2>1. g \in File BY DEF Changed
  <2> QED BY <1>1, <1>2, <1>5, <2>1 DEF RunInv, Committing
<1>9. Committing(w)' /\ Restoring(w)'
  BY <1>2, <1>3, <1>6, <1>7, <1>8 DEF Committing, Restoring
<1> QED BY <1>3, <1>9 DEF RunInv

(* The rollback: from what failed back to the first file.                    *)
LEMMA RestoringOne ==
    ASSUME FilesTypes, FilesInv, NEW w \in Worker, NEW f \in File, RestoreFile(w, f)
    PROVE  FilesInv'
<1> USE DEF FilesInv, RestoreFile
<1>1. /\ f \in Changed(w) /\ job[w].at = "restoring" /\ Met(w, f) - 1 \in Nat
      /\ Upto(w, Met(w, f) - 1) = Behind(w) \ {f}
  BY Retreat
<1>2. /\ Writing(w) /\ UNCHANGED <<knows, copies, plan, left>> /\ Steps(w, Met(w, f) - 1)
      /\ WritesDisk(f, Before(w, f), Worker \ {w})
  BY <1>1 DEF Writing
<1> HIDE DEF RestoreFile, FilesInv
<1> PICK text : text = Before(w, f)
  OBVIOUS
<1> PICK n \in Nat : n = Met(w, f) - 1
  BY <1>1
<1>3. /\ Shape' /\ ShapeOf(w)' /\ Informed(w)' /\ LateIsForeign(w)' /\ Comparing(w)'
      /\ \A v \in Worker \ {w} : RunInv(v)'
      /\ Changed(w)' = Changed(w) /\ late'[w] = late[w] /\ foreign'[w] = foreign[w]
      /\ job'[w].index = Met(w, f) - 1 /\ job'[w].at = job[w].at
      /\ job'[w].restored = job[w].restored
      /\ disk' = [disk EXCEPT ![f] = Before(w, f)]
  <2>1. Steps(w, n) /\ WritesDisk(f, text, Worker \ {w}) /\ FilesInv
    BY <1>2
  <2>2. f \in Changed(w) /\ UNCHANGED <<knows, copies, plan, left>> /\ Writing(w)
    BY <1>1, <1>2
  <2>3. /\ Shape' /\ ShapeOf(w)' /\ Informed(w)' /\ LateIsForeign(w)' /\ Comparing(w)'
        /\ \A v \in Worker \ {w} : RunInv(v)'
        /\ Changed(w)' = Changed(w) /\ late'[w] = late[w] /\ foreign'[w] = foreign[w]
        /\ job'[w].index = n /\ job'[w].at = job[w].at
        /\ job'[w].restored = job[w].restored
        /\ disk' = [disk EXCEPT ![f] = text]
    BY <2>1, <2>2, WritingOne
  <2> QED BY <2>3
<1> USE DEF FilesInv
<1>4. Behind(w)' = Behind(w) \ {f}
  <2>1. Behind(w)' = Upto(w, Met(w, f) - 1)
    BY <1>2, <1>3 DEF Behind, Upto, Changed, Met
  <2> QED BY <1>1, <2>1
<1>5. ASSUME NEW g \in Changed(w) \ (Behind(w) \ {f})
      PROVE  AsBefore(w, g)' \/ (~job'[w].restored /\ g \in foreign'[w])
  <2>1. g \in File /\ Before(w, g)' = Before(w, g)
    BY <1>2, <1>5 DEF Changed, Before
  <2>2. CASE g = f
    BY <1>3, <2>1, <2>2 DEF AsBefore, Shape
  <2>3. CASE g # f
    <3>1. g \notin Behind(w) BY <1>5, <2>3
    <3> QED BY <1>1, <1>2, <1>3, <1>5, <2>1, <2>3, <3>1 DEF AsBefore, RunInv, Restoring, Shape
  <2> QED BY <2>2, <2>3
<1>6. Committing(w)' /\ Restoring(w)'
  BY <1>1, <1>3, <1>4, <1>5 DEF Committing, Restoring
<1> QED BY <1>3, <1>6 DEF RunInv

(* A write fails, and the batch turns back.                                  *)
LEMMA Failing ==
    ASSUME FilesTypes, FilesInv, NEW w \in Worker, NEW f \in File, CommitFails(w, f) \/ RestoreFails(w, f)
    PROVE  FilesInv'
<1> USE DEF FilesInv
<1>1. f \in Changed(w) /\ Writing(w) /\ Met(w, f) \in Nat /\ Met(w, f) - 1 \in Nat
  <2>1. f \in Changed(w) /\ Writing(w)
    BY Advance, Retreat DEF CommitFails, RestoreFails, Writing
  <2> QED BY <2>1, MetTyped DEF FilesTypes, PlansTyped
<1>2. UNCHANGED <<disk, copies, knows, plan, late>>
  BY DEF CommitFails, RestoreFails
<1>3. Shape'
  <2>1. left' = left \/ Spends("errors")
    BY DEF CommitFails, RestoreFails
  <2>2. DOMAIN job' = Worker /\ DOMAIN foreign' = Worker
    BY DEF CommitFails, RestoreFails, Shape
  <2> QED BY <1>2, <2>1, <2>2, Spending DEF Shape
<1>4. ASSUME NEW v \in Worker \ {w} PROVE RunInv(v)'
  <2>1. job'[v] = job[v] /\ foreign'[v] = foreign[v]
    BY DEF CommitFails, RestoreFails, Shape
  <2> QED BY <1>2, <2>1, OthersUntouched
<1>5. Changed(w)' = Changed(w) /\ \A g : Before(w, g)' = Before(w, g)
  BY <1>2 DEF Changed, Before
<1>6. CASE CommitFails(w, f)
  <2>1. /\ job'[w].at = "restoring" /\ job'[w].index = Met(w, f) /\ foreign' = foreign
        /\ job[w].at = "committing" /\ DOMAIN job'[w] = DOMAIN job[w]
    BY <1>6 DEF CommitFails, AtFile, Shape, RunInv, ShapeOf
  <2>2. ShapeOf(w)' /\ Writing(w)' /\ Comparing(w)' /\ Committing(w)'
    BY <1>1, <1>2, <2>1 DEF RunInv, ShapeOf, Writing, Comparing, Committing
  <2>3. Informed(w)' /\ LateIsForeign(w)'
    BY <1>1, <1>2, <1>5, <2>1, <2>2 DEF RunInv, Informed, LateIsForeign
  <2>4. Upto(w, Met(w, f)) = Behind(w) \cup {f}
    BY <1>6, Advance DEF CommitFails
  <2>5. Behind(w)' = Upto(w, Met(w, f))
    BY <1>2, <2>1 DEF Behind, Upto, Changed, Met
  <2>6. Restoring(w)'
    BY <1>2, <1>5, <2>1, <2>4, <2>5 DEF RunInv, Committing, Restoring, AsBefore
  <2> QED BY <1>3, <1>4, <2>2, <2>3, <2>6 DEF RunInv
<1>7. CASE RestoreFails(w, f)
  <2>1. /\ job'[w].at = "restoring" /\ job'[w].index = Met(w, f) - 1
        /\ job'[w].restored = FALSE
        /\ foreign'[w] = foreign[w] \cup {f}
        /\ job[w].at = "restoring" /\ DOMAIN job'[w] = DOMAIN job[w]
    BY <1>7 DEF RestoreFails, BackAt, Shape, RunInv, ShapeOf
  <2>2. ShapeOf(w)' /\ Writing(w)' /\ Comparing(w)' /\ Committing(w)'
    BY <1>1, <1>2, <2>1 DEF RunInv, ShapeOf, Writing, Comparing, Committing
  <2>3. Informed(w)' /\ LateIsForeign(w)'
    BY <1>1, <1>2, <1>5, <2>1, <2>2 DEF RunInv, Informed, LateIsForeign
  <2>4. Upto(w, Met(w, f) - 1) = Behind(w) \ {f}
    BY <1>7, Retreat DEF RestoreFails
  <2>5. Behind(w)' = Upto(w, Met(w, f) - 1)
    BY <1>2, <2>1 DEF Behind, Upto, Changed, Met
  <2>6. Restoring(w)'
    BY <1>2, <1>5, <2>1, <2>4, <2>5 DEF RunInv, Restoring, AsBefore
  <2> QED BY <1>3, <1>4, <2>2, <2>3, <2>6 DEF RunInv
<1> QED BY <1>6, <1>7

(* The batch is over: what the run knows is brought up to date.              *)
LEMMA Finishing ==
    ASSUME FilesInv, NEW w \in Worker, CommitReported(w) \/ FinishApply(w)
    PROVE  FilesInv'
<1> USE DEF FilesInv
<1>1. Leaves(w) /\ UNCHANGED <<disk, copies, left>>
  BY DEF CommitReported, FinishApply
<1>2. /\ DOMAIN knows' = Worker /\ DOMAIN knows'[w] = File /\ DOMAIN foreign' = Worker
      /\ \A v \in Worker \ {w} : /\ knows'[v] \in {knows[v], Unread}
                                  /\ foreign'[v] = foreign[v]
  <2>1. CASE CommitReported(w)
    BY <2>1 DEF CommitReported, Shape, RunInv, ShapeOf
  <2>2. CASE FinishApply(w)
    <3>1. \E written : /\ DOMAIN written = File
                       /\ \/ LedgerRecord(w, written)
                          \/ knows' = [knows EXCEPT ![w] = written]
      BY <2>2 DEF FinishApply
    <3>2. /\ DOMAIN knows' = Worker /\ DOMAIN knows'[w] = File
          /\ \A v \in Worker \ {w} : knows'[v] \in {knows[v], Unread}
      BY <3>1 DEF LedgerRecord, Shape
    <3>3. foreign' = [foreign EXCEPT ![w] = (foreign[w] \ Changed(w)) \cup late[w]]
      BY <2>2 DEF FinishApply
    <3> QED BY <3>2, <3>3 DEF Shape
  <2> QED BY <2>1, <2>2
<1>3. Shape'
  BY <1>1, <1>2 DEF Shape, Leaves
<1>4. ASSUME NEW v \in Worker \ {w} PROVE RunInv(v)'
  <2>1. job'[v] = job[v] /\ plan'[v] = plan[v] /\ late'[v] = late[v]
    BY <1>1 DEF Leaves, Shape
  <2> QED BY <1>1, <1>2, <2>1, OthersUntouched
<1>5. \A f \in File \ foreign'[w] : knows'[w][f] \in {Absent, disk'[f]}
  <2>1. CASE CommitReported(w)
    <3>1. /\ job[w].at = "restoring" /\ Behind(w) = {} /\ knows' = knows
          /\ foreign' = foreign
      BY <2>1 DEF CommitReported
    <3>3. \A f \in Changed(w) \ foreign[w] : AsBefore(w, f)
      BY <3>1 DEF RunInv, Restoring
    <3> QED
      BY <1>1, <3>1, <3>3 DEF RunInv, Informed, LateIsForeign, AsBefore, Writing
  <2>2. CASE FinishApply(w)
    <3>1. /\ job[w].at = "committing" /\ foreign'[w] = (foreign[w] \ Changed(w)) \cup late[w]
          /\ knows'[w] = [f \in File |-> IF f \in Changed(w) THEN After(w, f) ELSE knows[w][f]]
      BY <2>2 DEF FinishApply, Done, LedgerRecord, Shape
    <3>2. Behind(w) = Changed(w)
      BY <2>2, BehindChanged DEF FinishApply, Done, Ahead, Behind
    <3>3. \A f \in Changed(w) : AsAfter(w, f)
      BY <3>1, <3>2 DEF RunInv, Committing
    <3> QED
      BY <1>1, <3>1, <3>3 DEF RunInv, Informed, AsAfter
  <2> QED BY <2>1, <2>2
<1>6. RunInv(w)'
  BY <1>1, <1>2, <1>5, Leaving
<1> QED BY <1>3, <1>4, <1>6

(* The others and the end of the host.                                       *)
LEMMA UserWriting == ASSUME FilesInv, NEW f \in File, UserWrites(f) PROVE FilesInv'
<1> USE DEF FilesInv
<1>1. PICK text : WritesDisk(f, text, Worker)
  BY DEF UserWrites
<1>2. UNCHANGED <<copies, knows, job, plan>> /\ Spends("edits")
  BY DEF UserWrites
<1>3. Shape'
  BY <1>1, <1>2, Spending DEF WritesDisk, Shape
<1>4. ASSUME NEW w \in Worker PROVE RunInv(w)'
  BY <1>1, <1>2, Overtaken
<1> QED BY <1>3, <1>4

(* A restart begins with nothing known.                                      *)
LEMMA Dying == ASSUME FilesInv, HostDies PROVE FilesInv'
<1>1. Shape'
  BY Spending DEF FilesInv, HostDies, Shape
<1>2. ASSUME NEW w \in Worker PROVE RunInv(w)'
  BY DEF HostDies, RunInv, ShapeOf, Informed, LateIsForeign, Comparing, Committing, Restoring,
     NoBatch, Unread, Writing
<1> QED BY <1>1, <1>2 DEF FilesInv

(* A step that changes nothing keeps everything.                             *)
LEMMA Stuttering == ASSUME FilesInv, UNCHANGED filesVars PROVE FilesInv'
<1>1. Shape' BY DEF filesVars, FilesInv, Shape
<1>2. ASSUME NEW w \in Worker PROVE RunInv(w)'
  BY Bystander DEF filesVars, FilesInv
<1> QED BY <1>1, <1>2 DEF FilesInv

(* Every step keeps the invariant, so it always holds.                       *)
LEMMA EveryStep == FilesTypes /\ FilesInv /\ [FilesNext]_filesVars => FilesInv'
<1> SUFFICES ASSUME FilesTypes, FilesInv, [FilesNext]_filesVars PROVE FilesInv'
  OBVIOUS
<1>1. ASSUME NEW w \in Worker,
             \/ Apply(w) \/ PlanChange(w) \/ PlanRefused(w) \/ CheckFresh(w)
             \/ ReviewPasses(w) \/ ReviewEnds(w) \/ SnapshotFails(w)
             \/ \E f \in File : Compare(w, f)
      PROVE  FilesInv'
  BY <1>1, BeforeWriting
<1>2. ASSUME NEW w \in Worker, NEW f \in File,
             \/ ReadOne(w, f) \/ CommitFile(w, f) \/ CommitFails(w, f)
             \/ RestoreFile(w, f) \/ RestoreFails(w, f)
      PROVE  FilesInv'
  BY <1>2, Reading, CommittingOne, RestoringOne, Failing
<1>3. ASSUME NEW w \in Worker, TakeSnapshot(w) \/ CommitReported(w) \/ FinishApply(w)
      PROVE  FilesInv'
  BY <1>3, Snapshotting, Finishing
<1>4. CASE (\E f \in File : UserWrites(f)) \/ HostDies \/ UNCHANGED filesVars
  BY <1>4, UserWriting, Dying, Stuttering
<1> QED BY <1>1, <1>2, <1>3, <1>4 DEF FilesNext

LEMMA Always == FilesSpec => []FilesInv
BY AtStart, TypesAlways, EveryStep, PTL DEF FilesSpec

(* What a run knows of a file nobody else wrote is what the disk holds.      *)
THEOREM KnowledgeHolds == FilesSpec => []LedgerCurrent
BY Always, InvImplies, PTL

(* A batch overwrites only what it was planned from, of which there is a     *)
(* copy, but for writes in the moments since it compared the files.          *)
THEOREM NothingLost == FilesSpec => []OriginalsKept
BY Always, InvImplies, PTL

(* A batch is reported as applied with all its files as planned, and as      *)
(* failed and restored with all of them as they were.                        *)
LEMMA Reported ==
    FilesInv /\ [FilesNext]_filesVars =>
        [\A w \in Worker : job'[w].at = "idle" /\ left'.deaths = left.deaths =>
           \A f \in Changed(w) \ late[w] :
               /\ job[w].at = "committing" => disk[f] = After(w, f)
               /\ job[w].at = "restoring" /\ job[w].restored => disk[f] = Before(w, f)
        ]_filesVars
<1> SUFFICES ASSUME FilesInv, FilesNext, NEW w \in Worker, job'[w].at = "idle",
                    left'.deaths = left.deaths, NEW f \in Changed(w) \ late[w], Writing(w)
             PROVE  /\ job[w].at = "committing" => disk[f] = After(w, f)
                    /\ job[w].at = "restoring" /\ job[w].restored => disk[f] = Before(w, f)
  BY DEF Writing
<1>1. ~HostDies
  BY Spending DEF HostDies, FilesInv, Shape
<1>2. ~(\E g \in File : UserWrites(g))
  BY DEF UserWrites, Writing
<1>3. ASSUME NEW v \in Worker, v # w
      PROVE  /\ ~(\/ Apply(v) \/ PlanChange(v) \/ PlanRefused(v) \/ CheckFresh(v)
                  \/ ReviewPasses(v) \/ ReviewEnds(v) \/ TakeSnapshot(v) \/ SnapshotFails(v)
                  \/ CommitReported(v) \/ FinishApply(v))
             /\ ~\E g \in File : \/ ReadOne(v, g) \/ Compare(v, g) \/ CommitFile(v, g)
                                 \/ CommitFails(v, g) \/ RestoreFile(v, g) \/ RestoreFails(v, g)
  <2>1. job'[w] # job[w]
    BY DEF Writing
  <2> QED
    BY <1>3, <2>1 DEF FilesInv, Shape, Leaves, Goes, Steps, Apply, PlanChange, PlanRefused,
       CheckFresh, ReviewPasses, ReviewEnds, TakeSnapshot, SnapshotFails, CommitReported,
       FinishApply, ReadOne, Compare, CommitFile, CommitFails, RestoreFile, RestoreFails
<1>4. ~(\/ Apply(w) \/ PlanChange(w) \/ PlanRefused(w) \/ CheckFresh(w) \/ ReviewPasses(w)
        \/ ReviewEnds(w) \/ TakeSnapshot(w) \/ SnapshotFails(w)
        \/ \E g \in File : ReadOne(w, g) \/ Compare(w, g))
  BY DEF Writing, Apply, PlanChange, Planning, PlanRefused, CheckFresh, ReviewPasses, ReviewEnds,
     TakeSnapshot, SnapshotFails, ReadOne, Compare, AtFile, Done, Goes
<1>5. ~\E g \in File : \/ CommitFile(w, g) \/ CommitFails(w, g)
                       \/ RestoreFile(w, g) \/ RestoreFails(w, g)
  <2>1. DOMAIN job = Worker /\ DOMAIN job[w] = {"at", "batch", "index", "restored"}
    BY DEF FilesInv, Shape, RunInv, ShapeOf
  <2>2. ~\E g \in File : CommitFile(w, g) \/ RestoreFile(w, g)
    BY <2>1 DEF CommitFile, RestoreFile, AtFile, BackAt, Steps
  <2>3. ~\E g \in File : CommitFails(w, g)
    BY <2>1 DEF CommitFails
  <2>4. ~\E g \in File : RestoreFails(w, g)
    BY <2>1 DEF RestoreFails, BackAt
  <2> QED BY <2>2, <2>3, <2>4
<1>6. CASE CommitReported(w)
  <2>1. job[w].at = "restoring" /\ Behind(w) = {}
    BY <1>6 DEF CommitReported
  <2> QED BY <2>1 DEF FilesInv, RunInv, Restoring, AsBefore
<1>7. CASE FinishApply(w)
  <2>1. job[w].at = "committing" /\ Behind(w) = Changed(w)
    BY <1>7, BehindChanged DEF FinishApply, Done, Ahead, Behind
  <2> QED BY <2>1 DEF FilesInv, RunInv, Committing, AsAfter
<1> QED BY <1>1, <1>2, <1>3, <1>4, <1>5, <1>6, <1>7 DEF FilesNext

(* A batch that leaves as applied or as restored left its files all as       *)
(* planned, or all as they were, but for those others wrote meanwhile.       *)
THEOREM BatchesWhole == FilesSpec => AllOrNothing
BY Always, Reported, PTL DEF FilesSpec, AllOrNothing
=============================================================================
