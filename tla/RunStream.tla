------------------------------ MODULE RunStream ------------------------------
(***************************************************************************)
(* The event stream of one run, crates/zvs-host/src/kernel/stream.rs over    *)
(* the handle of platform/events.rs: events get their sequence numbers and    *)
(* reach the windows at once, tokens are merged and stored late, everything   *)
(* else is stored, together with the caller's rows, before it is delivered.  *)
(* A crash loses what was not stored, and recovery reopens the stream.       *)
(***************************************************************************)
EXTENDS Naturals, Sequences

CONSTANTS
    TokenKind,     \* DeltaKind: the kinds of token
    MaxEvents,     \* bound on the events of one process
    MaxCrashes,
    MaxFaults

ASSUME KindAssumption == TokenKind # {} /\ TokenKind \cap {"step", "end"} = {}
ASSUME BoundAssumption == {MaxEvents, MaxCrashes, MaxFaults} \subseteq Nat

Kind == TokenKind \cup {"step", "end"}

\* A row of run_event stands for the events first..seq of the stream.
Row == [kind : Kind, first : Nat, seq : Nat]

VARIABLES
    next,        \* StreamState.seq
    streamClosed, \* StreamState.closed
    buffer,      \* TokenBuffer.merged, as a sequence of at most one row
    table,       \* run_event
    sent,        \* kinds of the events delivered so far, by sequence number
    alive,       \* the stream is open in a living process
    crashes, faults

streamVars == <<next, streamClosed, buffer, table, sent, alive, crashes, faults>>

StreamTypeOK ==
    /\ next \in Nat
    /\ streamClosed \in BOOLEAN
    /\ buffer \in Seq(Row) /\ Len(buffer) <= 1
    /\ table \in Seq(Row)
    /\ sent \in Seq(Kind)
    /\ alive \in BOOLEAN
    /\ crashes \in Nat
    /\ faults \in Nat

StreamInit ==
    /\ next = 0 /\ streamClosed = FALSE /\ buffer = << >> /\ table = << >>
    /\ sent = << >> /\ alive = TRUE /\ crashes = 0 /\ faults = 0

-----------------------------------------------------------------------------
Event(kind, seq) == [kind |-> kind, first |-> seq, seq |-> seq]

\* publish_with numbers the drafts; a closed stream drops them.
Numbered(drafts) ==
    IF streamClosed THEN << >> ELSE [i \in DOMAIN drafts |-> Event(drafts[i], next + i - 1)]

\* ... and, once they are persisted, delivers them.
Publish(events) ==
    /\ next' = next + Len(events)
    /\ streamClosed' = (streamClosed \/ \E i \in DOMAIN events : events[i].kind = "end")
    /\ sent' = sent \o [i \in DOMAIN events |-> events[i].kind]

\* A transaction that stores rows commits or, within the bound, fails.
Stores(rows, ok) ==
    \/ ok = TRUE /\ table' = table \o rows /\ UNCHANGED faults
    \/ ok = FALSE /\ rows # << >> /\ faults < MaxFaults
       /\ faults' = faults + 1 /\ UNCHANGED table

\* Mutant: the merged row keeps the sequence number of its first token.
MergedAtFirst(event) == buffer[1]

Merged(event) == [buffer[1] EXCEPT !.seq = event.seq]

Continued(event) == buffer # << >> /\ buffer[1].kind = event.kind

\* What TokenBuffer::push leaves in the buffer and what it gives out.  A row
\* that was just started is never due.
Kept(event, due) == IF ~Continued(event) THEN <<event>>
                    ELSE IF due THEN << >> ELSE <<Merged(event)>>

Flushed(event, due) == IF ~Continued(event) THEN buffer
                       ELSE IF due THEN <<Merged(event)>> ELSE << >>

\* emit of a token.
Token(kind, due) ==
    /\ alive /\ ~streamClosed /\ next < MaxEvents
    /\ LET event == Event(kind, next)
       IN  \E ok \in BOOLEAN :
             /\ Stores(Flushed(event, due), ok)
             /\ IF ok THEN buffer' = Kept(event, due) /\ Publish(<<event>>)
                      ELSE UNCHANGED <<next, streamClosed, buffer, sent>>
    /\ UNCHANGED <<alive, crashes>>

\* Mutant: only the buffer is stored with the unit of work.
UnitOfBuffer(events) == buffer

\* The buffered token goes first.
Unit(events) == buffer \o events

\* commit: the caller's rows, the buffer and the events in one transaction.
\* Rows of abandoned tasks are still committed on a closed stream.
CommitUnit(drafts) ==
    /\ alive /\ next + Len(drafts) <= MaxEvents
    /\ LET events == Numbered(drafts)
       IN  \E ok \in BOOLEAN :
             /\ Stores(Unit(events), ok)
             /\ IF ok THEN buffer' = << >> /\ Publish(events)
                      ELSE UNCHANGED <<next, streamClosed, buffer, sent>>
    /\ UNCHANGED <<alive, crashes>>

\* Drop: a last flush, whose failure is ignored.
Drop ==
    /\ alive /\ alive' = FALSE
    /\ \E ok \in BOOLEAN : Stores(buffer, ok)
    /\ buffer' = << >>
    /\ UNCHANGED <<next, streamClosed, sent, crashes>>

Crash ==
    /\ alive /\ crashes < MaxCrashes
    /\ alive' = FALSE /\ crashes' = crashes + 1
    /\ buffer' = << >>
    /\ UNCHANGED <<next, streamClosed, table, sent, faults>>

Last(rows) == rows[Len(rows)]

\* next_sequence.
NextSequence == IF table = << >> THEN 0 ELSE Last(table).seq + 1

\* Mutant: every run is recovered.
UnfinishedAlways == TRUE

\* `end` is stored together with the final status, so a run is unfinished as
\* long as its table has none.
Unfinished == \A i \in DOMAIN table : table[i].kind # "end"

\* RunService::open_stream on recovery.
Reopen ==
    /\ ~alive /\ Unfinished
    /\ alive' = TRUE /\ streamClosed' = FALSE /\ buffer' = << >>
    /\ next' = NextSequence
    /\ sent' = SubSeq(sent, 1, NextSequence)
    /\ UNCHANGED <<table, crashes, faults>>

\* A dropped stream of a finished run is never used again.
Gone == ~alive /\ ~Unfinished /\ UNCHANGED streamVars

Drafts == {<< >>, <<"step">>, <<"step", "end">>}

StreamNext ==
    \/ \E kind \in TokenKind, due \in BOOLEAN : Token(kind, due)
    \/ \E drafts \in Drafts : CommitUnit(drafts)
    \/ Drop \/ Crash \/ Reopen \/ Gone

StreamSpec == StreamInit /\ [][StreamNext]_streamVars

-----------------------------------------------------------------------------
\* While the stream is open, record() is the stream: rows in order, each
\* event in exactly one of them, under its own kind, and nothing but tokens
\* merged, however kinds alternate, flushes fall due, commits fail and the
\* process restarts (TokenBuffer::push, commit, record, next_sequence).
RecordIsStream ==
    LET record == table \o buffer
    IN  alive =>
          /\ Len(sent) = next
          /\ \A i \in DOMAIN record :
               /\ record[i].first = IF i = 1 THEN 0 ELSE record[i - 1].seq + 1
               /\ record[i].seq >= record[i].first
               /\ record[i].kind \notin TokenKind => record[i].seq = record[i].first
               /\ \A s \in record[i].first .. record[i].seq :
                      sent[s + 1] = record[i].kind
          /\ next = IF record = << >> THEN 0 ELSE Last(record).seq + 1

\* Recovery takes back nothing but a tail of tokens of one kind: a step, a
\* status or an approval that a window saw is in the database (commit).
CrashLosesTokensOnly ==
    [][~alive /\ alive'
         => \E kind \in TokenKind :
               \A i \in DOMAIN sent : i > Len(sent') => sent[i] = kind]_streamVars

\* Nothing follows `end`, not from a task that was left behind and not after
\* a restart (publish_with, recover).
EndIsLast ==
    [][(\E i \in DOMAIN sent : sent[i] = "end") => sent' = sent]_streamVars

=============================================================================
