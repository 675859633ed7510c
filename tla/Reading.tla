------------------------------- MODULE Reading -------------------------------
(***************************************************************************)
(* Callers that follow a job: read and read_wait of the supervisor, with   *)
(* the event that _signal_change sets, over the journal of EventJournal.   *)
(* A reader keeps its event cursor from one poll to the next, and prints   *)
(* what skills/agent-jobs/scripts/delegate.py prints.                      *)
(*                                                                         *)
(* Reads are atomic, as no read awaits.  A cursor is a byte offset; reads   *)
(* leave it at the end of a line or of the file, so it is counted in       *)
(* writes here.  The combined log is left out but for its signals.         *)
(***************************************************************************)
EXTENDS EventJournal

CONSTANTS
  Readers,
  Followers,  \* those that read the events, with an event_cursor
  Pages,      \* bound: values of max_bytes
  MaxOutputs  \* bound: chunks of output whose time is stored

VARIABLES
  deferred, \* asyncio before Python 3.12: wait_for begins event.wait() in a task of its own
  stalled,  \* whether _public calls the running job possibly_stalled
  event,    \* the event of the job in change_events
  outputs,  \* chunks of output so far whose time was stored
  reader    \* where each reader is

vars == <<status, file, memory, partial, row, stamp, answer, died, deferred, stalled, event,
          outputs, reader>>

ASSUME ReadingAssumption ==
  Followers \subseteq Readers /\ Pages \subseteq Nat \ {0} /\ MaxOutputs \in Nat

\* starting: suspended in wait_for, but event.wait() has not begun
Stage == {"ready", "starting", "waiting", "done"}

TypeOK ==
  /\ JournalTypeOK
  /\ deferred \in BOOLEAN
  /\ stalled \in BOOLEAN
  /\ event \in {"none", "clear", "set"}
  /\ outputs \in 0..MaxOutputs
  /\ reader \in [Readers ->
       [stage : Stage, page : Pages \cup {0}, cursor : Nat, got : Seq(Nat),
        seen : Status \X BOOLEAN \X Nat,
        attached : BOOLEAN, woken : BOOLEAN, printed : Seq(Text)]]

NewReader == [stage |-> "ready", page |-> 0, cursor |-> 0, got |-> <<>>,
              seen |-> <<"queued", FALSE, 0>>, attached |-> FALSE, woken |-> FALSE, printed |-> <<>>]

Init ==
  /\ JournalInit
  /\ deferred \in BOOLEAN
  /\ stalled = FALSE
  /\ event = "none"
  /\ outputs = 0
  /\ reader = [r \in Readers |-> NewReader]

-----------------------------------------------------------------------------
(* Pages of the journal.                                                   *)

\* A write ends a line, or is the last.
EndsLine(e) == file[e].ended \/ e = Len(file)

\* _read_events reads lines until they are max_bytes or the journal ends.
PageEnd(cursor, max) ==
  LET Full(e) == EndsLine(e) /\ Bytes(SubSeq(file, cursor + 1, e)) >= max
  IN CHOOSE e \in cursor..Len(file) :
       /\ e = Len(file) \/ (e > cursor /\ Full(e))
       /\ \A d \in cursor + 1..e - 1 : ~Full(d)

\* The events of a page; 0 is one that the reader made up for a broken line.
Page(cursor, max) ==
  LET Event(e) == IF file[e].ended /\ (e = cursor + 1 \/ file[e - 1].ended) THEN e ELSE 0
      upTo[e \in cursor..PageEnd(cursor, max)] ==
        IF e = cursor THEN <<>>
        ELSE IF EndsLine(e) THEN Append(upTo[e - 1], Event(e)) ELSE upTo[e - 1]
  IN upTo[PageEnd(cursor, max)]

\* Not every page is one: a line that holds a write which stopped within a
\* character, and the write that ended the line later, is no UTF-8, and
\* json.loads raises what _read_events does not catch.
Undecodable(cursor, max) ==
  \E e \in cursor + 1..PageEnd(cursor, max) :
    file[e].garbled /\ \E d \in e + 1..PageEnd(cursor, max) : file[d].ended

\* Mutation: the cursor goes to the size of the file.
NextCursorSize(cursor, max) == Len(file)

NextCursor(cursor, max) == PageEnd(cursor, max)

-----------------------------------------------------------------------------
(* The delegate.                                                           *)

Texts(page) ==
  LET Speaks(e) == e # 0 /\ file[e].text # NoText
      upTo[n \in 0..Len(page)] ==
        IF n = 0 THEN <<>>
        ELSE IF Speaks(page[n]) THEN Append(upTo[n - 1], file[page[n]].text) ELSE upTo[n - 1]
  IN upTo[Len(page)]

\* Mutation: as many texts as were printed are skipped.
RemainderByLength(emitted) == SubSeq(partial, Len(emitted) + 1, Len(partial))

\* What it prints at the end besides the events: all of the partial response
\* unless what it printed begins it.
Remainder(emitted) ==
  IF IsPrefix(emitted, partial) THEN SubSeq(partial, Len(emitted) + 1, Len(partial)) ELSE partial

-----------------------------------------------------------------------------
(* Reads.                                                                  *)

\* The public status, which has the liveness in it, and the stamps of the job.
Fingerprint == <<status, stalled, stamp>>

\* The events go to a caller that follows them, with its next cursor.
Followed(r) ==
  LET page == Page(r.cursor, r.page)
      emitted == IF row.failed THEN r.printed ELSE r.printed \o Texts(page)
  IN [r EXCEPT !.cursor = NextCursor(r.cursor, r.page),
               !.got = @ \o page,
               !.printed = IF status \in Ended /\ ~row.failed
                             THEN emitted \o Remainder(emitted) ELSE emitted]

\* A read that raises is answered with the error, and its caller may ask again.
Refused(r, asked) == r \in Followers /\ Undecodable(asked.cursor, asked.page)

\* What was asked goes with the request.
Over(asked, next) ==
  [asked EXCEPT !.stage = next, !.page = 0, !.seen = NewReader.seen,
                !.attached = FALSE, !.woken = FALSE]

\* A read that is answered; its caller is done when the job has ended.
Answered(r, asked) ==
  IF Refused(r, asked)
    THEN Over(asked, "ready")
    ELSE Over(IF r \in Followers THEN Followed(asked) ELSE asked,
              IF status \in Ended THEN "done" ELSE "ready")

\* read_wait keeps on waiting while this is false.
News(r, asked) ==
  \/ r \in Followers /\ asked.cursor < Len(file)
  \/ status \in Ended
  \/ Fingerprint # asked.seen

Waiting(r) == reader[r].stage = "waiting"
Suspended(r) == reader[r].stage \in {"starting", "waiting"}
Waits == IF deferred THEN "starting" ELSE "waiting"

\* Mutation: every waiter brings an event of its own.
RegisterAnew == [r \in Readers |-> [reader[r] EXCEPT !.attached = FALSE]]

\* change_events.setdefault: the others keep theirs.
Register == reader

\* _signal_change sets the event of the registry, if there is one.
Woken == [r \in Readers |-> IF Waiting(r) /\ event # "none" /\ reader[r].attached
                            THEN [reader[r] EXCEPT !.woken = TRUE] ELSE reader[r]]
Set == IF event = "none" THEN "none" ELSE "set"

\* The finally of read_wait, or of a task: the event leaves the registry as it
\* is, and those who wait on it are no longer reached.
Unregistered(rs, flag) ==
  [r \in Readers |->
     [rs[r] EXCEPT !.attached = FALSE,
                   !.woken = @ \/ (rs[r].stage = "starting" /\ rs[r].attached /\ flag = "set")]]

\* A request that finds something to say, or need not wait, is answered; else
\* it clears the event, reads once more and waits.
Poll(r, page) ==
  LET asked == [reader[r] EXCEPT !.page = page, !.seen = Fingerprint]
  IN /\ reader[r].stage = "ready"
     /\ IF News(r, asked)
          THEN reader' = [reader EXCEPT ![r] = Answered(r, asked)] /\ UNCHANGED event
          ELSE /\ reader' = [Register EXCEPT ![r] = [asked EXCEPT !.stage = Waits, !.attached = TRUE]]
               /\ event' = "clear"
     /\ UNCHANGED <<journalVars, deferred, stalled, outputs>>

\* event.wait() begins, and ends at once if the event is set.
Begin(r) ==
  /\ reader[r].stage = "starting"
  /\ reader' = [reader EXCEPT ![r].stage = "waiting",
                              ![r].woken = @ \/ (reader[r].attached /\ event = "set")]
  /\ UNCHANGED <<journalVars, deferred, stalled, event, outputs>>

\* What a reader leaves behind when its wait is over
Leaves(r) ==
  LET left == [reader EXCEPT ![r] = Answered(r, reader[r])]
  IN IF status \in Ended /\ event # "none" /\ reader[r].attached
       THEN event' = "none" /\ reader' = Unregistered(left, event)
       ELSE UNCHANGED event /\ reader' = left

\* The wait is over because the event was set: it is cleared, and the job is
\* read again.
Wake(r) ==
  /\ Waiting(r) /\ reader[r].woken
  /\ IF News(r, reader[r])
       THEN Leaves(r)
       ELSE /\ reader' = [reader EXCEPT ![r].stage = Waits, ![r].woken = FALSE]
            /\ event' = IF reader[r].attached THEN "clear" ELSE event
  /\ UNCHANGED <<journalVars, deferred, stalled, outputs>>

\* The wait runs out: whatever there is is the answer.
TimeOut(r) ==
  /\ Waiting(r)
  /\ Leaves(r)
  /\ UNCHANGED <<journalVars, deferred, stalled, outputs>>

-----------------------------------------------------------------------------
(* The job.                                                                *)

\* Mutation: only what is persisted is signalled.
SignalsPersisted ==
  IF row' # row THEN reader' = Woken /\ event' = Set ELSE UNCHANGED <<reader, event>>

\* Every change of the job ends with _signal_change.
Signals == reader' = Woken /\ event' = Set

Launches ==
  /\ \E recorded \in BOOLEAN : Launch(recorded)
  /\ Signals
  /\ UNCHANGED <<deferred, stalled, outputs>>

\* Time passes without progress: the public status changes, and nothing says so.
Stalls ==
  /\ status = "running" /\ ~stalled
  /\ stalled' = TRUE
  /\ UNCHANGED <<journalVars, deferred, event, outputs, reader>>

\* What is not progress may end the silence, if no semantic stream counts it.
Stirs == stalled' \in {FALSE, stalled}

Deltas ==
  /\ \/ (\E w \in Widths, persist \in BOOLEAN : Delta(w, persist)) /\ stalled' = FALSE
     \/ /\ \E w \in Widths, torn, garbled, warned \in BOOLEAN :
             NormalizationFails(w, torn, garbled, warned)
        /\ Stirs
  /\ Signals
  /\ UNCHANGED <<deferred, outputs>>

\* _append_log signals every chunk; the time of the last one is stored once
\* per second.
Output(stored) ==
  /\ status = "running"
  /\ stored => outputs < MaxOutputs
  /\ outputs' = IF stored THEN outputs + 1 ELSE outputs
  /\ stamp' = IF stored THEN stamp + 1 ELSE stamp
  /\ UNCHANGED <<status, file, memory, partial, row, answer, died, deferred>>
  /\ Stirs
  /\ Signals

Finishes ==
  /\ \E recorded \in BOOLEAN : Finish(recorded)
  /\ stalled' = FALSE
  /\ Signals
  /\ UNCHANGED <<deferred, outputs>>

\* The handler of cancel removes the event after the signal.
Cancels ==
  /\ \E recorded \in BOOLEAN : CancelQueued(recorded)
  /\ event' = "none"
  /\ reader' = Unregistered(Woken, Set)
  /\ UNCHANGED <<deferred, stalled, outputs>>

\* The end of the task
Cleanup ==
  /\ memory # Forgotten \/ event # "none"
  /\ Forget
  /\ event' = "none"
  /\ reader' = Unregistered(reader, event)
  /\ UNCHANGED <<deferred, stalled, outputs>>

\* Connections break: a caller asks again with the cursor it has, or never.
Restarts ==
  /\ \/ \E recorded \in BOOLEAN : Restart(recorded)
     \/ \E verdict \in Ended : DiesEnding(verdict)
  /\ stalled' = FALSE
  /\ event' = "none"
  /\ reader' = [r \in Readers |->
       IF Suspended(r) THEN Over(reader[r], "ready") ELSE reader[r]]
  /\ UNCHANGED <<deferred, outputs>>

Polls == \E r \in Readers, page \in Pages : Poll(r, page)
Begins == \E r \in Readers : Begin(r)
Wakes == \E r \in Readers : Wake(r)
TimeOuts == \E r \in Readers : TimeOut(r)
Outputs == \E stored \in BOOLEAN : Output(stored)

Next == Launches \/ Stalls \/ Deltas \/ Outputs \/ Finishes \/ Cancels \/ Cleanup \/ Restarts
        \/ Polls \/ Begins \/ Wakes \/ TimeOuts

Spec == Init /\ [][Next]_vars

\* The event loop resumes a waiter whose event is set; nothing is assumed of
\* the job, of callers or of time.
FairSpec == Spec /\ \A r \in Readers : WF_vars(Begin(r)) /\ WF_vars(Wake(r))

-----------------------------------------------------------------------------
(* What readers may rely on.                                               *)

\* All that is new for a waiting reader is that time made the job look stalled.
OnlyStalled(r) ==
  /\ ~(r \in Followers /\ reader[r].cursor < Len(file))
  /\ status \notin Ended
  /\ reader[r].seen = <<status, FALSE, stamp>> /\ stalled

\* A reader that waits and is not about to be resumed has missed nothing: no
\* event, no end of the job and no change of its fingerprint but the one that
\* time makes and no task signals, of running into possibly_stalled.
NoLostWakeup ==
  ~deferred => \A r \in Readers :
    Waiting(r) /\ ~reader[r].woken => ~News(r, reader[r]) \/ OnlyStalled(r)

\* However long the pages, whatever is appended between them and however often a
\* read is refused, a reader has got every record before its cursor that can be
\* read, once and in order.
PagesMissNothing ==
  \A r \in Readers :
    LET got == reader[r].got
        readable == {i \in DOMAIN got : got[i] # 0 /\ Intact(file, got[i])}
    IN /\ {got[i] : i \in readable} = {e \in 1..reader[r].cursor : Intact(file, e)}
       /\ \A i, j \in readable : i < j => got[i] < got[j]

\* A delegate that is done has printed all that was retained of the answer, in
\* its order and last, also when budgets left gaps in the journal.
RetainedIsPrinted ==
  \A r \in Followers : reader[r].stage = "done" /\ ~row.failed => IsSuffix(partial, reader[r].printed)

\* The end of a job reaches all who wait for it before their time runs out.
EndReachesReaders == status \in Ended ~> \A r \in Readers : ~Suspended(r)

-----------------------------------------------------------------------------
(* What the documentation says.                                            *)

\* A waiting read wakes on output and terminal state.
WakesOnNews ==
  \A r \in Readers :
    Waiting(r) /\ News(r, reader[r]) /\ ~OnlyStalled(r) => reader[r].woken
=============================================================================
