----------------------------- MODULE EventJournal -----------------------------
(***************************************************************************)
(* What the supervisor retains of one job whose provider has a semantic    *)
(* adapter: the journal of normalized events, the partial response and the *)
(* flags of its row (_record_event, _next_event_seq,                       *)
(* _write_partial_response, _normalize_provider_bytes of                   *)
(* src/tools/agent_job_supervisor.py).                                     *)
(*                                                                         *)
(* Only answer texts (message_delta) are told apart from other events.  A  *)
(* text is one character of some width, so a longer text is several of     *)
(* them.  The life of the job is that of JobSupervisor, reduced to what    *)
(* writes here; a shutdown is a restart here, it drops every connection.   *)
(***************************************************************************)
EXTENDS Integers, Sequences, SequencesExt

CONSTANTS
  Widths,         \* bound: the widths of texts in bytes
  MaxDeltas,      \* bound: texts the provider emits
  Budget,         \* MAX_EVENT_LOG_BYTES
  PartialBudget,  \* MAX_PARTIAL_RESPONSE_BYTES
  Header,         \* size of an event besides its text
  WarningSize,    \* size of the warning about the budget
  TerminalSize    \* size of job_terminal

ASSUME JournalAssumption ==
  /\ Widths \subseteq Nat \ {0}
  /\ MaxDeltas \in Nat
  /\ {Budget, PartialBudget} \subseteq Nat
  /\ {Header, WarningSize, TerminalSize} \subseteq Nat \ {0}
  \* job_terminal says more than the warning
  /\ WarningSize <= TerminalSize

VARIABLES
  status,   \* of the row
  file,     \* the journal: what each write appended to it
  memory,   \* event_sequences, event_truncated, event_summaries, event_decoders
  partial,  \* the partial response file
  row,      \* the columns of the summary, and semantic_normalization_failed
  stamp,    \* counts the changes of last_event_at and last_output_at
  answer,   \* what the provider has said; not part of the code
  died      \* whether the daemon died between two writes that belong together;
            \* not part of the code

journalVars == <<status, file, memory, partial, row, stamp, answer, died>>

Status == {"queued", "running", "completed", "cancelled", "interrupted"}
Ended == {"completed", "cancelled", "interrupted"}
Text == [id : 1..MaxDeltas, width : Widths]
NoText == [id |-> 0, width |-> 0]
\* ended: whether the write got to the newline; garbled: whether it stopped
\* within a character of several bytes
Chunk == [seq : Nat, kind : {"event", "warning", "terminal"}, text : Text \cup {NoText},
          size : Nat, ended : BOOLEAN, garbled : BOOLEAN]
\* seq is -1 while the last number is not known
Forgotten == [seq |-> -1, noted |-> FALSE, truncated |-> FALSE, cut |-> FALSE, decoding |-> FALSE]

JournalTypeOK ==
  /\ status \in Status
  /\ file \in Seq(Chunk)
  /\ memory \in [seq : Nat \cup {-1}, noted : BOOLEAN, truncated : BOOLEAN, cut : BOOLEAN,
                 decoding : BOOLEAN]
  /\ partial \in Seq(Text)
  /\ row \in [truncated : BOOLEAN, cut : BOOLEAN, failed : BOOLEAN]
  /\ stamp \in Nat
  /\ answer \in Seq(Text)
  /\ died \in BOOLEAN

JournalInit ==
  /\ status = "queued"
  /\ file = <<>> /\ partial = <<>> /\ answer = <<>>
  /\ memory = Forgotten
  /\ row = [truncated |-> FALSE, cut |-> FALSE, failed |-> FALSE]
  /\ stamp = 0
  /\ died = FALSE

-----------------------------------------------------------------------------
(* The journal.                                                            *)

Total(sizes) ==
  LET sum[n \in 0..Len(sizes)] == IF n = 0 THEN 0 ELSE sum[n - 1] + sizes[n]
  IN sum[Len(sizes)]
Bytes(f) == Total([i \in DOMAIN f |-> f[i].size])
Width(texts) == Total([i \in DOMAIN texts |-> texts[i].width])

\* A record can be parsed if its line is one whole write.
Intact(f, i) == f[i].ended /\ (i = 1 \/ f[i - 1].ended)

\* Mutation: the sequence goes on from the number of records.
LastSeqCounted(f) == Cardinality({i \in DOMAIN f : Intact(f, i)})

\* _next_event_seq reads the journal when it does not know the last number.
LastSeq(f) == Max({0} \cup {f[i].seq : i \in {k \in DOMAIN f : Intact(f, k)}})

KnownSeq(f, m) == IF m.seq = -1 THEN LastSeq(f) ELSE m.seq

Written(f, m, n, kind, text, size) ==
  Append(f, [seq |-> KnownSeq(f, m) + n, kind |-> kind, text |-> text, size |-> size, ended |-> TRUE,
             garbled |-> FALSE])

Fits(f, size) == Bytes(f) + size <= Budget

\* Mutation: what does not fit is dropped silently.
RecordedSilently(f, m, kind, text, size) ==
  IF Fits(f, size)
    THEN [file |-> Written(f, m, 1, kind, text, size), memory |-> [m EXCEPT !.seq = KnownSeq(f, m) + 1]]
    ELSE [file |-> f, memory |-> [m EXCEPT !.seq = KnownSeq(f, m) + 1]]

\* The loop of _record_event: the event, or once a warning, or nothing; the
\* numbers are used up in any case.
Recorded(f, m, kind, text, size) ==
  IF Fits(f, size)
    THEN [file |-> Written(f, m, 1, kind, text, size),
          memory |-> [m EXCEPT !.seq = KnownSeq(f, m) + 1]]
  ELSE IF m.noted
    THEN [file |-> f, memory |-> [m EXCEPT !.seq = KnownSeq(f, m) + 1]]
  ELSE [file |-> IF Fits(f, WarningSize)
                   THEN Written(f, m, 2, "warning", NoText, WarningSize) ELSE f,
        memory |-> [m EXCEPT !.seq = KnownSeq(f, m) + 2, !.noted = TRUE, !.truncated = TRUE]]

\* _persist_event_summary; setdefault takes the flags of the row over.
Persisted(m) == [row EXCEPT !.truncated = @ \/ m.truncated, !.cut = @ \/ m.cut]

\* _record_event of an event without text, forced; recorded is whether the
\* journal can be written; a job whose job_started is not is not decoded.
Record(kind, size, m, recorded) ==
  LET done == Recorded(file, m, kind, NoText, size)
  IN /\ recorded \/ Fits(file, size)
     /\ IF recorded
          THEN file' = done.file /\ memory' = done.memory /\ row' = Persisted(done.memory)
          ELSE /\ memory' = [m EXCEPT !.seq = KnownSeq(file, m) + 1, !.decoding = FALSE]
               /\ UNCHANGED <<file, row>>
     /\ stamp' = IF recorded THEN stamp + 1 ELSE stamp

\* _write_partial_response
PartialFits(text) == Width(partial) + text.width <= PartialBudget

-----------------------------------------------------------------------------
(* The job.                                                                *)

\* _run_job after the launch: the decoder and job_started
Launch(recorded) ==
  /\ status = "queued"
  /\ status' = "running"
  /\ Record("event", Header, [memory EXCEPT !.decoding = TRUE], recorded)
  /\ UNCHANGED <<partial, answer, died>>

NextText(w) == [id |-> Len(answer) + 1, width |-> w]

Decodes == status = "running" /\ memory.decoding /\ Len(answer) < MaxDeltas

\* The text of a delta goes to the partial response first.
Spoken(text) ==
  /\ answer' = Append(answer, text)
  /\ partial' = IF PartialFits(text) THEN Append(partial, text) ELSE partial

CutBy(text) == [memory EXCEPT !.cut = @ \/ ~PartialFits(text)]

\* A message_delta of the decoder; the summary is persisted once per second.
Delta(w, persist) ==
  LET text == NextText(w)
      done == Recorded(file, CutBy(text), "event", text, Header + w)
  IN /\ Decodes
     /\ Spoken(text)
     /\ file' = done.file
     /\ memory' = done.memory
     /\ row' = IF persist THEN Persisted(done.memory) ELSE row
     /\ stamp' = stamp + 1
     /\ UNCHANGED <<status, died>>

\* The write of a delta fails before or within its line: the decoder is given
\* up, and a warning takes the place of the event unless it cannot be written.
NormalizationFails(w, torn, garbled, warned) ==
  LET text == NextText(w)
      seq == KnownSeq(file, memory) + 1
      left == IF torn THEN Append(file, [seq |-> seq, kind |-> "event", text |-> text,
                                         size |-> Header, ended |-> FALSE,
                                         garbled |-> garbled])
              ELSE file
      m == [CutBy(text) EXCEPT !.seq = seq, !.decoding = FALSE]
      done == Recorded(left, m, "event", NoText, Header)
  IN /\ Decodes
     /\ Fits(file, Header + w)
     /\ garbled => torn /\ w > 1
     /\ warned \/ Fits(left, Header)
     /\ Spoken(text)
     /\ file' = IF warned THEN done.file ELSE left
     /\ memory' = IF warned THEN done.memory ELSE [m EXCEPT !.seq = seq + 1]
     /\ row' = [(IF warned THEN Persisted(done.memory) ELSE row) EXCEPT !.failed = TRUE]
     /\ stamp' = IF warned THEN stamp + 1 ELSE stamp
     /\ UNCHANGED <<status, died>>

\* _finish_job at the end of the task; other verdicts write the same.
Finish(recorded) ==
  /\ status = "running"
  /\ status' = "completed"
  /\ Record("terminal", TerminalSize, memory, recorded)
  /\ UNCHANGED <<partial, answer, died>>

\* _finish_job of a job that is cancelled in the queue: it has no task, so
\* what is in memory goes at once.
CancelQueued(recorded) ==
  LET done == Recorded(file, Forgotten, "terminal", NoText, TerminalSize)
  IN /\ status = "queued"
     /\ recorded \/ Fits(file, TerminalSize)
     /\ status' = "cancelled"
     /\ file' = IF recorded THEN done.file ELSE file
     /\ row' = IF recorded THEN Persisted(done.memory) ELSE row
     /\ stamp' = IF recorded THEN stamp + 1 ELSE stamp
     /\ UNCHANGED <<memory, partial, answer, died>>

\* The end of the task: _forget_job_state
Forget ==
  /\ status \in Ended
  /\ memory' = Forgotten
  /\ UNCHANGED <<status, file, partial, row, stamp, answer, died>>

\* The daemon dies and starts again: memory is lost, _reconcile_interrupted
\* ends the job, and what it records may not reach the journal.  It may die
\* with a text in the partial response that is not yet in the journal.
\* Without a job to end there is nothing to record.
Restart(recorded) ==
  LET done == Recorded(file, Forgotten, "terminal", NoText, TerminalSize)
  IN /\ IF status = "running"
          THEN /\ recorded \/ Fits(file, TerminalSize)
               /\ status' = "interrupted"
               /\ file' = IF recorded THEN done.file ELSE file
               /\ row' = IF recorded THEN Persisted(done.memory) ELSE row
               /\ stamp' = IF recorded THEN stamp + 1 ELSE stamp
          ELSE recorded /\ UNCHANGED <<status, file, row, stamp>>
     /\ memory' = Forgotten
     /\ \/ UNCHANGED <<partial, answer, died>>
        \/ Decodes /\ died' = TRUE /\ \E w \in Widths : Spoken(NextText(w))

\* The verdict of a job is committed, by _finish_job or by the reconciliation of
\* a start, and the daemon dies before it can record job_terminal.
DiesEnding(verdict) ==
  /\ \/ status = "queued" /\ verdict = "cancelled"
     \/ status = "running" /\ verdict \in {"completed", "interrupted"}
  /\ status' = verdict
  /\ memory' = Forgotten
  /\ died' = TRUE
  /\ UNCHANGED <<file, partial, row, stamp, answer>>

-----------------------------------------------------------------------------
(* Safety of the journal.                                                  *)

\* The numbers of the records that can be read grow along the journal, also
\* across restarts, budgets and torn writes.
SequenceGrows ==
  \A i, j \in DOMAIN file :
    i < j /\ Intact(file, i) /\ Intact(file, j) => file[i].seq < file[j].seq

\* No text is dropped for the budget without a trace, also when the daemon
\* restarts: the row says it, or will when the job ends, or a warning does.  Only
\* a daemon that dies between two writes that belong together may leave none.
DropIsAnnounced ==
  (/\ Len(answer) > Cardinality({i \in DOMAIN file : file[i].text # NoText})
   /\ ~row.failed /\ ~died) =>
    \/ row.truncated
    \/ memory.truncated
    \/ \E i \in DOMAIN file : file[i].kind = "warning" /\ Intact(file, i)
=============================================================================
