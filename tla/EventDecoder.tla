---------------------------- MODULE EventDecoder ----------------------------
(***************************************************************************)
(* The decoder of Claude's event stream (tools/agent_job_events.py): from  *)
(* the records the provider wrote to the message deltas and tool events of *)
(* the job.  Claude says every block of an answer up to three times: in    *)
(* deltas while it is produced, in an assistant snapshot when it is        *)
(* complete, and in the terminal result.  Deltas may be missing, snapshots *)
(* may lag behind or be repeated, subagents write to the same stream, and  *)
(* a provider that is killed leaves half a record at its end.              *)
(*                                                                         *)
(* A character is [c |-> letter, n |-> its place in the answer].  The      *)
(* decoder looks at letters only; places are for the properties.  Events   *)
(* that carry neither answer text nor a tool's start (usage, progress,     *)
(* warnings, thinking) are left out, and so is the way bytes are cut into  *)
(* chunks: only whole lines are decoded, one after the other.              *)
(***************************************************************************)
EXTENDS Naturals, FiniteSetsExt, SequencesExt

CONSTANTS Texts,         \* contents of blocks, non-empty sequences of letters
          NumMessages,   \* messages of the provider
          NumBlocks,     \* blocks of a message
          PipeRecords,   \* records the provider writes ahead of the decoder
          MaxBlocks,     \* MAX_CLAUDE_STREAM_BLOCKS
          MaxChars,      \* MAX_CLAUDE_STREAM_BLOCK_CHARS
          MaxMessages,   \* MAX_CLAUDE_SNAPSHOT_MESSAGES
          MaxTools       \* tools remembered at a time (256)

\* A block that fills the tracked length exactly is not the beginning of
\* another one: the decoder could not tell them apart.
ASSUME DecoderAssumption ==
  /\ Texts \subseteq Seq(STRING) \ {<<>>}
  /\ \A s, t \in Texts : Len(s) = MaxChars /\ IsPrefix(s, t) => s = t
  /\ {NumMessages, NumBlocks, PipeRecords} \subseteq Nat \ {0}
  /\ {MaxBlocks, MaxChars, MaxMessages, MaxTools} \subseteq Nat \ {0}

VARIABLES
  message,   \* the provider's message: its number, whether it streams, its blocks
  open,      \* its blocks that have no snapshot yet
  calls,     \* tools called and not finished
  sent,      \* the record written last
  pipe,      \* records written and not decoded
  state,     \* _provider_state
  said,      \* history: what the answer consists of
  emitted,   \* the text of the message deltas so far
  started,   \* the tools of the tool_started events so far
  exceeded   \* history: a bound of the decoder was exceeded

provider == <<message, open, calls, sent, said>>
decoder == <<state, emitted, started, exceeded>>
vars == <<message, open, calls, sent, pipe, state, said, emitted, started, exceeded>>

Letters(text) == [i \in DOMAIN text |-> text[i].c]
Numbered(letters, from) == [i \in DOMAIN letters |-> [c |-> letters[i], n |-> from + i]]

NoText == <<>>
NoRecord == [type |-> "none"]

Init ==
  /\ message = [id |-> 0, streams |-> FALSE, blocks |-> 0, last |-> <<>>]
  /\ open = <<>> /\ calls = {} /\ sent = NoRecord /\ pipe = <<>>
  /\ state = [streamed |-> <<>>, consumed |-> {}, overflow |-> {}, tracking |-> TRUE,
              ordinals |-> <<>>, seen |-> {}, previous |-> <<>>, tools |-> {}]
  /\ said = NoText /\ emitted = NoText /\ started = <<>> /\ exceeded = FALSE

------------------------------------------------------------------------------
(* Decoding one record: the state it leaves, the text it emits, the tools  *)
(* it starts, and whether a bound was exceeded.                            *)

Quiet(st) == [st |-> st, text |-> NoText, tools |-> <<>>, over |-> FALSE]

MessageStart(st) ==
  Quiet([st EXCEPT !.streamed = <<>>, !.consumed = {}, !.overflow = {}, !.tracking = TRUE])

\* _claude_remember_stream_text
Remembered(st, index, kind, letters) ==
  LET known == index \in DOMAIN st.streamed
      item == IF known THEN st.streamed[index] ELSE [kind |-> kind, text |-> <<>>]
      room == MaxChars - Len(item.text)
      kept == item.text \o SubSeq(letters, 1, Min({room, Len(letters)}))
  IN  IF ~known /\ Cardinality(DOMAIN st.streamed) >= MaxBlocks
      THEN [st EXCEPT !.tracking = FALSE]
      ELSE IF item.kind # kind THEN st
      ELSE [st EXCEPT
              !.streamed = [i \in DOMAIN @ \cup {index} |->
                              IF i = index THEN [kind |-> kind, text |-> kept] ELSE @[i]],
              !.overflow = IF Len(letters) > room THEN @ \cup {index} ELSE @]

Delta(st, r) ==
  LET after == Remembered(st, r.index, r.kind, Letters(r.text)) IN
  [Quiet(after) EXCEPT !.text = IF r.kind = "text" THEN r.text ELSE NoText,
                       !.over = ~after.tracking \/ after.overflow # {}]

\* _remember_tool: a tool beyond the bound is forgotten at once.
ToolRemembered(st, tool) ==
  IF Cardinality(st.tools \cup {tool}) > MaxTools THEN st
  ELSE [st EXCEPT !.tools = @ \cup {tool}]

\* Mutation: a tool that starts is not remembered.
ToolStartForgotten(st, tool) == [Quiet(st) EXCEPT !.tools = <<tool>>]

\* A tool starts: content_block_start, or a snapshot of a tool not remembered.
ToolStart(st, tool) ==
  LET after == ToolRemembered(st, tool) IN
  [Quiet(after) EXCEPT !.tools = <<tool>>, !.over = tool \notin after.tools]

\* The oldest remembered message is forgotten to make room for another one.
Evicted(st, m) ==
  IF m \in DOMAIN st.ordinals \/ Cardinality(DOMAIN st.ordinals) < MaxMessages THEN st
  ELSE LET oldest == Min(DOMAIN st.ordinals)
           rest == DOMAIN st.ordinals \ {oldest}
       IN  [st EXCEPT !.ordinals = [i \in rest |-> @[i]],
                      !.previous = [i \in DOMAIN @ \ {oldest} |-> @[i]],
                      !.seen = {k \in @ : k[1] # oldest}]

Fingerprint(r) == <<r.kind, Letters(r.text), r.tool>>

IsRepeated(st, r) == r.id \in DOMAIN st.previous /\ st.previous[r.id][1] = Fingerprint(r)

\* _claude_snapshot_key
Key(st, r) ==
  IF IsRepeated(st, r) THEN st.previous[r.id][2]
  ELSE <<r.id, IF r.id \in DOMAIN st.ordinals THEN st.ordinals[r.id] ELSE 0>>

Keyed(st, r) ==
  IF IsRepeated(st, r) THEN st
  ELSE LET key == Key(st, r) IN
       [st EXCEPT
          !.ordinals = [i \in DOMAIN @ \cup {r.id} |-> IF i = r.id THEN key[2] + 1 ELSE @[i]],
          !.previous = [i \in DOMAIN @ \cup {r.id} |->
                          IF i = r.id THEN <<Fingerprint(r), key>> ELSE @[i]]]

\* The streamed blocks that can be the beginning of the snapshot.
Matches(st, r) ==
  {i \in DOMAIN st.streamed \ st.consumed :
     /\ st.streamed[i].kind = r.kind
     /\ st.streamed[i].text # <<>>
     /\ IsPrefix(st.streamed[i].text, Letters(r.text))}

\* The longest of them, the last one of that length.
Match(st, r) ==
  CHOOSE i \in Matches(st, r) :
    \A k \in Matches(st, r) :
      \/ Len(st.streamed[i].text) > Len(st.streamed[k].text)
      \/ Len(st.streamed[i].text) = Len(st.streamed[k].text) /\ i >= k

\* Mutation: the suffix of a block whose text was tracked in part is emitted.
SuffixOfOverflow(st, r) ==
  IF ~st.tracking THEN NoText
  ELSE IF Matches(st, r) = {} THEN r.text
  ELSE SubSeq(r.text, Len(st.streamed[Match(st, r)].text) + 1, Len(r.text))

\* _claude_stream_suffix
Suffix(st, r) ==
  IF ~st.tracking THEN NoText
  ELSE IF Matches(st, r) = {} THEN r.text
  ELSE IF Match(st, r) \in st.overflow THEN NoText
  ELSE SubSeq(r.text, Len(st.streamed[Match(st, r)].text) + 1, Len(r.text))

\* Mutation: a streamed block may stand for several snapshots.
NeverConsumed(st, r) == st

Consumed(st, r) ==
  IF st.tracking /\ Matches(st, r) # {}
  THEN [st EXCEPT !.consumed = @ \cup {Match(st, r)}] ELSE st

Snapshot(st0, r) ==
  LET evicted == Evicted(st0, r.id)
      key == Key(evicted, r)
      st == [Keyed(evicted, r) EXCEPT !.seen = @ \cup {key}]
  IN  IF key \in evicted.seen THEN Quiet(st)
      ELSE IF r.kind = "tool_use"
      THEN IF r.tool \in st.tools THEN Quiet(st) ELSE ToolStart(st, r.tool)
      ELSE [Quiet(Consumed(st, r)) EXCEPT
              !.text = IF r.kind = "text" THEN Suffix(st, r) ELSE NoText]

ToolResult(st, r) == Quiet([st EXCEPT !.tools = @ \ {r.tool}])

\* The terminal result is the answer only when no text came before it.
Result(st, r, chars) == [Quiet(st) EXCEPT !.text = IF chars = 0 THEN r.text ELSE NoText]

\* _claude_events, for a decoder that has emitted `chars` characters.
ClaudeEvents(st, r, chars) ==
  IF r.nested THEN Quiet(st)
  ELSE CASE r.type = "torn" -> Quiet(st)
         [] r.type = "message_start" -> MessageStart(st)
         [] r.type = "delta" -> Delta(st, r)
         [] r.type = "tool_start" -> ToolStart(st, r.tool)
         [] r.type = "assistant" -> Snapshot(st, r)
         [] r.type = "user" -> ToolResult(st, r)
         [] r.type = "result" -> Result(st, r, chars)

\* feed and finish: the next line is decoded.
Feed ==
  /\ pipe # <<>>
  /\ LET d == ClaudeEvents(state, pipe[1], Len(emitted)) IN
       /\ state' = d.st
       /\ emitted' = emitted \o d.text
       /\ started' = started \o d.tools
       /\ exceeded' = (exceeded \/ d.over)
  /\ pipe' = Tail(pipe)
  /\ UNCHANGED provider

------------------------------------------------------------------------------
(* The provider (external): what a Claude process writes.                  *)

Record(type, kind, text, tool, index) ==
  [type |-> type, nested |-> FALSE, id |-> message.id, kind |-> kind,
   text |-> text, tool |-> tool, index |-> index]

Running == sent.type \notin {"result", "torn"}
Writable == Running /\ Len(pipe) < PipeRecords
Write(r) ==
  /\ pipe' = Append(pipe, r)
  /\ sent' = r
  /\ UNCHANGED decoder

Streamed(block) == Len(block.text) = block.sent
Settled == open = <<>>

\* The next message begins; it may come without a stream.
BeginMessage(streams) ==
  /\ Writable /\ Settled /\ message.id < NumMessages
  /\ message' = [id |-> message.id + 1, streams |-> streams, blocks |-> 0, last |-> <<>>]
  /\ IF streams THEN Write(Record("message_start", "none", NoText, 0, 0))
     ELSE sent' = NoRecord /\ UNCHANGED <<pipe, decoder>>
  /\ UNCHANGED <<open, calls, said>>

\* Blocks follow one another; two equal ones in a row do not occur.
OpenBlock(kind, letters) ==
  /\ Running /\ message.id > 0 /\ message.blocks < NumBlocks
  /\ \A i \in DOMAIN open : message.streams /\ Streamed(open[i])
  /\ letters # message.last
  /\ LET text == Numbered(letters, IF kind = "text" THEN Len(said) ELSE 0) IN
       /\ open' = Append(open, [index |-> message.blocks, kind |-> kind, text |-> text, sent |-> 0])
       /\ said' = IF kind = "text" THEN said \o text ELSE said
  /\ message' = [message EXCEPT !.blocks = @ + 1, !.last = letters]
  /\ UNCHANGED <<calls, sent, pipe, decoder>>

\* One more character of the block that is being produced.
SendDelta ==
  /\ Writable /\ message.streams /\ open # <<>> /\ ~Streamed(Last(open))
  /\ LET b == Last(open) IN
       /\ Write(Record("delta", b.kind, <<b.text[b.sent + 1]>>, 0, b.index))
       /\ open' = [open EXCEPT ![Len(open)].sent = @ + 1]
  /\ UNCHANGED <<message, calls, said>>

\* The snapshot of the oldest block, whether or not all its deltas were sent;
\* one that lags behind does not come in the middle of a later block, which
\* could have just the text of the earlier one so far and be taken for it.
SendSnapshot ==
  /\ Writable /\ open # <<>>
  /\ Len(open) > 1 => Last(open).sent = 0 \/ Streamed(Last(open))
  /\ Write(Record("assistant", open[1].kind, open[1].text, 0, 0))
  /\ open' = Tail(open)
  /\ UNCHANGED <<message, calls, said>>

\* A snapshot is written again.
RepeatSnapshot ==
  /\ Writable /\ sent.type = "assistant"
  /\ Write(sent)
  /\ UNCHANGED <<message, open, calls, said>>

\* A message of a single tool call, streamed or not; the tool has its number.
CallTool ==
  /\ Writable /\ Settled /\ message.id > 0 /\ message.blocks = 0
  /\ Write(Record(IF message.streams THEN "tool_start" ELSE "assistant",
                  "tool_use", NoText, message.id, 0))
  /\ message' = [message EXCEPT !.blocks = NumBlocks]
  /\ calls' = calls \cup {message.id}
  /\ UNCHANGED <<open, said>>

SnapshotTool ==
  /\ Writable /\ sent.type = "tool_start"
  /\ Write(Record("assistant", "tool_use", NoText, sent.tool, 0))
  /\ UNCHANGED <<message, open, calls, said>>

FinishTool(tool) ==
  /\ Writable /\ tool \in calls /\ sent.type # "tool_start"
  /\ Write(Record("user", "none", NoText, tool, 0))
  /\ calls' = calls \ {tool}
  /\ UNCHANGED <<message, open, said>>

\* A subagent writes a record that says what the answer said last.
WriteNested(type) ==
  /\ Writable /\ message.id > 0
  /\ pipe' = Append(pipe, [Record(type, "text", Numbered(message.last, 0), 0, 0)
                             EXCEPT !.nested = TRUE])
  /\ UNCHANGED <<provider, decoder>>

\* The terminal result repeats the end of the answer, or is the answer.
Finish(letters) ==
  /\ Writable /\ Settled /\ calls = {}
  /\ LET text == IF said = NoText THEN Numbered(letters, 0) ELSE <<Last(said)>> IN
       /\ Write(Record("result", "none", text, 0, 0))
       /\ said' = IF said = NoText THEN text ELSE said
  /\ UNCHANGED <<message, open, calls>>

\* The provider is killed; a record it was writing is left incomplete.
Killed ==
  /\ Writable
  /\ Write(Record("torn", "none", NoText, 0, 0))
  /\ UNCHANGED <<message, open, calls, said>>

Ended == ~Running /\ pipe = <<>> /\ UNCHANGED vars

Next ==
  \/ Feed
  \/ \E streams \in BOOLEAN : BeginMessage(streams)
  \/ \E kind \in {"text", "thinking"}, letters \in Texts : OpenBlock(kind, letters)
  \/ SendDelta \/ SendSnapshot \/ RepeatSnapshot
  \/ CallTool \/ SnapshotTool \/ \E tool \in calls : FinishTool(tool)
  \/ \E type \in {"message_start", "delta", "assistant", "result"} : WriteNested(type)
  \/ \E letters \in Texts : Finish(letters)
  \/ Killed
  \/ Ended

Spec == Init /\ [][Next]_vars

------------------------------------------------------------------------------
(* Deltas, snapshots and the result together give the answer exactly once, *)
(* in order: nothing that only a snapshot or the result contains is        *)
(* missing, and nothing that was streamed is said again, whatever snapshots*)
(* lag, are repeated, or belong to a subagent.                             *)
TextOnce ==
  (pipe = <<>> /\ open = <<>> /\ ~exceeded) => emitted = said

(* Beyond the decoder's bounds text may be missing, but none is said twice *)
(* or out of order.                                                        *)
NeverRepeats ==
  \A i, k \in DOMAIN emitted : i < k => emitted[i].n < emitted[k].n

(* A tool that was announced by its content block, its snapshots and their *)
(* repetitions is started once, as long as it could be remembered.         *)
ToolStartsOnce ==
  ~exceeded => \A i, k \in DOMAIN started : started[i] = started[k] => i = k
=============================================================================
