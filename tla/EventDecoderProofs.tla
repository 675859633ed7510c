-------------------------- MODULE EventDecoderProofs --------------------------
(***************************************************************************)
(* Theorems about EventDecoder, for every set of texts, every bound of the  *)
(* decoder and every length of the pipe.                                    *)
(*                                                                         *)
(* The decoder does not act back on the provider, so a record is as good as *)
(* decoded when it is written: the invariant speaks of the run that the     *)
(* decoder has ahead of it, and relates the provider to where this run      *)
(* ends.  There the streamed blocks that no snapshot has consumed are, one  *)
(* to one, the blocks of the message that wait for their snapshot.  Which   *)
(* of two equal blocks stands for which snapshot may change.                *)
(***************************************************************************)
EXTENDS EventDecoder, WellFoundedInduction, TLAPS

Char == [c : STRING, n : Nat]
Message == [id : Nat, streams : BOOLEAN, blocks : Nat, last : Seq(STRING)]
Block == [index : Nat, kind : {"text", "thinking"}, text : Seq(Char), sent : Nat]
Types == {"message_start", "delta", "tool_start", "assistant", "user", "result", "torn"}
Kinds == {"text", "thinking", "tool_use", "none"}
Records == [type : Types, nested : BOOLEAN, id : Nat, kind : Kinds,
            text : Seq(Char), tool : Nat, index : Nat]

LEMMA Bounds ==
  /\ NumMessages \in Nat \ {0} /\ NumBlocks \in Nat \ {0} /\ PipeRecords \in Nat \ {0}
  /\ MaxBlocks \in Nat \ {0} /\ MaxChars \in Nat \ {0} /\ MaxMessages \in Nat \ {0}
  /\ MaxTools \in Nat \ {0}
BY DecoderAssumption

LEMMA TextsAreWords ==
  ASSUME NEW s \in Texts
  PROVE  s \in Seq(STRING) /\ Len(s) \in Nat \ {0}
<1>1. s \in Seq(STRING) /\ s # <<>>
  BY DecoderAssumption
<1> QED BY <1>1

-----------------------------------------------------------------------------
(* Numbers and sequences.                                                  *)

\* A set of natural numbers that is not empty has a least element.
LEMMA LeastElement ==
  ASSUME NEW S \in SUBSET Nat, S # {}
  PROVE  \E n \in S : \A m \in S : n <= m
<1> DEFINE R == OpToRel(<, Nat)
<1>1. IsWellFoundedOn(R, Nat)
  BY NatLessThanWellFounded
<1>2. \A x, y \in Nat : x < y => <<x, y>> \in R
  BY DEF OpToRel
<1> HIDE DEF R
<1>3. PICK n \in S : \A y \in S : <<y, n>> \notin R
  BY <1>1, WFMin
<1>4. \A y \in S : ~(y < n)
  BY <1>2, <1>3, Zenon
<1> QED BY <1>4

\* One that is bounded has a greatest one too.
LEMMA GreatestElement ==
  ASSUME NEW S \in SUBSET Nat, S # {}, NEW b \in Nat, \A x \in S : x <= b
  PROVE  \E n \in S : \A m \in S : m <= n
<1> DEFINE D == {b - x : x \in S}
<1>1. ASSUME NEW x \in S PROVE b - x \in Nat
  <2>1. x \in Nat /\ x <= b
    OBVIOUS
  <2> QED BY <2>1
<1>2. D \in SUBSET Nat /\ D # {}
  BY <1>1
<1> HIDE DEF D
<1>3. PICK d \in D : \A e \in D : d <= e
  BY <1>2, LeastElement
<1>4. PICK n \in S : d = b - n
  BY <1>3 DEF D
<1>5. ASSUME NEW m \in S PROVE m <= n
  <2>1. b - m \in D
    BY DEF D
  <2>2. b - n <= b - m /\ m \in Nat /\ n \in Nat
    BY <1>3, <1>4, <2>1
  <2> QED BY <2>2
<1> QED BY <1>5

LEMMA MinOfTwo ==
  ASSUME NEW a \in Int, NEW b \in Int
  PROVE  Min({a, b}) = IF a <= b THEN a ELSE b
<1> DEFINE m == IF a <= b THEN a ELSE b
<1>1. m \in {a, b} /\ \A y \in {a, b} : m <= y
  OBVIOUS
<1>2. \A x \in {a, b} : (\A y \in {a, b} : x <= y) => x = m
  OBVIOUS
<1>3. Min({a, b}) \in {a, b} /\ \A y \in {a, b} : Min({a, b}) <= y
  <2> HIDE DEF m
  <2> QED BY <1>1, Zenon DEF Min
<1> QED BY <1>2, <1>3

\* n consists of t and l.
JoinOf(n, t, l) ==
  /\ Len(n) = Len(t) + Len(l)
  /\ \A k \in 1..Len(t) : n[k] = t[k]
  /\ \A k \in 1..Len(l) : n[Len(t) + k] = l[k]

LEMMA Concatenated ==
  ASSUME NEW S, NEW t \in Seq(S), NEW l \in Seq(S)
  PROVE  t \o l \in Seq(S) /\ JoinOf(t \o l, t, l)
<1>1. t \o l \in Seq(S) /\ Len(t \o l) = Len(t) + Len(l)
  OBVIOUS
<1>2. \A k \in 1..Len(t) : (t \o l)[k] = t[k]
  OBVIOUS
<1>3. \A k \in 1..Len(l) : (t \o l)[Len(t) + k] = l[k]
  <2> SUFFICES ASSUME NEW k \in 1..Len(l) PROVE (t \o l)[Len(t) + k] = l[k]
    OBVIOUS
  <2>1. k \in Nat /\ k >= 1 /\ k <= Len(l) /\ Len(t) \in Nat /\ Len(l) \in Nat
    OBVIOUS
  <2>2. Len(t) + k \in 1..Len(t) + Len(l) /\ ~(Len(t) + k <= Len(t)) /\ (Len(t) + k) - Len(t) = k
    BY <2>1
  <2>3. (t \o l)[Len(t) + k] = l[(Len(t) + k) - Len(t)]
    BY <2>2
  <2> QED BY <2>2, <2>3
<1> QED BY <1>1, <1>2, <1>3, Zenon DEF JoinOf

LEMMA PrefixIsPointwise ==
  ASSUME NEW S, NEW s \in Seq(S), NEW t \in Seq(S)
  PROVE  IsPrefix(s, t) <=> Len(s) <= Len(t) /\ \A k \in 1..Len(s) : s[k] = t[k]
BY DEF IsPrefix

LEMMA LettersOf ==
  ASSUME NEW text \in Seq(Char)
  PROVE  /\ Letters(text) \in Seq(STRING) /\ Len(Letters(text)) = Len(text)
         /\ \A k \in 1..Len(text) : Letters(text)[k] = text[k].c
<1>1. Letters(text) = [k \in 1..Len(text) |-> text[k].c]
  BY DEF Letters
<1>2. \A k \in 1..Len(text) : text[k].c \in STRING
  <2>1. \A k \in 1..Len(text) : text[k] \in Char
    OBVIOUS
  <2> QED BY <2>1 DEF Char
<1>3. Len(text) \in Nat
  OBVIOUS
<1> HIDE DEF Letters
<1> QED BY <1>1, <1>2, <1>3

LEMMA NumberedOf ==
  ASSUME NEW letters \in Seq(STRING), NEW from \in Nat
  PROVE  /\ Numbered(letters, from) \in Seq(Char)
         /\ Len(Numbered(letters, from)) = Len(letters)
         /\ \A k \in 1..Len(letters) : Numbered(letters, from)[k] = [c |-> letters[k], n |-> from + k]
         /\ Letters(Numbered(letters, from)) = letters
<1> DEFINE t == Numbered(letters, from)
<1>1. t = [k \in 1..Len(letters) |-> [c |-> letters[k], n |-> from + k]]
  BY DEF Numbered
<1>2. \A k \in 1..Len(letters) : [c |-> letters[k], n |-> from + k] \in Char
  BY DEF Char
<1>3. t \in Seq(Char) /\ Len(t) = Len(letters)
  <2> HIDE DEF t
  <2> QED BY <1>1, <1>2
<1>4. Letters(t) = letters
  <2>1. Letters(t) \in Seq(STRING) /\ Len(Letters(t)) = Len(letters)
    BY <1>3, LettersOf
  <2>2. \A k \in 1..Len(letters) : Letters(t)[k] = letters[k]
    <3> HIDE DEF t
    <3>1. \A k \in 1..Len(letters) : Letters(t)[k] = t[k].c
      BY <1>3, LettersOf
    <3> QED BY <1>1, <3>1
  <2> QED BY <2>1, <2>2
<1> QED BY <1>1, <1>3, <1>4

-----------------------------------------------------------------------------
(* The provider.                                                           *)

ProviderTyped ==
  /\ message \in Message
  /\ open \in Seq(Block)
  /\ calls \in SUBSET Nat
  /\ sent \in Records \cup {NoRecord}
  /\ pipe \in Seq(Records)
  /\ said \in Seq(Char)

\* b is the i-th of the n open blocks of the message m.
Fits(b, i, n, m) ==
  /\ Letters(b.text) \in Texts
  /\ b.sent <= Len(b.text)
  /\ b.index = m.blocks - n + i - 1
  /\ b.sent > 0 => m.streams

BlocksFit ==
  /\ Len(open) <= message.blocks
  /\ \A i \in 1..Len(open) : Fits(open[i], i, Len(open), message)
  /\ \A i \in 1..Len(open) - 1 :
       Streamed(open[i]) /\ Letters(open[i].text) # Letters(open[i + 1].text)
  /\ open # <<>> => Letters(Last(open).text) = message.last
  /\ Len(open) > 1 => message.streams

\* The block b is the end of what is said.
EndsIn(s, b) ==
  /\ Len(b.text) <= Len(s)
  /\ \A k \in 1..Len(b.text) : b.text[k] = s[Len(s) - Len(b.text) + k]

SaidInOrder ==
  /\ \A k \in 1..Len(said) : said[k].n = k
  /\ (open # <<>> /\ Last(open).kind = "text") => EndsIn(said, Last(open))

ProviderInv == ProviderTyped /\ BlocksFit /\ SaidInOrder

\* The records that are written.
LEMMA RecordTyped ==
  ASSUME message \in Message, NEW type \in Types, NEW kind \in Kinds, NEW text \in Seq(Char),
         NEW tool \in Nat, NEW index \in Nat
  PROVE  Record(type, kind, text, tool, index) \in Records
BY DEF Record, Records, Message

LEMMA RecordFields ==
  ASSUME NEW type, NEW kind, NEW text, NEW tool, NEW index, NEW r,
         r = Record(type, kind, text, tool, index)
  PROVE  /\ ~r.nested /\ r.type = type /\ r.id = message.id /\ r.kind = kind
         /\ r.text = text /\ r.tool = tool /\ r.index = index
BY DEF Record

LEMMA WriteTyped ==
  ASSUME ProviderTyped, NEW r \in Records, Write(r)
  PROVE  sent' \in Records \cup {NoRecord} /\ pipe' \in Seq(Records)
BY DEF ProviderTyped, Write

LEMMA EmptyIsText == <<>> \in Seq(Char) /\ NoText = <<>>
BY DEF NoText

LEMMA Literals == /\ {"message_start", "tool_start", "delta", "assistant", "user", "result", "torn"} \subseteq Types
                  /\ {"text", "thinking", "tool_use", "none"} \subseteq Kinds /\ 0 \in Nat
BY DEF Types, Kinds

\* What the actions do to the open blocks.
LEMMA OpenFacts ==
  ASSUME ProviderTyped
  PROVE  /\ Len(open) \in Nat /\ (open # <<>> <=> Len(open) >= 1)
         /\ \A i \in 1..Len(open) :
              /\ open[i] \in Block /\ open[i].text \in Seq(Char) /\ open[i].index \in Nat
              /\ open[i].sent \in Nat /\ Len(open[i].text) \in Nat
              /\ open[i].kind \in {"text", "thinking"}
         /\ Last(open) = open[Len(open)]
<1>1. open \in Seq(Block)
  BY DEF ProviderTyped
<1>2. \A i \in 1..Len(open) : open[i] \in Block
  BY <1>1
<1>3. ASSUME NEW b \in Block
      PROVE  /\ b.text \in Seq(Char) /\ b.index \in Nat /\ b.sent \in Nat
             /\ b.kind \in {"text", "thinking"} /\ Len(b.text) \in Nat
  BY DEF Block
<1>4. Len(open) \in Nat /\ (open # <<>> <=> Len(open) >= 1)
  BY <1>1
<1> QED BY <1>2, <1>3, <1>4 DEF Last

LEMMA MessageFacts ==
  ASSUME ProviderTyped
  PROVE  /\ message.id \in Nat /\ message.streams \in BOOLEAN /\ message.blocks \in Nat
         /\ message.last \in Seq(STRING)
         /\ message = [id |-> message.id, streams |-> message.streams,
                       blocks |-> message.blocks, last |-> message.last]
         /\ Len(said) \in Nat
BY DEF ProviderTyped, Message

LEMMA BeginMessageKeeps ==
  ASSUME ProviderInv, NEW streams \in BOOLEAN, BeginMessage(streams)
  PROVE  ProviderInv'
<1> USE DEF ProviderInv
<1>1. /\ message' = [id |-> message.id + 1, streams |-> streams, blocks |-> 0, last |-> <<>>]
      /\ open = <<>> /\ open' = open /\ calls' = calls /\ said' = said
  BY DEF BeginMessage, Settled
<1>2. message' \in Message
  BY <1>1, MessageFacts DEF Message
<1>3. sent' \in Records \cup {NoRecord} /\ pipe' \in Seq(Records)
  <2>1. CASE streams
    <3>1. Write(Record("message_start", "none", NoText, 0, 0))
      BY <2>1 DEF BeginMessage
    <3>2. Record("message_start", "none", NoText, 0, 0) \in Records
      BY RecordTyped, EmptyIsText, Literals DEF ProviderTyped
    <3> QED BY <3>1, <3>2, WriteTyped
  <2>2. CASE ~streams
    BY <2>2 DEF BeginMessage, ProviderTyped
  <2> QED BY <2>1, <2>2
<1>4. ProviderTyped'
  BY <1>1, <1>2, <1>3 DEF ProviderTyped
<1>5. Len(open') = 0 /\ open' = <<>>
  BY <1>1
<1>6. BlocksFit'
  BY <1>1, <1>5 DEF BlocksFit
<1>7. SaidInOrder'
  BY <1>1, <1>5 DEF SaidInOrder
<1> QED BY <1>4, <1>6, <1>7

LEMMA OpenBlockKeeps ==
  ASSUME ProviderInv, NEW kind \in {"text", "thinking"}, NEW letters \in Texts,
         OpenBlock(kind, letters)
  PROVE  ProviderInv'
<1> USE DEF ProviderInv
<1> DEFINE from == IF kind = "text" THEN Len(said) ELSE 0
           text == Numbered(letters, from)
           b == [index |-> message.blocks, kind |-> kind, text |-> text, sent |-> 0]
<1>1. /\ message' = [message EXCEPT !.blocks = @ + 1, !.last = letters]
      /\ open' = Append(open, b)
      /\ said' = IF kind = "text" THEN said \o text ELSE said
      /\ calls' = calls /\ sent' = sent /\ pipe' = pipe
      /\ \A i \in DOMAIN open : message.streams /\ Streamed(open[i])
      /\ letters # message.last
  BY DEF OpenBlock
<1>2. letters \in Seq(STRING) /\ Len(letters) \in Nat \ {0} /\ from \in Nat
  BY TextsAreWords, MessageFacts
<1>3. /\ text \in Seq(Char) /\ Len(text) = Len(letters) /\ Letters(text) = letters
      /\ \A k \in 1..Len(letters) : text[k] = [c |-> letters[k], n |-> from + k]
  <2> HIDE DEF from
  <2> QED BY <1>2, NumberedOf
<1>4. b \in Block /\ b.text = text /\ b.kind = kind /\ b.sent = 0 /\ b.index = message.blocks
  <2> HIDE DEF text
  <2> QED BY <1>3, MessageFacts DEF Block
<1> HIDE DEF text, b, from
<1>5. /\ message'.id = message.id /\ message'.streams = message.streams
      /\ message'.blocks = message.blocks + 1 /\ message'.last = letters /\ message' \in Message
  <2>1. message \in Message
    BY DEF ProviderTyped
  <2>2. message.blocks + 1 \in Nat
    BY MessageFacts
  <2>3. message' = [message EXCEPT !.blocks = message.blocks + 1, !.last = letters]
    BY <1>1
  <2>4. message' \in Message
    BY <1>2, <2>1, <2>2, <2>3 DEF Message
  <2> QED BY <2>1, <2>3, <2>4 DEF Message
<1>6. /\ open' \in Seq(Block) /\ Len(open') = Len(open) + 1 /\ open' # <<>>
      /\ open'[Len(open) + 1] = b
      /\ \A i \in 1..Len(open) : open'[i] = open[i]
  <2>1. open \in Seq(Block)
    BY DEF ProviderTyped
  <2>2. open' = Append(open, b) /\ b \in Block
    BY <1>1, <1>4
  <2>3. open' \in Seq(Block)
    BY <2>1, <2>2
  <2>4. Len(open') = Len(open) + 1
    BY <2>1, <2>2
  <2>5. open'[Len(open) + 1] = b /\ \A i \in 1..Len(open) : open'[i] = open[i]
    BY <2>1, <2>2
  <2>6. open' # <<>>
    BY <2>1, <2>3, <2>4
  <2> QED BY <2>3, <2>4, <2>5, <2>6
<1>7. said' \in Seq(Char)
  BY <1>1, <1>3 DEF ProviderTyped
<1>8. ProviderTyped'
  BY <1>1, <1>5, <1>6, <1>7 DEF ProviderTyped
<1>9. Last(open') = b
  BY <1>6 DEF Last
<1>10. ASSUME NEW i \in 1..Len(open') PROVE Fits(open'[i], i, Len(open'), message')
  <2>1. CASE i = Len(open) + 1
    <3>1. message.blocks = message'.blocks - Len(open') + i - 1
      BY <1>5, <1>6, <2>1, OpenFacts, MessageFacts
    <3> QED BY <1>2, <1>3, <1>4, <1>6, <2>1, <3>1 DEF Fits
  <2>2. CASE i # Len(open) + 1
    <3>1. i \in 1..Len(open) /\ open'[i] = open[i]
      BY <1>6, <2>2, OpenFacts
    <3>2. Fits(open[i], i, Len(open), message)
      BY <3>1 DEF BlocksFit
    <3>3. message'.blocks - Len(open') + i - 1 = message.blocks - Len(open) + i - 1
      BY <1>5, <1>6, OpenFacts, MessageFacts
    <3> QED BY <1>5, <3>1, <3>2, <3>3 DEF Fits
  <2> QED BY <2>1, <2>2
<1>11. ASSUME NEW i \in 1..Len(open') - 1
       PROVE  Streamed(open'[i]) /\ Letters(open'[i].text) # Letters(open'[i + 1].text)
  <2>1. i \in 1..Len(open) /\ i \in DOMAIN open /\ open'[i] = open[i]
    BY <1>6, OpenFacts DEF ProviderTyped
  <2>2. Streamed(open'[i])
    BY <1>1, <2>1
  <2>3. CASE i = Len(open)
    <3>1. Letters(open[i].text) = message.last
      BY <2>1, <2>3, OpenFacts DEF BlocksFit
    <3> QED BY <1>1, <1>3, <1>4, <1>6, <2>1, <2>2, <2>3, <3>1
  <2>4. CASE i # Len(open)
    <3>1. i \in 1..Len(open) - 1 /\ i + 1 \in 1..Len(open)
      BY <2>1, <2>4, OpenFacts
    <3> QED BY <1>6, <2>1, <2>2, <3>1 DEF BlocksFit
  <2> QED BY <2>3, <2>4
<1>12. BlocksFit'
  <2>1. Len(open') <= message'.blocks
    BY <1>5, <1>6, OpenFacts, MessageFacts DEF BlocksFit
  <2>2. Letters(Last(open').text) = message'.last
    BY <1>3, <1>4, <1>5, <1>9
  <2>3. Len(open') > 1 => message'.streams
    <3>1. Len(open') > 1 => 1 \in DOMAIN open
      BY <1>6, OpenFacts DEF ProviderTyped
    <3> QED BY <1>1, <1>5, <3>1
  <2> QED BY <1>10, <1>11, <2>1, <2>2, <2>3 DEF BlocksFit
<1>13. SaidInOrder'
  <2>1. CASE kind = "text"
    <3>1. said' = said \o text /\ from = Len(said)
      BY <1>1, <2>1 DEF from
    <3>2. /\ Len(said') = Len(said) + Len(text)
          /\ \A k \in 1..Len(said) : said'[k] = said[k]
          /\ \A k \in 1..Len(text) : said'[Len(said) + k] = text[k]
      BY <1>3, <3>1 DEF ProviderTyped
    <3>3. ASSUME NEW k \in 1..Len(said') PROVE said'[k].n = k
      <4>1. CASE k <= Len(said)
        BY <3>2, <4>1, MessageFacts DEF SaidInOrder
      <4>2. CASE k > Len(said)
        <5>1. k - Len(said) \in 1..Len(text) /\ Len(said) + (k - Len(said)) = k
          BY <1>2, <1>3, <3>2, <4>2, MessageFacts
        <5>2. said'[k] = text[k - Len(said)]
          BY <3>2, <5>1
        <5>3. text[k - Len(said)].n = from + (k - Len(said))
          <6>1. k - Len(said) \in 1..Len(letters)
            BY <1>3, <5>1
          <6>2. text[k - Len(said)] = [c |-> letters[k - Len(said)], n |-> from + (k - Len(said))]
            BY <1>3, <6>1
          <6> QED BY <6>2
        <5> QED BY <3>1, <5>1, <5>2, <5>3
      <4> QED BY <1>2, <1>3, <3>2, <4>1, <4>2, MessageFacts
    <3>4. EndsIn(said', b)
      <4>1. Len(said') - Len(text) = Len(said)
        BY <1>2, <1>3, <3>2, MessageFacts
      <4>2. Len(b.text) <= Len(said')
        BY <1>2, <1>3, <1>4, <3>2, MessageFacts
      <4> QED BY <1>4, <3>2, <4>1, <4>2 DEF EndsIn
    <3> QED BY <1>9, <3>3, <3>4 DEF SaidInOrder
  <2>2. CASE kind # "text"
    BY <1>1, <1>4, <1>9, <2>2 DEF SaidInOrder
  <2> QED BY <2>1, <2>2
<1> QED BY <1>8, <1>12, <1>13

\* An action that leaves message, open and said alone.
LEMMA QuietProvider ==
  ASSUME ProviderInv, ProviderTyped', message' = message, open' = open, said' = said
  PROVE  ProviderInv'
BY DEF ProviderInv, BlocksFit, SaidInOrder

\* The record of a delta, and the block after it.
NextDelta(b) == Record("delta", b.kind, <<b.text[b.sent + 1]>>, 0, b.index)

LEMMA DeltaFacts ==
  ASSUME ProviderInv, SendDelta
  PROVE  LET n == Len(open)  b == open[n] IN
         /\ n \in Nat \ {0} /\ b \in Block /\ b.sent + 1 \in 1..Len(b.text) /\ message.streams
         /\ b.text[b.sent + 1] \in Char
         /\ NextDelta(b) \in Records /\ Write(NextDelta(b))
         /\ open' \in Seq(Block) /\ Len(open') = n
         /\ \A i \in 1..n : i # n => open'[i] = open[i]
         /\ open'[n] \in Block /\ open'[n].kind = b.kind /\ open'[n].text = b.text
         /\ open'[n].index = b.index /\ open'[n].sent = b.sent + 1
<1> USE DEF ProviderInv
<1> DEFINE n == Len(open)
           b == open[n]
<1>1. /\ message.streams /\ open # <<>> /\ ~Streamed(b)
      /\ Write(NextDelta(b)) /\ open' = [open EXCEPT ![n].sent = @ + 1]
  BY OpenFacts DEF SendDelta, NextDelta
<1>2. n \in Nat \ {0} /\ n \in 1..n
  BY <1>1, OpenFacts
<1>3. /\ b \in Block /\ b.text \in Seq(Char) /\ b.index \in Nat /\ b.sent \in Nat
      /\ b.kind \in {"text", "thinking"} /\ Len(b.text) \in Nat
  BY <1>2, OpenFacts
<1>4. b.sent + 1 \in 1..Len(b.text)
  <2>1. b.sent <= Len(b.text)
    BY <1>2 DEF BlocksFit, Fits
  <2> HIDE DEF b, n
  <2> QED BY <1>1, <1>3, <2>1 DEF Streamed
<1>5. b.text[b.sent + 1] \in Char /\ <<b.text[b.sent + 1]>> \in Seq(Char)
  <2> HIDE DEF b, n
  <2> QED BY <1>3, <1>4
<1>6. NextDelta(b) \in Records
  <2>1. message \in Message
    BY DEF ProviderTyped
  <2>2. b.kind \in Kinds /\ "delta" \in Types /\ 0 \in Nat
    <3> HIDE DEF b, n
    <3> QED BY <1>3 DEF Kinds, Types
  <2> HIDE DEF b, n
  <2> QED BY <1>3, <1>5, <2>1, <2>2, RecordTyped DEF NextDelta
<1>7. open \in Seq(Block)
  BY DEF ProviderTyped
<1>8. /\ open' = [open EXCEPT ![n] = [b EXCEPT !.sent = @ + 1]]
      /\ [b EXCEPT !.sent = @ + 1] \in Block
  BY <1>1, <1>3 DEF Block
<1>9. LET d == [b EXCEPT !.sent = @ + 1] IN
      d.kind = b.kind /\ d.text = b.text /\ d.index = b.index /\ d.sent = b.sent + 1
  BY <1>3 DEF Block
<1>10. /\ open' \in Seq(Block) /\ Len(open') = n
       /\ \A i \in 1..n : i # n => open'[i] = open[i]
       /\ open'[n] = [b EXCEPT !.sent = @ + 1]
  BY <1>2, <1>7, <1>8
<1> QED BY <1>1, <1>2, <1>3, <1>4, <1>5, <1>6, <1>8, <1>9, <1>10

LEMMA SendDeltaKeeps ==
  ASSUME ProviderInv, SendDelta
  PROVE  ProviderInv'
<1> USE DEF ProviderInv
<1> DEFINE n == Len(open)
           b == open[n]
<1>1. /\ n \in Nat \ {0} /\ b \in Block /\ b.sent + 1 \in 1..Len(b.text) /\ message.streams
      /\ NextDelta(b) \in Records /\ Write(NextDelta(b))
      /\ open' \in Seq(Block) /\ Len(open') = n
      /\ \A i \in 1..n : i # n => open'[i] = open[i]
      /\ open'[n] \in Block /\ open'[n].kind = b.kind /\ open'[n].text = b.text
      /\ open'[n].index = b.index /\ open'[n].sent = b.sent + 1
  BY DeltaFacts
<1>2. message' = message /\ calls' = calls /\ said' = said
  BY DEF SendDelta
<1>3. ProviderTyped'
  <2>1. sent' \in Records \cup {NoRecord} /\ pipe' \in Seq(Records)
    BY <1>1, WriteTyped
  <2> QED BY <1>1, <1>2, <2>1 DEF ProviderTyped
<1>4. Last(open) = b /\ Last(open') = open'[n] /\ open # <<>> /\ open' # <<>>
  BY <1>1, OpenFacts DEF Last
<1>5. \A i \in 1..n : /\ open'[i].text = open[i].text
                      /\ open'[i].index = open[i].index
  BY <1>1
<1>6. \A i \in 1..n : i # n => open'[i].sent = open[i].sent
  BY <1>1
<1>7. ASSUME NEW i \in 1..n PROVE Fits(open'[i], i, n, message)
  <2>1. Fits(open[i], i, n, message)
    BY DEF BlocksFit
  <2>2. CASE i = n
    <3>1. open'[i].sent <= Len(open'[i].text)
      BY <1>1, <2>2
    <3> HIDE DEF n, b
    <3> QED BY <1>1, <1>5, <2>1, <3>1 DEF Fits
  <2>3. CASE i # n
    BY <1>1, <2>1, <2>3
  <2> QED BY <2>2, <2>3
<1>8. ASSUME NEW i \in 1..n - 1
      PROVE  Streamed(open'[i]) /\ Letters(open'[i].text) # Letters(open'[i + 1].text)
  <2>1. i \in 1..n /\ i # n /\ i + 1 \in 1..n
    BY <1>1
  <2>2. Streamed(open[i]) /\ Letters(open[i].text) # Letters(open[i + 1].text)
    BY DEF BlocksFit
  <2> HIDE DEF n, b
  <2> QED BY <1>1, <1>5, <2>1, <2>2
<1>9. BlocksFit'
  <2>1. n <= message.blocks /\ (n > 1 => message.streams) /\ Letters(b.text) = message.last
    BY <1>4 DEF BlocksFit
  <2> HIDE DEF n, b
  <2> QED BY <1>1, <1>2, <1>4, <1>7, <1>8, <2>1 DEF BlocksFit
<1>10. SaidInOrder'
  <2>1. /\ \A k \in 1..Len(said) : said[k].n = k
        /\ b.kind = "text" => EndsIn(said, b)
    BY <1>4 DEF SaidInOrder
  <2>2. EndsIn(said, b) => EndsIn(said, open'[n])
    BY <1>1 DEF EndsIn
  <2> HIDE DEF n, b
  <2> QED BY <1>1, <1>2, <1>4, <2>1, <2>2 DEF SaidInOrder
<1> QED BY <1>3, <1>9, <1>10

\* The record of the oldest block.
FirstSnapshot == Record("assistant", open[1].kind, open[1].text, 0, 0)

LEMMA SnapshotFacts ==
  ASSUME ProviderInv, SendSnapshot
  PROVE  /\ Len(open) \in Nat \ {0} /\ 1 \in 1..Len(open) /\ open[1] \in Block
         /\ FirstSnapshot \in Records /\ Write(FirstSnapshot)
         /\ Len(open) > 1 => Last(open).sent = 0 \/ Streamed(Last(open))
         /\ open' \in Seq(Block) /\ Len(open') = Len(open) - 1
         /\ \A i \in 1..Len(open') : i + 1 \in 1..Len(open) /\ open'[i] = open[i + 1]
         /\ Len(open) > 1 => open' # <<>> /\ Last(open') = Last(open)
<1> USE DEF ProviderInv
<1>1. /\ open # <<>> /\ open' = Tail(open) /\ Write(FirstSnapshot)
      /\ Len(open) > 1 => Last(open).sent = 0 \/ Streamed(Last(open))
  BY DEF SendSnapshot, FirstSnapshot
<1>2. Len(open) \in Nat \ {0} /\ 1 \in 1..Len(open) /\ open[1] \in Block
  BY <1>1, OpenFacts
<1>3. /\ open' \in Seq(Block) /\ Len(open') = Len(open) - 1
      /\ \A i \in 1..Len(open') : open'[i] = open[i + 1]
  BY <1>1 DEF ProviderTyped
<1>4. \A i \in 1..Len(open') : i + 1 \in 1..Len(open)
  BY <1>2, <1>3
<1>5. ASSUME Len(open) > 1 PROVE open' # <<>> /\ Last(open') = Last(open)
  <2>1. Len(open') \in Nat /\ Len(open') \in 1..Len(open') /\ Len(open') + 1 = Len(open)
    BY <1>2, <1>3, <1>5
  <2>2. open'[Len(open')] = open[Len(open)]
    BY <1>3, <2>1
  <2> QED BY <2>1, <2>2, <1>3 DEF Last
<1>6. FirstSnapshot \in Records
  <2>1. message \in Message /\ open[1].text \in Seq(Char) /\ open[1].kind \in {"text", "thinking"}
    BY <1>2, OpenFacts DEF ProviderTyped
  <2>2. open[1].kind \in Kinds /\ "assistant" \in Types /\ 0 \in Nat
    BY <2>1 DEF Kinds, Types
  <2> QED BY <2>1, <2>2, RecordTyped DEF FirstSnapshot
<1> QED BY <1>1, <1>2, <1>3, <1>4, <1>5, <1>6

LEMMA SendSnapshotKeeps ==
  ASSUME ProviderInv, SendSnapshot
  PROVE  ProviderInv'
<1> USE DEF ProviderInv
<1>1. message' = message /\ calls' = calls /\ said' = said
  BY DEF SendSnapshot
<1>2. ProviderTyped'
  <2>1. sent' \in Records \cup {NoRecord} /\ pipe' \in Seq(Records)
    BY SnapshotFacts, WriteTyped
  <2> QED BY <1>1, <2>1, SnapshotFacts DEF ProviderTyped
<1>3. /\ Len(open) \in Nat \ {0} /\ Len(open') = Len(open) - 1 /\ message.blocks \in Nat
  BY SnapshotFacts, MessageFacts
<1>4. ASSUME NEW i \in 1..Len(open') PROVE Fits(open'[i], i, Len(open'), message)
  <2>1. i + 1 \in 1..Len(open) /\ open'[i] = open[i + 1]
    BY SnapshotFacts
  <2>2. Fits(open[i + 1], i + 1, Len(open), message)
    BY <2>1 DEF BlocksFit
  <2>3. message.blocks - Len(open') + i - 1 = message.blocks - Len(open) + (i + 1) - 1
    BY <1>3
  <2> QED BY <2>1, <2>2, <2>3 DEF Fits
<1>5. ASSUME NEW i \in 1..Len(open') - 1
      PROVE  Streamed(open'[i]) /\ Letters(open'[i].text) # Letters(open'[i + 1].text)
  <2>1. i \in 1..Len(open') /\ i + 1 \in 1..Len(open') /\ i + 1 \in 1..Len(open) - 1
    BY <1>3
  <2>2. open'[i] = open[i + 1] /\ open'[i + 1] = open[(i + 1) + 1]
    BY <2>1, SnapshotFacts
  <2> QED BY <2>1, <2>2 DEF BlocksFit
<1>6. Len(open') <= message.blocks /\ (Len(open') > 1 => message.streams)
  <2>1. Len(open) <= message.blocks /\ (Len(open) > 1 => message.streams)
    BY DEF BlocksFit
  <2> QED BY <1>3, <2>1
<1>7. open' # <<>> => Len(open) > 1
  BY <1>2, <1>3 DEF ProviderTyped
<1>8. open' # <<>> => open # <<>> /\ Last(open') = Last(open)
  BY <1>3, <1>7, SnapshotFacts, OpenFacts
<1>9. BlocksFit'
  BY <1>1, <1>4, <1>5, <1>6, <1>8 DEF BlocksFit
<1>10. SaidInOrder'
  BY <1>1, <1>8 DEF SaidInOrder
<1> QED BY <1>2, <1>9, <1>10

LEMMA CallToolKeeps ==
  ASSUME ProviderInv, CallTool
  PROVE  ProviderInv'
<1> USE DEF ProviderInv
<1> DEFINE r == Record(IF message.streams THEN "tool_start" ELSE "assistant",
                       "tool_use", NoText, message.id, 0)
<1>1. /\ open = <<>> /\ Write(r) /\ message' = [message EXCEPT !.blocks = NumBlocks]
      /\ calls' = calls \cup {message.id} /\ open' = open /\ said' = said
  BY DEF CallTool, Settled
<1>2. message' \in Message
  BY <1>1, Bounds DEF Message, ProviderTyped
<1>3. r \in Records
  BY RecordTyped, EmptyIsText, Literals, MessageFacts DEF ProviderTyped
<1>4. sent' \in Records \cup {NoRecord} /\ pipe' \in Seq(Records)
  <2> HIDE DEF r
  <2> QED BY <1>1, <1>3, WriteTyped
<1>5. ProviderTyped'
  BY <1>1, <1>2, <1>4, MessageFacts DEF ProviderTyped
<1>6. Len(open') = 0 /\ open' = <<>> /\ message'.blocks \in Nat
  BY <1>1, <1>2 DEF Message
<1>7. BlocksFit'
  BY <1>6 DEF BlocksFit
<1>8. SaidInOrder'
  BY <1>1, <1>6 DEF SaidInOrder
<1> QED BY <1>5, <1>7, <1>8

LEMMA FinishKeeps ==
  ASSUME ProviderInv, NEW letters \in Texts, Finish(letters)
  PROVE  ProviderInv'
<1> USE DEF ProviderInv
<1> DEFINE text == IF said = NoText THEN Numbered(letters, 0) ELSE <<Last(said)>>
           r == Record("result", "none", text, 0, 0)
<1>1. /\ open = <<>> /\ Write(r) /\ said' = (IF said = NoText THEN text ELSE said)
      /\ message' = message /\ open' = open /\ calls' = calls
  BY DEF Finish, Settled
<1>2. text \in Seq(Char) /\ (said = NoText => \A k \in 1..Len(text) : text[k].n = k)
  <2>1. CASE said = NoText
    <3>1. letters \in Seq(STRING)
      BY TextsAreWords
    <3>2. text = Numbered(letters, 0)
      BY <2>1
    <3>3. /\ Numbered(letters, 0) \in Seq(Char)
          /\ Len(Numbered(letters, 0)) = Len(letters)
          /\ \A k \in 1..Len(letters) : Numbered(letters, 0)[k] = [c |-> letters[k], n |-> 0 + k]
      BY <3>1, NumberedOf
    <3> HIDE DEF text
    <3>4. \A k \in 1..Len(letters) : Numbered(letters, 0)[k].n = k
      <4> SUFFICES ASSUME NEW k \in 1..Len(letters) PROVE Numbered(letters, 0)[k].n = k
        OBVIOUS
      <4>1. k \in Nat /\ 0 + k = k
        BY <3>1
      <4>2. Numbered(letters, 0)[k] = [c |-> letters[k], n |-> 0 + k]
        BY <3>3
      <4> QED BY <4>1, <4>2
    <3> QED BY <3>2, <3>3, <3>4
  <2>2. CASE said # NoText
    <3>1. Last(said) \in Char
      BY <2>2 DEF Last, NoText, ProviderTyped
    <3> QED BY <2>2, <3>1
  <2> QED BY <2>1, <2>2
<1>3. r \in Records
  <2> HIDE DEF text
  <2> QED BY <1>2, RecordTyped, Literals DEF ProviderTyped
<1> HIDE DEF text, r
<1>4. ProviderTyped'
  <2>1. sent' \in Records \cup {NoRecord} /\ pipe' \in Seq(Records)
    BY <1>1, <1>3, WriteTyped
  <2> QED BY <1>1, <1>2, <2>1 DEF ProviderTyped
<1>5. BlocksFit'
  BY <1>1 DEF BlocksFit
<1>6. SaidInOrder'
  BY <1>1, <1>2 DEF SaidInOrder
<1> QED BY <1>4, <1>5, <1>6

LEMMA ProviderInit == Init => ProviderInv
<1> SUFFICES ASSUME Init PROVE ProviderInv
  OBVIOUS
<1>1. ProviderTyped
  BY DEF Init, ProviderTyped, Message, NoText
<1>2. Len(open) = 0 /\ open = <<>> /\ message.blocks = 0 /\ Len(said) = 0
  BY DEF Init, NoText
<1>3. BlocksFit
  BY <1>2 DEF BlocksFit
<1>4. SaidInOrder
  BY <1>2 DEF SaidInOrder
<1> QED BY <1>1, <1>3, <1>4 DEF ProviderInv

\* An action that only writes a record, or finishes a tool.
LEMMA WriteKeeps ==
  ASSUME ProviderInv, NEW r \in Records, Write(r),
         message' = message, open' = open, said' = said, calls' \in SUBSET Nat
  PROVE  ProviderInv'
<1>1. sent' \in Records \cup {NoRecord} /\ pipe' \in Seq(Records)
  BY WriteTyped DEF ProviderInv
<1>2. ProviderTyped'
  BY <1>1 DEF ProviderInv, ProviderTyped
<1> QED BY <1>2, QuietProvider

LEMMA ProviderKeeps ==
  ASSUME ProviderInv, [Next]_vars
  PROVE  ProviderInv'
<1> USE DEF ProviderInv
<1>1. message \in Message /\ calls \in SUBSET Nat
  BY DEF ProviderTyped
<1>2. CASE Feed
  <2>1. pipe' \in Seq(Records)
    BY <1>2 DEF Feed, ProviderTyped
  <2> QED BY <1>2, <2>1, QuietProvider DEF Feed, provider, ProviderTyped
<1>3. CASE RepeatSnapshot
  <2>1. sent \in Records
    BY <1>3 DEF RepeatSnapshot, ProviderTyped, NoRecord
  <2> QED BY <1>1, <1>3, <2>1, WriteKeeps DEF RepeatSnapshot
<1>4. CASE SnapshotTool
  <2>1. sent.tool \in Nat
    BY <1>4 DEF SnapshotTool, ProviderTyped, NoRecord, Records
  <2>2. Record("assistant", "tool_use", NoText, sent.tool, 0) \in Records
    BY <1>1, <2>1, RecordTyped, EmptyIsText, Literals
  <2> QED BY <1>1, <1>4, <2>2, WriteKeeps DEF SnapshotTool
<1>5. ASSUME NEW tool \in calls, FinishTool(tool) PROVE ProviderInv'
  <2>1. Record("user", "none", NoText, tool, 0) \in Records
    BY <1>1, RecordTyped, EmptyIsText, Literals
  <2> QED BY <1>1, <1>5, <2>1, WriteKeeps DEF FinishTool
<1>6. ASSUME NEW type \in {"message_start", "delta", "assistant", "result"}, WriteNested(type)
      PROVE  ProviderInv'
  <2> DEFINE q == Record(type, "text", Numbered(message.last, 0), 0, 0)
  <2>1. q \in Records
    <3>1. Numbered(message.last, 0) \in Seq(Char)
      BY NumberedOf, MessageFacts
    <3> QED BY <1>1, <3>1, RecordTyped, Literals
  <2>2. [q EXCEPT !.nested = TRUE] \in Records
    <3> HIDE DEF q
    <3> QED BY <2>1 DEF Records
  <2>3. pipe' = Append(pipe, [q EXCEPT !.nested = TRUE])
    BY <1>6 DEF WriteNested
  <2>4. pipe' \in Seq(Records)
    <3> HIDE DEF q
    <3> QED BY <2>2, <2>3 DEF ProviderTyped
  <2> QED BY <1>6, <2>4, QuietProvider DEF WriteNested, provider, ProviderTyped
<1>7. CASE Killed
  <2>1. Record("torn", "none", NoText, 0, 0) \in Records
    BY <1>1, RecordTyped, EmptyIsText, Literals
  <2> QED BY <1>1, <1>7, <2>1, WriteKeeps DEF Killed
<1>8. CASE Ended
  BY <1>8, QuietProvider DEF Ended, vars, ProviderTyped
<1>9. CASE UNCHANGED vars
  BY <1>9, QuietProvider DEF vars, ProviderTyped
<1> QED BY <1>2, <1>3, <1>4, <1>5, <1>6, <1>7, <1>8, <1>9, BeginMessageKeeps, OpenBlockKeeps,
           SendDeltaKeeps, SendSnapshotKeeps, CallToolKeeps, FinishKeeps DEF Next

-----------------------------------------------------------------------------
(* Decoding a record.                                                      *)

IsState(st) ==
  /\ st = [streamed |-> st.streamed, consumed |-> st.consumed, overflow |-> st.overflow,
           tracking |-> st.tracking, ordinals |-> st.ordinals, seen |-> st.seen,
           previous |-> st.previous, tools |-> st.tools]
  /\ st.tracking \in BOOLEAN

\* The parts of the state that deal with text, with keys and with tools.
SameText(s, t) ==
  s.streamed = t.streamed /\ s.consumed = t.consumed /\ s.overflow = t.overflow /\ s.tracking = t.tracking
SameKeys(s, t) == s.ordinals = t.ordinals /\ s.seen = t.seen /\ s.previous = t.previous

\* The decoder with what it has said so far.
IsConfig(c) ==
  /\ c = [st |-> c.st, text |-> c.text, tools |-> c.tools, over |-> c.over]
  /\ IsState(c.st) /\ c.text \in Seq(Char) /\ c.tools \in Seq(Nat) /\ c.over \in BOOLEAN

Decodes(c, r) ==
  LET d == ClaudeEvents(c.st, r, Len(c.text)) IN
  [st |-> d.st, text |-> c.text \o d.text, tools |-> c.tools \o d.tools, over |-> c.over \/ d.over]

\* e is c after it decoded a record to d.
DecodedTo(e, c, d) ==
  /\ e = [st |-> e.st, text |-> e.text, tools |-> e.tools, over |-> e.over]
  /\ e.st = d.st /\ e.text = c.text \o d.text /\ e.tools = c.tools \o d.tools
  /\ e.over = (c.over \/ d.over)

LEMMA DecodesFields ==
  ASSUME NEW c, NEW r, NEW d, d = ClaudeEvents(c.st, r, Len(c.text)), NEW e, e = Decodes(c, r)
  PROVE  DecodedTo(e, c, d)
<1>1. PICK over, text, tools :
        over = (c.over \/ d.over) /\ text = c.text \o d.text /\ tools = c.tools \o d.tools
  OBVIOUS
<1>2. e = [st |-> d.st, text |-> text, tools |-> tools, over |-> over]
  BY <1>1, Zenon DEF Decodes
<1>3. /\ e.st = d.st /\ e.text = text /\ e.tools = tools /\ e.over = over
      /\ e = [st |-> e.st, text |-> e.text, tools |-> e.tools, over |-> e.over]
  BY <1>2
<1> QED BY <1>1, <1>3, Zenon DEF DecodedTo

LEMMA QuietFields ==
  ASSUME NEW st
  PROVE  /\ Quiet(st).st = st /\ Quiet(st).text = <<>>
         /\ Quiet(st).tools = <<>> /\ Quiet(st).over = FALSE
BY DEF Quiet, NoText

\* What leaves no trace.
LEMMA QuietDecodes ==
  ASSUME NEW c, IsConfig(c), NEW r, ClaudeEvents(c.st, r, Len(c.text)) = Quiet(c.st)
  PROVE  Decodes(c, r) = c
<1>1. c.text \o <<>> = c.text /\ c.tools \o <<>> = c.tools /\ (c.over \/ FALSE) = c.over
  BY DEF IsConfig
<1>2. Decodes(c, r) = [st |-> c.st, text |-> c.text \o <<>>, tools |-> c.tools \o <<>>,
                       over |-> c.over \/ FALSE]
  BY QuietFields DEF Decodes
<1>3. c = [st |-> c.st, text |-> c.text, tools |-> c.tools, over |-> c.over]
  BY DEF IsConfig
<1> QED BY <1>1, <1>2, <1>3

LEMMA EventsByType ==
  ASSUME NEW st, NEW r, NEW chars, ~r.nested
  PROVE  /\ r.type = "torn" => ClaudeEvents(st, r, chars) = Quiet(st)
         /\ r.type = "message_start" => ClaudeEvents(st, r, chars) = MessageStart(st)
         /\ r.type = "delta" => ClaudeEvents(st, r, chars) = Delta(st, r)
         /\ r.type = "tool_start" => ClaudeEvents(st, r, chars) = ToolStart(st, r.tool)
         /\ r.type = "assistant" => ClaudeEvents(st, r, chars) = Snapshot(st, r)
         /\ r.type = "user" => ClaudeEvents(st, r, chars) = ToolResult(st, r)
         /\ r.type = "result" => ClaudeEvents(st, r, chars) = Result(st, r, chars)
BY DEF ClaudeEvents

\* What the start of a message leaves.
Restarted(d, st) ==
  /\ IsState(d.st) /\ d.text = <<>> /\ d.tools = <<>> /\ d.over = FALSE
  /\ d.st.streamed = <<>> /\ d.st.consumed = {} /\ d.st.overflow = {} /\ d.st.tracking = TRUE
  /\ SameKeys(d.st, st) /\ d.st.tools = st.tools

LEMMA MessageStartFields ==
  ASSUME NEW st, IsState(st), NEW d, d = MessageStart(st)
  PROVE  Restarted(d, st)
<1>1. PICK yes \in BOOLEAN, none \in {{}}, nothing \in {<<>>} : yes = TRUE /\ none = {} /\ nothing = <<>>
  OBVIOUS
<1> DEFINE s == [st EXCEPT !.streamed = nothing, !.consumed = none, !.overflow = none, !.tracking = yes]
<1>2. d = Quiet(s)
  BY <1>1 DEF MessageStart
<1>3. st = [streamed |-> st.streamed, consumed |-> st.consumed, overflow |-> st.overflow,
            tracking |-> st.tracking, ordinals |-> st.ordinals, seen |-> st.seen,
            previous |-> st.previous, tools |-> st.tools]
  BY DEF IsState
<1>4. DOMAIN st = {"streamed", "consumed", "overflow", "tracking", "ordinals", "seen", "previous", "tools"}
  BY <1>3
<1>5. s = [f \in DOMAIN st |-> IF f = "tracking" THEN yes ELSE IF f = "overflow" THEN none
                              ELSE IF f = "consumed" THEN none
                              ELSE IF f = "streamed" THEN nothing ELSE st[f]]
  OBVIOUS
<1> HIDE DEF s
<1>6. /\ s.streamed = nothing /\ s.consumed = none /\ s.overflow = none /\ s.tracking = yes
      /\ s.ordinals = st.ordinals /\ s.seen = st.seen /\ s.previous = st.previous /\ s.tools = st.tools
  BY <1>4, <1>5
<1>7. s = [f \in {"streamed", "consumed", "overflow", "tracking", "ordinals", "seen", "previous", "tools"} |-> s[f]]
  BY <1>4, <1>5
<1>8. s = [streamed |-> s.streamed, consumed |-> s.consumed, overflow |-> s.overflow,
           tracking |-> s.tracking, ordinals |-> s.ordinals, seen |-> s.seen,
           previous |-> s.previous, tools |-> s.tools]
  BY <1>7
<1>9. d.st = s /\ d.text = <<>> /\ d.tools = <<>> /\ d.over = FALSE
  BY <1>2, QuietFields
<1>10. s.tracking \in BOOLEAN
  BY <1>6
<1>11. IsState(s)
  BY <1>8, <1>10, Zenon DEF IsState
<1>12. SameKeys(s, st)
  BY <1>6, Zenon DEF SameKeys
<1> QED BY <1>1, <1>6, <1>9, <1>11, <1>12, Zenon DEF Restarted

\* The streamed blocks with one entry set.
WithEntry(streamed, index, kind, text) ==
  [i \in DOMAIN streamed \cup {index} |->
     IF i = index THEN [kind |-> kind, text |-> text] ELSE streamed[i]]

\* What is remembered of a text after one more character.
Grown(text, letters) == IF Len(text) < MaxChars THEN text \o letters ELSE text

\* What remembering one character of a block leaves.
RememberedOK(st, index, kind, letters, after) ==
  /\ IsState(after) /\ after.consumed = st.consumed /\ SameKeys(after, st)
  /\ after.tools = st.tools
  /\ ~st.tracking => ~after.tracking
  /\ (after.tracking /\ index \notin DOMAIN st.streamed) =>
       /\ after.streamed = WithEntry(st.streamed, index, kind, letters)
       /\ after.overflow = st.overflow
  /\ \A text \in Seq(STRING) :
       (index \in DOMAIN st.streamed /\ st.streamed[index].kind = kind
        /\ st.streamed[index].text = text /\ Len(text) <= MaxChars) =>
       /\ after.streamed = WithEntry(st.streamed, index, kind, Grown(text, letters))
       /\ after.overflow = IF Len(text) < MaxChars THEN st.overflow ELSE st.overflow \cup {index}

LEMMA RememberedOne ==
  ASSUME NEW st, IsState(st), NEW index, NEW kind, NEW letters \in Seq(STRING), Len(letters) = 1,
         NEW after, after = Remembered(st, index, kind, letters)
  PROVE  RememberedOK(st, index, kind, letters, after)
<1> DEFINE known == index \in DOMAIN st.streamed
           item == IF known THEN st.streamed[index] ELSE [kind |-> kind, text |-> <<>>]
           room == MaxChars - Len(item.text)
           kept == item.text \o SubSeq(letters, 1, Min({room, Len(letters)}))
           entries == [i \in DOMAIN st.streamed \cup {index} |->
                         IF i = index THEN [kind |-> kind, text |-> kept] ELSE st.streamed[i]]
           over == IF Len(letters) > room THEN st.overflow \cup {index} ELSE st.overflow
           lost == ~known /\ Cardinality(DOMAIN st.streamed) >= MaxBlocks
<1>1. after = IF lost THEN [st EXCEPT !.tracking = FALSE]
              ELSE IF item.kind # kind THEN st
              ELSE [st EXCEPT !.streamed = entries, !.overflow = over]
  BY DEF Remembered
<1>2. MaxChars \in Nat \ {0}
  BY Bounds
<1>3. ASSUME NEW text \in Seq(STRING), item.text = text, Len(text) <= MaxChars
      PROVE  /\ kept = Grown(text, letters)
             /\ Len(letters) > room <=> ~(Len(text) < MaxChars)
  <2>1. room = MaxChars - Len(text) /\ Len(text) \in Nat /\ room \in Nat
    BY <1>2, <1>3
  <2>2. CASE Len(text) < MaxChars
    <3>1. 1 <= room
      BY <1>2, <2>1, <2>2
    <3> HIDE DEF item, room
    <3>2. Min({room, Len(letters)}) = 1
      <4>1. Min({room, 1}) = IF room <= 1 THEN room ELSE 1
        BY <2>1, MinOfTwo
      <4> QED BY <2>1, <3>1, <4>1
    <3>3. SubSeq(letters, 1, 1) = letters
      OBVIOUS
    <3>4. kept = text \o letters
      BY <1>3, <3>2, <3>3
    <3>5. ~(Len(letters) > room)
      BY <2>1, <3>1
    <3> HIDE DEF kept
    <3> QED BY <2>2, <3>4, <3>5 DEF Grown
  <2>3. CASE ~(Len(text) < MaxChars)
    <3>1. room = 0
      BY <1>2, <1>3, <2>1, <2>3
    <3> HIDE DEF item, room
    <3>2. Min({room, Len(letters)}) = 0
      <4>1. Min({0, 1}) = IF 0 <= 1 THEN 0 ELSE 1
        BY MinOfTwo
      <4> QED BY <3>1, <4>1
    <3>3. SubSeq(letters, 1, 0) = <<>> /\ text \o <<>> = text
      OBVIOUS
    <3>4. kept = text
      BY <1>3, <3>2, <3>3
    <3>5. Len(letters) > room
      BY <3>1
    <3> HIDE DEF kept
    <3> QED BY <2>3, <3>4, <3>5 DEF Grown
  <2> QED BY <2>2, <2>3
<1>4. CASE lost
  <2>1. after = [st EXCEPT !.tracking = FALSE]
    BY <1>1, <1>4
  <2>2. after = [streamed |-> st.streamed, consumed |-> st.consumed, overflow |-> st.overflow,
                 tracking |-> FALSE, ordinals |-> st.ordinals, seen |-> st.seen,
                 previous |-> st.previous, tools |-> st.tools]
    BY <2>1 DEF IsState
  <2>3. /\ after.tracking = FALSE /\ after.consumed = st.consumed /\ after.ordinals = st.ordinals
        /\ after.seen = st.seen /\ after.previous = st.previous /\ after.tools = st.tools
        /\ IsState(after)
    <3> HIDE DEF lost
    <3> QED BY <2>2 DEF IsState
  <2>4. index \notin DOMAIN st.streamed
    BY <1>4
  <2> HIDE DEF lost, item, room, kept, entries, over
  <2> QED BY <2>3, <2>4, Zenon DEF SameKeys, RememberedOK
<1>5. CASE ~lost /\ item.kind # kind
  <2>1. after = st
    BY <1>1, <1>5
  <2>2. known /\ st.streamed[index].kind # kind
    BY <1>5
  <2> HIDE DEF item, room, kept, entries, over
  <2> QED BY <2>1, <2>2, Zenon DEF SameKeys, RememberedOK
<1>6. CASE ~lost /\ item.kind = kind
  <2>1. after = [st EXCEPT !.streamed = entries, !.overflow = over]
    BY <1>1, <1>6
  <2> HIDE DEF item, room, kept, entries, over
  <2>2. after = [streamed |-> entries, consumed |-> st.consumed, overflow |-> over,
                 tracking |-> st.tracking, ordinals |-> st.ordinals, seen |-> st.seen,
                 previous |-> st.previous, tools |-> st.tools]
    BY <2>1 DEF IsState
  <2>3. /\ IsState(after) /\ after.consumed = st.consumed /\ SameKeys(after, st)
        /\ after.tools = st.tools /\ after.tracking = st.tracking
        /\ after.streamed = entries /\ after.overflow = over
    BY <2>2 DEF IsState, SameKeys
  <2>4. ASSUME index \notin DOMAIN st.streamed
        PROVE  kept = letters /\ over = st.overflow
    <3>1. item.text = <<>> /\ <<>> \in Seq(STRING) /\ Len(<<>>) = 0
      BY <2>4 DEF item
    <3>2. 0 < MaxChars /\ 0 <= MaxChars /\ <<>> \o letters = letters
      BY <1>2
    <3>3. kept = Grown(<<>>, letters) /\ ~(Len(letters) > room)
      BY <1>3, <3>1, <3>2
    <3>4. Grown(<<>>, letters) = letters
      BY <3>1, <3>2 DEF Grown
    <3> QED BY <3>3, <3>4 DEF over
  <2>5. ASSUME NEW text \in Seq(STRING), index \in DOMAIN st.streamed, st.streamed[index].kind = kind,
               st.streamed[index].text = text, Len(text) <= MaxChars
        PROVE  /\ kept = Grown(text, letters)
               /\ over = IF Len(text) < MaxChars THEN st.overflow ELSE st.overflow \cup {index}
    <3>1. item.text = text
      BY <2>5 DEF item
    <3> QED BY <1>3, <2>5, <3>1 DEF over
  <2>6. entries = WithEntry(st.streamed, index, kind, kept)
    BY DEF entries, WithEntry
  <2>7. index \notin DOMAIN st.streamed =>
          after.streamed = WithEntry(st.streamed, index, kind, letters) /\ after.overflow = st.overflow
    BY <2>3, <2>4, <2>6, Zenon
  <2>8. ASSUME NEW text \in Seq(STRING), index \in DOMAIN st.streamed, st.streamed[index].kind = kind,
               st.streamed[index].text = text, Len(text) <= MaxChars
        PROVE  /\ after.streamed = WithEntry(st.streamed, index, kind, Grown(text, letters))
               /\ after.overflow = IF Len(text) < MaxChars THEN st.overflow ELSE st.overflow \cup {index}
    <3>1. kept = Grown(text, letters)
      BY <2>5, <2>8, Zenon
    <3>2. over = IF Len(text) < MaxChars THEN st.overflow ELSE st.overflow \cup {index}
      BY <2>5, <2>8, Zenon
    <3> QED BY <2>3, <2>6, <3>1, <3>2, Zenon
  <2> QED BY <2>3, <2>7, <2>8, Zenon DEF RememberedOK
<1> QED BY <1>4, <1>5, <1>6

\* The first character of a block.
LEMMA RememberedFirst ==
  ASSUME NEW st, IsState(st), NEW index, NEW kind, NEW letters \in Seq(STRING), Len(letters) = 1,
         NEW after, after = Remembered(st, index, kind, letters),
         after.tracking, index \notin DOMAIN st.streamed
  PROVE  after.streamed = WithEntry(st.streamed, index, kind, letters) /\ after.overflow = st.overflow
<1>1. RememberedOK(st, index, kind, letters, after)
  BY RememberedOne, Zenon
<1> QED BY <1>1, Zenon DEF RememberedOK

LEMMA RememberedKeeps ==
  ASSUME NEW st, IsState(st), NEW index, NEW kind, NEW letters \in Seq(STRING), Len(letters) = 1,
         NEW after, after = Remembered(st, index, kind, letters)
  PROVE  /\ IsState(after) /\ after.consumed = st.consumed /\ SameKeys(after, st)
         /\ after.tools = st.tools /\ (~st.tracking => ~after.tracking)
<1>1. RememberedOK(st, index, kind, letters, after)
  BY RememberedOne, Zenon
<1> QED BY <1>1, Zenon DEF RememberedOK

EntrySet(new, streamed, index, kind, text) ==
  /\ DOMAIN new = DOMAIN streamed \cup {index}
  /\ new[index].kind = kind /\ new[index].text = text
  /\ \A i \in DOMAIN streamed : i # index => new[i] = streamed[i]

LEMMA EntryIs ==
  ASSUME NEW streamed, NEW index, NEW kind, NEW text
  PROVE  EntrySet(WithEntry(streamed, index, kind, text), streamed, index, kind, text)
BY DEF WithEntry, EntrySet

\* new is the text with one more letter.
OneMore(new, text, letter) ==
  /\ new \in Seq(STRING) /\ Len(new) = Len(text) + 1
  /\ \A k \in 1..Len(text) : new[k] = text[k]
  /\ new[Len(text) + 1] = letter

LEMMA GrownIs ==
  ASSUME NEW text \in Seq(STRING), NEW letters \in Seq(STRING), Len(letters) = 1,
         NEW new, new = Grown(text, letters), Len(text) < MaxChars
  PROVE  OneMore(new, text, letters[1])
<1>1. new = text \o letters
  BY DEF Grown
<1>2. new \in Seq(STRING) /\ JoinOf(new, text, letters)
  BY <1>1, Concatenated
<1>3. 1 \in 1..Len(letters)
  OBVIOUS
<1>4. new[Len(text) + 1] = letters[1]
  BY <1>2, <1>3, Zenon DEF JoinOf
<1> QED BY <1>2, <1>4 DEF JoinOf, OneMore

\* What a delta of a text says, with the state it leaves.
DeltaSays(d, after, kind, text) ==
  /\ d.st = after /\ d.text = (IF kind = "text" THEN text ELSE <<>>)
  /\ d.tools = <<>> /\ d.over = (~after.tracking \/ after.overflow # {})

LEMMA DeltaFields ==
  ASSUME NEW st, NEW r, NEW d, d = Delta(st, r),
         NEW after, after = Remembered(st, r.index, r.kind, Letters(r.text))
  PROVE  DeltaSays(d, after, r.kind, r.text)
BY DEF Delta, Quiet, NoText, DeltaSays

LEMMA ToolStartFields ==
  ASSUME NEW st, IsState(st), NEW tool, NEW d, d = ToolStart(st, tool)
  PROVE  /\ IsState(d.st) /\ SameText(d.st, st) /\ SameKeys(d.st, st)
         /\ st.tools \subseteq d.st.tools
         /\ d.text = <<>> /\ d.tools = <<tool>> /\ d.over = (tool \notin d.st.tools)
<1> DEFINE after == ToolRemembered(st, tool)
<1>1. d.st = after /\ d.text = <<>> /\ d.tools = <<tool>> /\ d.over = (tool \notin after.tools)
  BY DEF ToolStart, Quiet, NoText
<1>2. after = st \/ after = [st EXCEPT !.tools = st.tools \cup {tool}]
  BY DEF ToolRemembered
<1> HIDE DEF after
<1>3. CASE after = st
  BY <1>1, <1>3 DEF SameText, SameKeys
<1>4. CASE after = [st EXCEPT !.tools = st.tools \cup {tool}]
  <2>1. after = [streamed |-> st.streamed, consumed |-> st.consumed, overflow |-> st.overflow,
                 tracking |-> st.tracking, ordinals |-> st.ordinals, seen |-> st.seen,
                 previous |-> st.previous, tools |-> st.tools \cup {tool}]
    BY <1>4 DEF IsState
  <2> QED BY <1>1, <2>1 DEF IsState, SameText, SameKeys
<1> QED BY <1>2, <1>3, <1>4

\* What the result of a tool leaves.
ToolForgotten(d, st, tool) ==
  /\ IsState(d.st) /\ SameText(d.st, st) /\ SameKeys(d.st, st)
  /\ d.st.tools = st.tools \ {tool}
  /\ d.text = <<>> /\ d.tools = <<>> /\ d.over = FALSE

LEMMA ToolResultFields ==
  ASSUME NEW st, IsState(st), NEW r, NEW d, d = ToolResult(st, r)
  PROVE  ToolForgotten(d, st, r.tool)
<1> DEFINE s == [st EXCEPT !.tools = st.tools \ {r.tool}]
<1>1. s = [streamed |-> st.streamed, consumed |-> st.consumed, overflow |-> st.overflow,
           tracking |-> st.tracking, ordinals |-> st.ordinals, seen |-> st.seen,
           previous |-> st.previous, tools |-> st.tools \ {r.tool}]
  BY DEF IsState
<1>2. d = Quiet(s)
  BY DEF ToolResult
<1> HIDE DEF s
<1>3. d.st = s /\ d.text = <<>> /\ d.tools = <<>> /\ d.over = FALSE
  BY <1>2, QuietFields
<1>4. IsState(s) /\ SameText(s, st) /\ SameKeys(s, st) /\ s.tools = st.tools \ {r.tool}
  BY <1>1 DEF IsState, SameText, SameKeys
<1> QED BY <1>3, <1>4, Zenon DEF ToolForgotten

-----------------------------------------------------------------------------
(* The keys of the snapshots.                                              *)

\* A key that was seen is one the message has given out, and the last
\* snapshot of a message is among them.
KeysFit(st) ==
  /\ DOMAIN st.previous = DOMAIN st.ordinals
  /\ \A i \in DOMAIN st.ordinals : i \in Nat /\ st.ordinals[i] \in Nat
  /\ \A k \in st.seen : k[1] \in DOMAIN st.ordinals /\ k[2] \in Nat /\ k[2] < st.ordinals[k[1]]
  /\ \A i \in DOMAIN st.previous : st.previous[i][2] \in st.seen /\ st.previous[i][2][1] = i

LEMMA EvictedFacts ==
  ASSUME NEW st, IsState(st), KeysFit(st), NEW m, NEW e, e = Evicted(st, m)
  PROVE  /\ IsState(e) /\ SameText(e, st) /\ e.tools = st.tools /\ KeysFit(e)
         /\ DOMAIN e.ordinals \subseteq DOMAIN st.ordinals
         /\ m \in DOMAIN st.ordinals => e = st
<1> DEFINE oldest == Min(DOMAIN st.ordinals)
           rest == DOMAIN st.ordinals \ {oldest}
           ordinals == [i \in rest |-> st.ordinals[i]]
           previous == [i \in DOMAIN st.previous \ {oldest} |-> st.previous[i]]
           seen == {k \in st.seen : k[1] # oldest}
           full == ~(m \in DOMAIN st.ordinals \/ Cardinality(DOMAIN st.ordinals) < MaxMessages)
<1>1. e = IF full THEN [st EXCEPT !.ordinals = ordinals, !.previous = previous, !.seen = seen] ELSE st
  BY DEF Evicted
<1>2. CASE ~full
  <2>1. e = st
    BY <1>1, <1>2
  <2> QED BY <2>1 DEF SameText
<1>3. CASE full
  <2>1. e = [st EXCEPT !.ordinals = ordinals, !.previous = previous, !.seen = seen]
    BY <1>1, <1>3
  <2>2. m \notin DOMAIN st.ordinals
    BY <1>3
  <2> HIDE DEF full
  <2>3. e = [streamed |-> st.streamed, consumed |-> st.consumed, overflow |-> st.overflow,
             tracking |-> st.tracking, ordinals |-> ordinals, seen |-> seen,
             previous |-> previous, tools |-> st.tools]
    <3> HIDE DEF ordinals, previous, seen
    <3> QED BY <2>1 DEF IsState
  <2>4. /\ e.ordinals = ordinals /\ e.seen = seen /\ e.previous = previous /\ e.tools = st.tools
        /\ SameText(e, st) /\ IsState(e)
    <3> HIDE DEF ordinals, previous, seen
    <3> QED BY <2>3 DEF IsState, SameText
  <2>5. /\ DOMAIN ordinals = rest /\ DOMAIN previous = rest
        /\ \A i \in rest : ordinals[i] = st.ordinals[i] /\ previous[i] = st.previous[i]
        /\ rest \subseteq DOMAIN st.ordinals
    BY DEF KeysFit
  <2>6. \A k \in seen : k \in st.seen /\ k[1] \in rest
    BY DEF KeysFit
  <2>7. \A i \in rest : st.previous[i][2] \in seen
    BY DEF KeysFit
  <2> HIDE DEF rest, ordinals, previous, seen
  <2>8. KeysFit(e)
    <3>1. DOMAIN e.previous = DOMAIN e.ordinals
      BY <2>4, <2>5
    <3>2. \A i \in DOMAIN e.ordinals : i \in Nat /\ e.ordinals[i] \in Nat
      BY <2>4, <2>5 DEF KeysFit
    <3>3. ASSUME NEW k \in e.seen
          PROVE  k[1] \in DOMAIN e.ordinals /\ k[2] \in Nat /\ k[2] < e.ordinals[k[1]]
      BY <2>4, <2>5, <2>6 DEF KeysFit
    <3>4. ASSUME NEW i \in DOMAIN e.previous
          PROVE  e.previous[i][2] \in e.seen /\ e.previous[i][2][1] = i
      BY <2>4, <2>5, <2>7 DEF KeysFit
    <3> QED BY <3>1, <3>2, <3>3, <3>4 DEF KeysFit
  <2> QED BY <2>2, <2>4, <2>5, <2>8
<1> QED BY <1>2, <1>3

\* The state once the key of a snapshot is known, and whether it was seen before.
AfterKeys(st, r) == [Keyed(Evicted(st, r.id), r) EXCEPT !.seen = @ \cup {Key(Evicted(st, r.id), r)}]
KeySeen(st, r) == Key(Evicted(st, r.id), r) \in Evicted(st, r.id).seen

LEMMA SnapshotIs ==
  ASSUME NEW st0, NEW r, NEW st, st = AfterKeys(st0, r)
  PROVE  /\ KeySeen(st0, r) => Snapshot(st0, r) = Quiet(st)
         /\ (~KeySeen(st0, r) /\ r.kind = "tool_use") =>
              Snapshot(st0, r) = IF r.tool \in st.tools THEN Quiet(st) ELSE ToolStart(st, r.tool)
         /\ (~KeySeen(st0, r) /\ r.kind # "tool_use") =>
              Snapshot(st0, r) = [Quiet(Consumed(st, r)) EXCEPT
                                    !.text = IF r.kind = "text" THEN Suffix(st, r) ELSE NoText]
BY DEF Snapshot, AfterKeys, KeySeen

LEMMA RepeatedKey ==
  ASSUME NEW st, IsState(st), KeysFit(st), NEW r, IsRepeated(st, r)
  PROVE  AfterKeys(st, r) = st /\ KeySeen(st, r)
<1>1. r.id \in DOMAIN st.previous /\ st.previous[r.id][2] \in st.seen /\ r.id \in DOMAIN st.ordinals
  BY DEF IsRepeated, KeysFit
<1>2. Evicted(st, r.id) = st
  BY <1>1, EvictedFacts
<1>3. Keyed(st, r) = st /\ Key(st, r) = st.previous[r.id][2]
  BY DEF Keyed, Key
<1>4. st.seen \cup {st.previous[r.id][2]} = st.seen
  BY <1>1
<1>5. [st EXCEPT !.seen = st.seen] = st
  BY DEF IsState
<1>6. AfterKeys(st, r) = [st EXCEPT !.seen = st.seen \cup {st.previous[r.id][2]}]
  BY <1>2, <1>3 DEF AfterKeys
<1>7. KeySeen(st, r)
  BY <1>1, <1>2, <1>3 DEF KeySeen
<1> QED BY <1>4, <1>5, <1>6, <1>7

LEMMA FreshKey ==
  ASSUME NEW st, IsState(st), KeysFit(st), NEW r \in Records, ~IsRepeated(st, r),
         NEW e, e = AfterKeys(st, r)
  PROVE  /\ IsState(e) /\ SameText(e, st) /\ e.tools = st.tools /\ KeysFit(e)
         /\ DOMAIN e.ordinals \subseteq DOMAIN st.ordinals \cup {r.id}
         /\ r.id \in DOMAIN e.previous /\ e.previous[r.id][1] = Fingerprint(r)
         /\ ~KeySeen(st, r)
<1>1. PICK v : v = Evicted(st, r.id)
  OBVIOUS
<1>2. /\ IsState(v) /\ SameText(v, st) /\ v.tools = st.tools /\ KeysFit(v)
      /\ DOMAIN v.ordinals \subseteq DOMAIN st.ordinals
      /\ r.id \in DOMAIN st.ordinals => v = st
  BY <1>1, EvictedFacts
<1>3. ~IsRepeated(v, r)
  <2>1. CASE r.id \in DOMAIN st.ordinals
    BY <1>2, <2>1
  <2>2. CASE r.id \notin DOMAIN st.ordinals
    BY <1>2, <2>2 DEF IsRepeated, KeysFit
  <2> QED BY <2>1, <2>2
<1>4. PICK n : n = IF r.id \in DOMAIN v.ordinals THEN v.ordinals[r.id] ELSE 0
  OBVIOUS
<1>5. PICK key : key = <<r.id, n>>
  OBVIOUS
<1>6. Key(v, r) = key
  BY <1>3, <1>4, <1>5 DEF Key
<1>7. n \in Nat /\ r.id \in Nat /\ key[1] = r.id /\ key[2] = n
  BY <1>2, <1>4, <1>5 DEF KeysFit, Records
<1>8. key \notin v.seen
  BY <1>2, <1>4, <1>7 DEF KeysFit
<1> DEFINE ordinals == [i \in DOMAIN v.ordinals \cup {r.id} |-> IF i = r.id THEN n + 1 ELSE v.ordinals[i]]
           previous == [i \in DOMAIN v.previous \cup {r.id} |->
                          IF i = r.id THEN <<Fingerprint(r), key>> ELSE v.previous[i]]
<1>9. Keyed(v, r) = [v EXCEPT !.ordinals = ordinals, !.previous = previous]
  BY <1>3, <1>6, <1>7 DEF Keyed
<1>10. e = [Keyed(v, r) EXCEPT !.seen = @ \cup {key}]
  BY <1>1, <1>6 DEF AfterKeys
<1>11. /\ DOMAIN ordinals = DOMAIN v.ordinals \cup {r.id} /\ ordinals[r.id] = n + 1
       /\ \A i \in DOMAIN v.ordinals : i # r.id => ordinals[i] = v.ordinals[i]
       /\ DOMAIN previous = DOMAIN v.previous \cup {r.id}
       /\ previous[r.id][1] = Fingerprint(r) /\ previous[r.id][2] = key
       /\ \A i \in DOMAIN v.previous : i # r.id => previous[i] = v.previous[i]
  OBVIOUS
<1> HIDE DEF ordinals, previous
<1>12. Keyed(v, r) = [streamed |-> v.streamed, consumed |-> v.consumed, overflow |-> v.overflow,
                      tracking |-> v.tracking, ordinals |-> ordinals, seen |-> v.seen,
                      previous |-> previous, tools |-> v.tools]
  BY <1>2, <1>9 DEF IsState
<1>13. e = [streamed |-> v.streamed, consumed |-> v.consumed, overflow |-> v.overflow,
            tracking |-> v.tracking, ordinals |-> ordinals, seen |-> v.seen \cup {key},
            previous |-> previous, tools |-> v.tools]
  BY <1>10, <1>12
<1>14. IsState(e) /\ SameText(e, v) /\ e.tools = v.tools
  BY <1>2, <1>13 DEF IsState, SameText
<1>15. e.ordinals = ordinals /\ e.previous = previous /\ e.seen = v.seen \cup {key}
  BY <1>13
<1>16. KeysFit(e)
  <2>1. DOMAIN e.previous = DOMAIN e.ordinals
    BY <1>2, <1>11, <1>15 DEF KeysFit
  <2>2. ASSUME NEW i \in DOMAIN e.ordinals PROVE i \in Nat /\ e.ordinals[i] \in Nat
    <3>1. CASE i = r.id
      BY <1>7, <1>11, <1>15, <3>1
    <3>2. CASE i # r.id
      BY <1>2, <1>11, <1>15, <3>2 DEF KeysFit
    <3> QED BY <3>1, <3>2
  <2>3. ASSUME NEW k \in e.seen
        PROVE  k[1] \in DOMAIN e.ordinals /\ k[2] \in Nat /\ k[2] < e.ordinals[k[1]]
    <3>1. CASE k = key
      BY <1>7, <1>11, <1>15, <3>1
    <3>2. CASE k \in v.seen
      <4>1. k[1] \in DOMAIN v.ordinals /\ k[2] \in Nat /\ k[2] < v.ordinals[k[1]] /\ v.ordinals[k[1]] \in Nat
        BY <1>2, <3>2 DEF KeysFit
      <4>2. CASE k[1] = r.id
        <5>1. v.ordinals[k[1]] = n
          BY <1>4, <4>1, <4>2
        <5> QED BY <1>7, <1>11, <1>15, <4>1, <4>2, <5>1
      <4>3. CASE k[1] # r.id
        BY <1>11, <1>15, <4>1, <4>3
      <4> QED BY <4>2, <4>3
    <3> QED BY <1>15, <3>1, <3>2
  <2>4. ASSUME NEW i \in DOMAIN e.previous
        PROVE  e.previous[i][2] \in e.seen /\ e.previous[i][2][1] = i
    <3>1. CASE i = r.id
      BY <1>7, <1>11, <1>15, <3>1
    <3>2. CASE i # r.id
      BY <1>2, <1>11, <1>15, <3>2 DEF KeysFit
    <3> QED BY <3>1, <3>2
  <2> QED BY <2>1, <2>2, <2>3, <2>4 DEF KeysFit
<1>17. ~KeySeen(st, r)
  BY <1>1, <1>6, <1>8 DEF KeySeen
<1>18. SameText(e, st) /\ e.tools = st.tools
  BY <1>2, <1>14 DEF SameText
<1>19. /\ DOMAIN e.ordinals \subseteq DOMAIN st.ordinals \cup {r.id}
       /\ r.id \in DOMAIN e.previous /\ e.previous[r.id][1] = Fingerprint(r)
  BY <1>2, <1>11, <1>15
<1> QED BY <1>14, <1>16, <1>17, <1>18, <1>19

-----------------------------------------------------------------------------
(* The streamed block that a snapshot stands for.                          *)

\* No text that fills the tracked length is the beginning of a longer one.
LEMMA NoLongerText ==
  ASSUME NEW s \in Texts, NEW t \in Texts, Len(s) = MaxChars, Len(t) > MaxChars,
         \A k \in 1..MaxChars : s[k] = t[k]
  PROVE  FALSE
<1>1. s \in Seq(STRING) /\ t \in Seq(STRING) /\ Len(t) \in Nat /\ MaxChars \in Nat
  BY TextsAreWords, Bounds
<1>2. IsPrefix(s, t)
  BY <1>1, PrefixIsPointwise
<1>3. s = t
  BY <1>2, DecoderAssumption
<1> QED BY <1>1, <1>3

LEMMA MatchesArePrefixes ==
  ASSUME NEW st, NEW r \in Records, NEW i \in DOMAIN st.streamed \ st.consumed,
         st.streamed[i].text \in Seq(STRING)
  PROVE  i \in Matches(st, r) <=>
           /\ st.streamed[i].kind = r.kind
           /\ Len(st.streamed[i].text) > 0 /\ Len(st.streamed[i].text) <= Len(r.text)
           /\ \A k \in 1..Len(st.streamed[i].text) : st.streamed[i].text[k] = r.text[k].c
<1> DEFINE s == st.streamed[i].text
<1>1. r.text \in Seq(Char) /\ Len(r.text) \in Nat
  BY DEF Records
<1>2. /\ Letters(r.text) \in Seq(STRING) /\ Len(Letters(r.text)) = Len(r.text)
      /\ \A k \in 1..Len(r.text) : Letters(r.text)[k] = r.text[k].c
  BY <1>1, LettersOf
<1>3. s \in Seq(STRING) /\ Len(s) \in Nat /\ (s # <<>> <=> Len(s) > 0)
  OBVIOUS
<1>4. IsPrefix(s, Letters(r.text)) <=>
        Len(s) <= Len(Letters(r.text)) /\ \A k \in 1..Len(s) : s[k] = Letters(r.text)[k]
  BY <1>2, <1>3, PrefixIsPointwise
<1>5. IsPrefix(s, Letters(r.text)) <=>
        Len(s) <= Len(r.text) /\ \A k \in 1..Len(s) : s[k] = r.text[k].c
  BY <1>1, <1>2, <1>3, <1>4
<1>6. i \in Matches(st, r) <=> st.streamed[i].kind = r.kind /\ s # <<>> /\ IsPrefix(s, Letters(r.text))
  BY DEF Matches
<1> QED BY <1>3, <1>5, <1>6

\* One of the longest is matched.
LEMMA MatchIsLongest ==
  ASSUME NEW st, NEW r \in Records, NEW b \in Nat, DOMAIN st.streamed \subseteq 0..b,
         \A i \in DOMAIN st.streamed \ st.consumed : st.streamed[i].text \in Seq(STRING),
         Matches(st, r) # {}
  PROVE  /\ Match(st, r) \in Matches(st, r)
         /\ \A k \in Matches(st, r) :
              Len(st.streamed[k].text) <= Len(st.streamed[Match(st, r)].text)
<1> DEFINE M == Matches(st, r)
           len(i) == Len(st.streamed[i].text)
           Best(i) == \A k \in M : len(i) > len(k) \/ (len(i) = len(k) /\ i >= k)
<1>1. \A i \in M : i \in DOMAIN st.streamed \ st.consumed
  BY DEF Matches
<1>2. \A i \in M : i \in Nat /\ i <= b /\ len(i) \in Nat /\ len(i) <= Len(r.text)
  <2> SUFFICES ASSUME NEW i \in M PROVE i \in Nat /\ i <= b /\ len(i) \in Nat /\ len(i) <= Len(r.text)
    OBVIOUS
  <2>1. i \in DOMAIN st.streamed \ st.consumed /\ st.streamed[i].text \in Seq(STRING)
    BY <1>1
  <2>2. len(i) <= Len(r.text)
    BY <2>1, MatchesArePrefixes
  <2> QED BY <2>1, <2>2
<1>3. Len(r.text) \in Nat
  BY DEF Records
<1> DEFINE L == {len(i) : i \in M}
<1>4. L \in SUBSET Nat /\ L # {} /\ \A x \in L : x <= Len(r.text)
  BY <1>2
<1> HIDE DEF L, len
<1>5. PICK l \in L : \A x \in L : x <= l
  BY <1>3, <1>4, GreatestElement
<1> DEFINE T == {i \in M : len(i) = l}
<1>6. T \in SUBSET Nat /\ T # {} /\ \A x \in T : x <= b
  <2>1. \E i \in M : len(i) = l
    BY <1>5 DEF L
  <2> QED BY <1>2, <2>1
<1> HIDE DEF T
<1>7. PICK m \in T : \A x \in T : x <= m
  BY <1>6, GreatestElement
<1>8. m \in M /\ len(m) = l
  BY <1>7 DEF T
<1>9. Best(m)
  <2> SUFFICES ASSUME NEW k \in M PROVE len(m) > len(k) \/ (len(m) = len(k) /\ m >= k)
    OBVIOUS
  <2>1. len(k) \in L /\ len(k) <= l
    BY <1>5 DEF L
  <2>2. CASE len(k) = l
    <3>1. k \in T /\ k <= m
      BY <1>7, <2>2 DEF T
    <3>2. k \in Nat /\ m \in Nat
      BY <1>2, <1>8
    <3> QED BY <1>8, <2>2, <3>1, <3>2
  <2>3. CASE len(k) # l
    <3>1. len(k) \in Nat /\ l \in Nat /\ len(m) = l
      BY <1>2, <1>8
    <3>2. len(m) > len(k)
      BY <2>1, <2>3, <3>1
    <3> QED BY <3>2
  <2> QED BY <2>2, <2>3
<1>10. Match(st, r) = CHOOSE i \in M : Best(i)
  BY Zenon DEF Match, len
<1> HIDE DEF M, Best
<1>11. Match(st, r) \in M /\ Best(Match(st, r))
  BY <1>8, <1>9, <1>10, Zenon
<1>12. \A k \in M : len(k) <= len(Match(st, r))
  <2> SUFFICES ASSUME NEW k \in M PROVE len(k) <= len(Match(st, r))
    OBVIOUS
  <2>1. len(k) \in Nat /\ len(Match(st, r)) \in Nat
    BY <1>2, <1>11
  <2>2. len(Match(st, r)) > len(k) \/ len(Match(st, r)) = len(k)
    BY <1>11, Zenon DEF Best
  <2> QED BY <2>1, <2>2
<1> QED BY <1>11, <1>12, Zenon DEF M, len

-----------------------------------------------------------------------------
(* The blocks that wait for their snapshot and what was streamed of them.  *)

Begun == {i \in 1..Len(open) : open[i].sent > 0}

\* The entry e of the streamed blocks is what was sent of the block b.
Tracks(st, e, b) ==
  /\ st.streamed[e].kind = b.kind
  /\ st.streamed[e].text \in Seq(STRING)
  /\ Len(st.streamed[e].text) = (IF b.sent <= MaxChars THEN b.sent ELSE MaxChars)
  /\ \A k \in 1..Len(st.streamed[e].text) : st.streamed[e].text[k] = b.text[k].c
  /\ e \in st.overflow <=> b.sent > MaxChars

\* The entries no snapshot has consumed are, one to one, those blocks.
Paired(st, p) ==
  /\ p \in [Begun -> DOMAIN st.streamed \ st.consumed]
  /\ \A i, j \in Begun : p[i] = p[j] => i = j
  /\ \A e \in DOMAIN st.streamed \ st.consumed : \E i \in Begun : p[i] = e
  /\ \A i \in Begun : Tracks(st, p[i], open[i])
  /\ \A i \in Begun : ~Streamed(open[i]) => p[i] = open[i].index

Indexed(st) ==
  /\ DOMAIN st.streamed \subseteq 0..NumBlocks - 1
  /\ message.streams => DOMAIN st.streamed \subseteq 0..message.blocks - 1
  /\ (message.streams /\ open # <<>> /\ Last(open).sent = 0) =>
       Last(open).index \notin DOMAIN st.streamed
  /\ st.consumed \subseteq DOMAIN st.streamed
  /\ st.overflow \subseteq DOMAIN st.streamed

TrackOK(st) == st.tracking => Indexed(st) /\ \E p : Paired(st, p)

\* The texts of open blocks, letter by letter.
LEMMA OpenTexts ==
  ASSUME ProviderInv, NEW i \in 1..Len(open)
  PROVE  /\ open[i] \in Block /\ open[i].sent \in Nat /\ Len(open[i].text) \in Nat \ {0}
         /\ open[i].sent <= Len(open[i].text)
         /\ Letters(open[i].text) \in Texts /\ Len(Letters(open[i].text)) = Len(open[i].text)
         /\ \A k \in 1..Len(open[i].text) : Letters(open[i].text)[k] = open[i].text[k].c
<1>1. open[i] \in Block /\ open[i].text \in Seq(Char) /\ open[i].sent \in Nat
  BY OpenFacts DEF ProviderInv
<1>2. Letters(open[i].text) \in Texts /\ open[i].sent <= Len(open[i].text)
  BY DEF ProviderInv, BlocksFit, Fits
<1>3. Len(Letters(open[i].text)) = Len(open[i].text)
  BY <1>1, LettersOf
<1>4. Len(Letters(open[i].text)) \in Nat \ {0}
  BY <1>2, TextsAreWords
<1>5. \A k \in 1..Len(open[i].text) : Letters(open[i].text)[k] = open[i].text[k].c
  BY <1>1, LettersOf
<1> QED BY <1>1, <1>2, <1>3, <1>4, <1>5

\* The entries e and m of the blocks b and c say the same.
Alike(st, e, m, b, c) ==
  /\ Len(st.streamed[m].text) = Len(st.streamed[e].text)
  /\ \A k \in 1..Len(st.streamed[e].text) : st.streamed[e].text[k] = st.streamed[m].text[k]
  /\ b.sent > MaxChars <=> c.sent > MaxChars

\* Two blocks that were streamed completely, of which the one has its entry
\* matched by the snapshot of the other: their entries are alike.
LEMMA EntriesAlike ==
  ASSUME ProviderInv, NEW st, NEW i \in 1..Len(open), NEW j \in 1..Len(open),
         Streamed(open[i]), Streamed(open[j]), NEW e, NEW m,
         Tracks(st, e, open[i]), Tracks(st, m, open[j]),
         Len(st.streamed[e].text) <= Len(st.streamed[m].text),
         Len(st.streamed[m].text) <= Len(open[i].text),
         \A k \in 1..Len(st.streamed[m].text) : st.streamed[m].text[k] = open[i].text[k].c
  PROVE  Alike(st, e, m, open[i], open[j])
<1> DEFINE x == Letters(open[i].text)
           y == Letters(open[j].text)
<1>1. /\ x \in Texts /\ Len(x) = open[i].sent /\ Len(open[i].text) = open[i].sent /\ open[i].sent \in Nat
      /\ \A k \in 1..open[i].sent : x[k] = open[i].text[k].c
  BY OpenTexts DEF Streamed
<1>2. /\ y \in Texts /\ Len(y) = open[j].sent /\ Len(open[j].text) = open[j].sent /\ open[j].sent \in Nat
      /\ \A k \in 1..open[j].sent : y[k] = open[j].text[k].c
  BY OpenTexts DEF Streamed
<1> HIDE DEF x, y
<1>3. MaxChars \in Nat
  BY Bounds
<1> DEFINE a == Len(st.streamed[e].text)
           b == Len(st.streamed[m].text)
<1>4. /\ a = (IF open[i].sent <= MaxChars THEN open[i].sent ELSE MaxChars)
      /\ b = (IF open[j].sent <= MaxChars THEN open[j].sent ELSE MaxChars)
  BY DEF Tracks
<1>5. a <= b /\ b <= open[i].sent
  BY <1>1
<1> HIDE DEF a, b
<1>6. a = b /\ a \in Nat
  BY <1>1, <1>2, <1>3, <1>4, <1>5
<1>7. \A k \in 1..a : st.streamed[e].text[k] = open[i].text[k].c
  BY DEF Tracks, a
<1>8. \A k \in 1..a : st.streamed[m].text[k] = open[i].text[k].c
  BY <1>6 DEF b
<1>9. \A k \in 1..a : st.streamed[m].text[k] = open[j].text[k].c
  BY <1>6 DEF Tracks, b
<1>10. \A k \in 1..a : x[k] = y[k]
  <2> SUFFICES ASSUME NEW k \in 1..a PROVE x[k] = y[k]
    OBVIOUS
  <2>1. k \in 1..open[i].sent /\ k \in 1..open[j].sent
    BY <1>1, <1>2, <1>3, <1>4, <1>6
  <2> QED BY <1>1, <1>2, <1>8, <1>9, <2>1
<1>11. ASSUME open[i].sent > MaxChars, ~(open[j].sent > MaxChars) PROVE FALSE
  <2>1. open[j].sent = MaxChars /\ a = MaxChars
    BY <1>1, <1>2, <1>3, <1>4, <1>6, <1>11
  <2> QED BY <1>1, <1>2, <1>3, <1>10, <1>11, <2>1, NoLongerText
<1>12. ASSUME open[j].sent > MaxChars, ~(open[i].sent > MaxChars) PROVE FALSE
  <2>1. open[i].sent = MaxChars /\ a = MaxChars
    BY <1>1, <1>2, <1>3, <1>4, <1>6, <1>12
  <2> QED BY <1>1, <1>2, <1>3, <1>10, <1>12, <2>1, NoLongerText
<1>13. \A k \in 1..a : st.streamed[e].text[k] = st.streamed[m].text[k]
  BY <1>7, <1>8
<1> QED BY <1>6, <1>11, <1>12, <1>13 DEF a, b, Alike

-----------------------------------------------------------------------------
(* A snapshot: what it matches, what it says, what it leaves.              *)

LEMMA FirstBegun ==
  ASSUME ProviderInv, SendSnapshot
  PROVE  /\ Len(open) \in Nat \ {0} /\ Begun \subseteq 1..Len(open)
         /\ 1 \in Begun <=> open[1].sent > 0
         /\ Len(open) > 1 => Streamed(open[1]) /\ 1 \in Begun
         /\ Len(open) > 1 => \A i \in Begun : Streamed(open[i])
<1>1. Len(open) \in Nat \ {0} /\ (Len(open) > 1 => Last(open).sent = 0 \/ Streamed(Last(open)))
  BY SnapshotFacts
<1>2. Last(open) = open[Len(open)]
  BY OpenFacts DEF ProviderInv
<1>3. \A i \in 1..Len(open) - 1 : Streamed(open[i])
  BY DEF ProviderInv, BlocksFit
<1>4. \A i \in 1..Len(open) : /\ open[i].sent \in Nat /\ Len(open[i].text) \in Nat \ {0}
                              /\ Streamed(open[i]) => open[i].sent > 0
  BY OpenTexts DEF Streamed
<1>5. Begun \subseteq 1..Len(open) /\ (1 \in Begun <=> open[1].sent > 0)
  BY <1>1 DEF Begun
<1>6. ASSUME Len(open) > 1 PROVE Streamed(open[1]) /\ 1 \in Begun
  BY <1>1, <1>3, <1>4, <1>5, <1>6
<1>7. ASSUME Len(open) > 1, NEW i \in Begun PROVE Streamed(open[i])
  <2>1. i \in 1..Len(open) /\ open[i].sent > 0
    BY DEF Begun
  <2>2. CASE i = Len(open)
    BY <1>1, <1>2, <1>4, <1>7, <2>1, <2>2
  <2>3. CASE i # Len(open)
    BY <1>1, <1>3, <2>1, <2>3
  <2> QED BY <2>2, <2>3
<1> QED BY <1>1, <1>5, <1>6, <1>7

LEMMA PairedFacts ==
  ASSUME ProviderInv, NEW st, NEW p, Paired(st, p), NEW i \in Begun
  PROVE  /\ i \in 1..Len(open) /\ open[i].sent \in Nat \ {0}
         /\ p[i] \in DOMAIN st.streamed \ st.consumed
         /\ Tracks(st, p[i], open[i])
         /\ st.streamed[p[i]].text \in Seq(STRING)
         /\ Len(st.streamed[p[i]].text) \in Nat \ {0}
         /\ Len(st.streamed[p[i]].text) <= open[i].sent
         /\ open[i].sent <= MaxChars => Len(st.streamed[p[i]].text) = open[i].sent
<1>1. i \in 1..Len(open) /\ open[i].sent > 0
  BY DEF Begun
<1>2. open[i].sent \in Nat \ {0}
  BY <1>1, OpenTexts
<1>3. p[i] \in DOMAIN st.streamed \ st.consumed /\ Tracks(st, p[i], open[i])
  BY DEF Paired
<1>4. MaxChars \in Nat \ {0}
  BY Bounds
<1>5. /\ st.streamed[p[i]].text \in Seq(STRING)
      /\ Len(st.streamed[p[i]].text) = (IF open[i].sent <= MaxChars THEN open[i].sent ELSE MaxChars)
  BY <1>3 DEF Tracks
<1>6. /\ Len(st.streamed[p[i]].text) \in Nat \ {0}
      /\ Len(st.streamed[p[i]].text) <= open[i].sent
      /\ open[i].sent <= MaxChars => Len(st.streamed[p[i]].text) = open[i].sent
  <2> DEFINE l == Len(st.streamed[p[i]].text)
  <2> HIDE DEF l
  <2> QED BY <1>2, <1>4, <1>5 DEF l
<1> QED BY <1>1, <1>2, <1>3, <1>5, <1>6

\* What is left of the first block matches its snapshot.
LEMMA FirstMatches ==
  ASSUME ProviderInv, SendSnapshot, NEW st, NEW p, Paired(st, p), 1 \in Begun,
         NEW r, r = FirstSnapshot
  PROVE  p[1] \in Matches(st, r)
<1>1. r \in Records /\ r.kind = open[1].kind /\ r.text = open[1].text
  BY SnapshotFacts, RecordFields DEF FirstSnapshot
<1>2. /\ p[1] \in DOMAIN st.streamed \ st.consumed /\ Tracks(st, p[1], open[1])
      /\ st.streamed[p[1]].text \in Seq(STRING) /\ Len(st.streamed[p[1]].text) \in Nat \ {0}
      /\ Len(st.streamed[p[1]].text) <= open[1].sent
  BY PairedFacts
<1>3. open[1].sent <= Len(open[1].text) /\ open[1].sent \in Nat /\ Len(open[1].text) \in Nat
  BY OpenTexts DEF Begun
<1>4. Len(st.streamed[p[1]].text) > 0 /\ Len(st.streamed[p[1]].text) <= Len(r.text)
  BY <1>1, <1>2, <1>3
<1>5. /\ st.streamed[p[1]].kind = r.kind
      /\ \A k \in 1..Len(st.streamed[p[1]].text) : st.streamed[p[1]].text[k] = r.text[k].c
  BY <1>1, <1>2 DEF Tracks
<1> QED BY <1>1, <1>2, <1>4, <1>5, MatchesArePrefixes

\* Whatever block is matched, the blocks can be paired so that it is the first.
LEMMA SnapshotMatches ==
  ASSUME ProviderInv, SendSnapshot, NEW st, NEW p, Indexed(st), Paired(st, p),
         NEW r, r = FirstSnapshot, Matches(st, r) # {}, NEW m, m = Match(st, r)
  PROVE  /\ m \in DOMAIN st.streamed \ st.consumed /\ 1 \in Begun /\ Tracks(st, m, open[1])
         /\ \E j \in Begun : p[j] = m /\ Tracks(st, p[1], open[j])
<1>1. r \in Records /\ r.kind = open[1].kind /\ r.text = open[1].text
  BY SnapshotFacts, RecordFields DEF FirstSnapshot
<1>2. \A e \in DOMAIN st.streamed \ st.consumed : \E i \in Begun : p[i] = e
  BY DEF Paired
<1>3. \A e \in DOMAIN st.streamed \ st.consumed : st.streamed[e].text \in Seq(STRING)
  BY <1>2, PairedFacts
<1>4. m \in Matches(st, r) /\ \A k \in Matches(st, r) : Len(st.streamed[k].text) <= Len(st.streamed[m].text)
  <2>1. NumBlocks - 1 \in Nat /\ DOMAIN st.streamed \subseteq 0..NumBlocks - 1
    BY Bounds DEF Indexed
  <2> QED BY <1>1, <1>3, <2>1, MatchIsLongest
<1>5. m \in DOMAIN st.streamed \ st.consumed
  BY <1>4 DEF Matches
<1>6. PICK j \in Begun : p[j] = m
  BY <1>2, <1>5
<1>7. 1 \in Begun
  <2>1. CASE Len(open) > 1
    BY <2>1, FirstBegun
  <2>2. CASE ~(Len(open) > 1)
    BY <1>6, <2>2, FirstBegun
  <2> QED BY <2>1, <2>2
<1>8. CASE j = 1
  BY <1>5, <1>6, <1>7, <1>8, PairedFacts
<1>9. CASE j # 1
  <2>1. 1 \in 1..Len(open) /\ j \in 1..Len(open) /\ Len(open) > 1
    BY <1>6, <1>7, <1>9, FirstBegun
  <2>2. Streamed(open[1]) /\ Streamed(open[j])
    BY <1>6, <1>7, <2>1, FirstBegun
  <2>3. Tracks(st, p[1], open[1]) /\ Tracks(st, m, open[j])
    BY <1>6, <1>7, PairedFacts
  <2>4. Len(st.streamed[p[1]].text) <= Len(st.streamed[m].text)
    BY <1>4, <1>7, FirstMatches
  <2>5. /\ st.streamed[m].kind = open[1].kind
        /\ Len(st.streamed[m].text) <= Len(open[1].text)
        /\ \A k \in 1..Len(st.streamed[m].text) : st.streamed[m].text[k] = open[1].text[k].c
    BY <1>1, <1>3, <1>4, <1>5, MatchesArePrefixes
  <2>6. Alike(st, p[1], m, open[1], open[j])
    BY <2>1, <2>2, <2>3, <2>4, <2>5, EntriesAlike, Zenon
  <2>7. Tracks(st, m, open[1])
    BY <2>3, <2>5, <2>6 DEF Tracks, Alike
  <2>8. Tracks(st, p[1], open[j])
    <3>1. st.streamed[p[1]].kind = open[j].kind
      BY <2>3, <2>5 DEF Tracks, Alike
    <3>2. /\ st.streamed[p[1]].text \in Seq(STRING)
          /\ Len(st.streamed[p[1]].text) = (IF open[j].sent <= MaxChars THEN open[j].sent ELSE MaxChars)
      BY <2>3, <2>6 DEF Tracks, Alike
    <3>3. \A k \in 1..Len(st.streamed[p[1]].text) : st.streamed[p[1]].text[k] = open[j].text[k].c
      BY <2>3, <2>6 DEF Tracks, Alike
    <3>4. p[1] \in st.overflow <=> open[j].sent > MaxChars
      BY <2>3, <2>6 DEF Tracks, Alike
    <3> QED BY <3>1, <3>2, <3>3, <3>4 DEF Tracks, Alike
  <2> QED BY <1>5, <1>6, <1>7, <2>7, <2>8
<1> QED BY <1>8, <1>9

\* The snapshot says what was not streamed of its block; if the block was too
\* long to be tracked, it says nothing.
LEMMA SnapshotSays ==
  ASSUME ProviderInv, SendSnapshot, NEW st, st.tracking, TrackOK(st), NEW r, r = FirstSnapshot
  PROVE  \/ st.overflow # {} /\ Suffix(st, r) = NoText
         \/ Suffix(st, r) = SubSeq(open[1].text, open[1].sent + 1, Len(open[1].text))
<1>1. PICK p : Paired(st, p)
  BY DEF TrackOK
<1>2. Indexed(st)
  BY DEF TrackOK
<1>3. r.text = open[1].text
  BY RecordFields DEF FirstSnapshot
<1>4. 1 \in 1..Len(open) /\ open[1].sent \in Nat /\ Len(open[1].text) \in Nat /\ open[1].text \in Seq(Char)
  BY FirstBegun, OpenTexts DEF Block
<1>5. CASE Matches(st, r) = {}
  <2>1. Suffix(st, r) = open[1].text
    BY <1>3, <1>5 DEF Suffix
  <2>2. open[1].sent = 0
    BY <1>1, <1>4, <1>5, FirstBegun, FirstMatches
  <2>3. SubSeq(open[1].text, 1, Len(open[1].text)) = open[1].text
    BY <1>4
  <2> QED BY <2>1, <2>2, <2>3
<1>6. CASE Matches(st, r) # {}
  <2>1. PICK m : m = Match(st, r)
    OBVIOUS
  <2>2. Tracks(st, m, open[1])
    BY <1>1, <1>2, <1>6, <2>1, SnapshotMatches
  <2>3. Suffix(st, r) = IF m \in st.overflow THEN NoText
                        ELSE SubSeq(r.text, Len(st.streamed[m].text) + 1, Len(r.text))
    BY <1>6, <2>1 DEF Suffix
  <2>4. m \notin st.overflow => Len(st.streamed[m].text) = open[1].sent
    BY <1>4, <2>2, Bounds DEF Tracks
  <2> QED BY <1>3, <2>3, <2>4
<1> QED BY <1>5, <1>6

\* The pairing of the blocks that are left.
LEMMA SnapshotTracks ==
  ASSUME ProviderInv, SendSnapshot, NEW st, TrackOK(st), NEW r, r = FirstSnapshot,
         NEW e, e.streamed = st.streamed, e.overflow = st.overflow, e.tracking = st.tracking,
         e.consumed = IF st.tracking /\ Matches(st, r) # {} THEN st.consumed \cup {Match(st, r)}
                      ELSE st.consumed
  PROVE  TrackOK(e)'
<1> SUFFICES ASSUME e.tracking PROVE Indexed(e)' /\ (\E p : Paired(e, p))'
  BY DEF TrackOK
<1>1. Indexed(st)
  BY DEF TrackOK
<1>2. PICK p : Paired(st, p)
  BY DEF TrackOK
<1> DEFINE n == Len(open)
<1>3. /\ n \in Nat \ {0} /\ open' \in Seq(Block) /\ Len(open') = n - 1
      /\ \A i \in 1..n - 1 : i + 1 \in 1..n /\ open'[i] = open[i + 1]
      /\ n > 1 => Last(open') = Last(open)
  BY SnapshotFacts
<1>4. message' = message
  BY DEF SendSnapshot
<1>5. \A i \in Begun' : i + 1 \in Begun /\ i \in 1..n - 1 /\ open'[i] = open[i + 1]
  BY <1>3 DEF Begun
<1>6. \A i \in Begun : i # 1 => i - 1 \in Begun' /\ i \in Nat
  <2> SUFFICES ASSUME NEW i \in Begun, i # 1 PROVE i - 1 \in Begun' /\ i \in Nat
    OBVIOUS
  <2>1. i \in 1..n /\ open[i].sent > 0
    BY DEF Begun
  <2>2. i - 1 \in 1..n - 1 /\ (i - 1) + 1 = i
    BY <1>3, <2>1
  <2>3. open'[i - 1] = open[i]
    BY <1>3, <2>2
  <2> QED BY <1>3, <2>1, <2>2, <2>3 DEF Begun
<1>7. \A i \in Begun' : Streamed(open'[i])
  BY <1>3, <1>5, FirstBegun
<1>8. Indexed(e)'
  <2>1. st.tracking
    OBVIOUS
  <2>2. e.consumed \subseteq DOMAIN e.streamed
    BY <1>1, <1>2, <2>1, SnapshotMatches DEF Indexed
  <2>3. (message'.streams /\ open' # <<>> /\ Last(open').sent = 0) =>
          Last(open').index \notin DOMAIN e.streamed
    <3>1. open' # <<>> => n > 1 /\ open # <<>>
      BY <1>3
    <3> QED BY <1>1, <1>3, <1>4, <3>1 DEF Indexed
  <2> QED BY <1>1, <1>4, <2>2, <2>3 DEF Indexed
<1> HIDE DEF n
<1>9. CASE Matches(st, r) = {}
  <2>1. e.consumed = st.consumed /\ 1 \notin Begun
    BY <1>2, <1>9, FirstMatches
  <2>2. PICK q : q = [i \in Begun' |-> p[i + 1]]
    OBVIOUS
  <2>3. q \in [Begun' -> DOMAIN e.streamed \ e.consumed]
    BY <1>2, <1>5, <2>1, <2>2 DEF Paired
  <2>4. \A i, j \in Begun' : q[i] = q[j] => i = j
    BY <1>2, <1>5, <2>2 DEF Paired
  <2>5. ASSUME NEW x \in DOMAIN e.streamed \ e.consumed PROVE \E i \in Begun' : q[i] = x
    <3>1. PICK i \in Begun : p[i] = x
      BY <1>2, <2>1 DEF Paired
    <3>2. i - 1 \in Begun' /\ (i - 1) + 1 = i
      BY <1>6, <2>1, <3>1
    <3> QED BY <2>2, <3>1, <3>2
  <2>6. \A i \in Begun' : Tracks(e, q[i], open'[i])
    BY <1>2, <1>5, <2>2 DEF Paired, Tracks
  <2>7. Paired(e, q)'
    BY <1>7, <2>3, <2>4, <2>5, <2>6 DEF Paired, Tracks, Streamed
  <2> QED BY <1>8, <2>7
<1>10. CASE Matches(st, r) # {}
  <2>1. PICK m : m = Match(st, r)
    OBVIOUS
  <2>2. e.consumed = st.consumed \cup {m}
    BY <1>10, <2>1
  <2>3. m \in DOMAIN st.streamed \ st.consumed /\ 1 \in Begun
    BY <1>1, <1>2, <1>10, <2>1, SnapshotMatches
  <2>4. PICK j \in Begun : p[j] = m /\ Tracks(st, p[1], open[j])
    BY <1>1, <1>2, <1>10, <2>1, SnapshotMatches
  <2>5. /\ p \in [Begun -> DOMAIN st.streamed \ st.consumed]
        /\ \A i, k \in Begun : p[i] = p[k] => i = k
        /\ \A x \in DOMAIN st.streamed \ st.consumed : \E i \in Begun : p[i] = x
        /\ \A i \in Begun : Tracks(st, p[i], open[i])
    BY <1>2 DEF Paired
  <2>6. PICK q : q = [i \in Begun' |-> IF i + 1 = j THEN p[1] ELSE p[i + 1]]
    OBVIOUS
  <2>7. ASSUME NEW i \in Begun'
        PROVE  /\ i + 1 \in Begun /\ i + 1 # 1 /\ i \in Nat
               /\ q[i] = (IF i + 1 = j THEN p[1] ELSE p[i + 1])
    BY <1>3, <1>5, <2>6
  <2>8. ASSUME NEW i \in Begun' PROVE q[i] \in DOMAIN e.streamed \ e.consumed
    <3>1. CASE i + 1 = j
      <4>1. j # 1 /\ p[1] # m
        BY <2>3, <2>4, <2>5, <2>7, <3>1
      <4> QED BY <2>2, <2>3, <2>5, <2>7, <3>1, <4>1
    <3>2. CASE i + 1 # j
      <4>1. p[i + 1] # m
        BY <2>4, <2>5, <2>7, <3>2
      <4> QED BY <2>2, <2>5, <2>7, <3>2, <4>1
    <3> QED BY <3>1, <3>2
  <2>9. q \in [Begun' -> DOMAIN e.streamed \ e.consumed]
    BY <2>6, <2>8
  <2>10. ASSUME NEW i \in Begun', NEW k \in Begun', q[i] = q[k] PROVE i = k
    <3>1. CASE i + 1 = j /\ k + 1 = j
      BY <2>7, <3>1
    <3>2. CASE i + 1 = j /\ k + 1 # j
      BY <2>3, <2>5, <2>7, <2>10, <3>2
    <3>3. CASE i + 1 # j /\ k + 1 = j
      BY <2>3, <2>5, <2>7, <2>10, <3>3
    <3>4. CASE i + 1 # j /\ k + 1 # j
      <4>1. i + 1 = k + 1
        BY <2>5, <2>7, <2>10, <3>4
      <4> QED BY <2>7, <4>1
    <3> QED BY <3>1, <3>2, <3>3, <3>4
  <2>11. ASSUME NEW x \in DOMAIN e.streamed \ e.consumed PROVE \E i \in Begun' : q[i] = x
    <3>1. PICK i \in Begun : p[i] = x
      BY <2>2, <2>5
    <3>2. i # j
      BY <2>2, <2>4, <3>1
    <3>3. CASE i = 1
      <4>1. j - 1 \in Begun' /\ (j - 1) + 1 = j
        BY <1>6, <2>4, <3>2, <3>3
      <4> QED BY <2>6, <3>1, <3>3, <4>1
    <3>4. CASE i # 1
      <4>1. i - 1 \in Begun' /\ (i - 1) + 1 = i
        BY <1>6, <3>4
      <4> QED BY <2>6, <3>1, <3>2, <4>1
    <3> QED BY <3>3, <3>4
  <2>12. ASSUME NEW i \in Begun' PROVE Tracks(st, q[i], open'[i])
    BY <1>5, <2>4, <2>5, <2>7
  <2>13. \A i \in Begun' : Tracks(e, q[i], open'[i])
    BY <2>12 DEF Tracks
  <2>14. Paired(e, q)'
    BY <1>7, <2>9, <2>10, <2>11, <2>13 DEF Paired, Tracks, Streamed
  <2> QED BY <1>8, <2>14
<1> QED BY <1>9, <1>10

-----------------------------------------------------------------------------
(* The tools that run.                                                     *)

CallsFit ==
  /\ message.blocks <= NumBlocks
  /\ \A tool \in calls : tool <= message.id
  /\ message.id \in calls => message.blocks > 0
  /\ sent.type = "tool_start" =>
       sent.tool \in calls /\ open = <<>> /\ message.blocks = NumBlocks

LEMMA CallsInit == Init => CallsFit
BY Bounds DEF Init, CallsFit, NoRecord

LEMMA CallsKeep ==
  ASSUME ProviderInv, CallsFit, [Next]_vars
  PROVE  CallsFit'
<1> USE DEF CallsFit
<1>1. /\ message.id \in Nat /\ message.blocks \in Nat /\ calls \in SUBSET Nat /\ NumBlocks \in Nat \ {0}
      /\ message = [id |-> message.id, streams |-> message.streams,
                    blocks |-> message.blocks, last |-> message.last]
  BY MessageFacts, Bounds DEF ProviderInv, ProviderTyped
<1>2. ASSUME NEW streams \in BOOLEAN, BeginMessage(streams) PROVE CallsFit'
  <2>1. /\ message' = [id |-> message.id + 1, streams |-> streams, blocks |-> 0, last |-> <<>>]
        /\ calls' = calls
    BY <1>2 DEF BeginMessage
  <2>2. sent'.type # "tool_start"
    <3>1. CASE streams
      <4>1. sent' = Record("message_start", "none", NoText, 0, 0)
        BY <1>2, <3>1 DEF BeginMessage, Write
      <4>2. sent'.type = "message_start"
        BY <4>1 DEF Record
      <4> QED BY <4>2
    <3>2. CASE ~streams
      BY <1>2, <3>2 DEF BeginMessage, NoRecord
    <3> QED BY <3>1, <3>2
  <2>3. message'.id = message.id + 1 /\ message'.blocks = 0
    BY <2>1
  <2>4. \A tool \in calls : tool <= message.id + 1 /\ tool # message.id + 1
    BY <1>1
  <2> QED BY <1>1, <2>1, <2>2, <2>3, <2>4
<1>3. ASSUME NEW kind \in {"text", "thinking"}, NEW letters \in Texts, OpenBlock(kind, letters)
      PROVE  CallsFit'
  <2>1. /\ message' = [message EXCEPT !.blocks = @ + 1, !.last = letters]
        /\ message.blocks < NumBlocks /\ calls' = calls /\ sent' = sent
    BY <1>3 DEF OpenBlock
  <2>2. message'.id = message.id /\ message'.blocks = message.blocks + 1
    BY <1>1, <2>1
  <2> QED BY <1>1, <2>1, <2>2
<1>4. CASE SendDelta
  <2>1. sent' = NextDelta(open[Len(open)]) /\ message' = message /\ calls' = calls
    BY <1>4, DeltaFacts DEF SendDelta, Write
  <2>2. sent'.type = "delta"
    BY <2>1, RecordFields DEF NextDelta
  <2> QED BY <2>1, <2>2
<1>5. CASE SendSnapshot
  <2>1. sent' = FirstSnapshot /\ message' = message /\ calls' = calls
    BY <1>5, SnapshotFacts DEF SendSnapshot, Write
  <2>2. sent'.type = "assistant"
    BY <2>1, RecordFields DEF FirstSnapshot
  <2> QED BY <2>1, <2>2
<1>6. CASE RepeatSnapshot
  BY <1>6 DEF RepeatSnapshot, Write
<1>7. CASE CallTool
  <2>1. /\ sent' = Record(IF message.streams THEN "tool_start" ELSE "assistant",
                          "tool_use", NoText, message.id, 0)
        /\ message' = [message EXCEPT !.blocks = NumBlocks]
        /\ calls' = calls \cup {message.id} /\ open = <<>> /\ open' = open
    BY <1>7 DEF CallTool, Write, Settled
  <2>2. message'.id = message.id /\ message'.blocks = NumBlocks
    BY <1>1, <2>1
  <2>3. sent'.tool = message.id
    BY <2>1 DEF Record
  <2> QED BY <1>1, <2>1, <2>2, <2>3
<1>8. CASE SnapshotTool
  <2>1. sent' = Record("assistant", "tool_use", NoText, sent.tool, 0) /\ message' = message /\ calls' = calls
    BY <1>8 DEF SnapshotTool, Write
  <2>2. sent'.type = "assistant"
    BY <2>1, RecordFields
  <2> QED BY <2>1, <2>2
<1>9. ASSUME NEW tool \in calls, FinishTool(tool) PROVE CallsFit'
  <2>1. sent' = Record("user", "none", NoText, tool, 0) /\ message' = message /\ calls' = calls \ {tool}
    BY <1>9 DEF FinishTool, Write
  <2>2. sent'.type = "user"
    BY <2>1, RecordFields
  <2> QED BY <2>1, <2>2
<1>10. ASSUME NEW letters \in Texts, Finish(letters) PROVE CallsFit'
  <2>1. PICK text : sent' = Record("result", "none", text, 0, 0) /\ message' = message /\ calls' = calls
    BY <1>10 DEF Finish, Write
  <2>2. sent'.type = "result"
    BY <2>1, RecordFields
  <2> QED BY <2>1, <2>2
<1>11. CASE Killed
  <2>1. sent' = Record("torn", "none", NoText, 0, 0) /\ message' = message /\ calls' = calls
    BY <1>11 DEF Killed, Write
  <2>2. sent'.type = "torn"
    BY <2>1, RecordFields
  <2> QED BY <2>1, <2>2
<1>12. CASE Feed \/ UNCHANGED vars \/ Ended
  BY <1>12 DEF Feed, Ended, vars, provider
<1>13. ASSUME NEW type, WriteNested(type) PROVE CallsFit'
  BY <1>13 DEF WriteNested, provider
<1> QED BY <1>2, <1>3, <1>4, <1>5, <1>6, <1>7, <1>8, <1>9, <1>10, <1>11, <1>12, <1>13 DEF Next

-----------------------------------------------------------------------------
(* A delta: the entry of its block grows.                                  *)

LEMMA TracksSame ==
  ASSUME NEW st, NEW after, NEW e, NEW b, Tracks(st, e, b), after.streamed[e] = st.streamed[e],
         e \in after.overflow <=> e \in st.overflow
  PROVE  Tracks(after, e, b)
BY Zenon DEF Tracks

\* The next block d after a delta of the block b.
Advanced(b, d) == d.kind = b.kind /\ d.text = b.text /\ d.index = b.index /\ d.sent = b.sent + 1

\* Only the entry e was set.
EntryGrows(st, after, e) ==
  /\ DOMAIN after.streamed = DOMAIN st.streamed \cup {e}
  /\ \A i \in DOMAIN st.streamed : i # e => after.streamed[i] = st.streamed[i]
  /\ \A i : i # e => (i \in after.overflow <=> i \in st.overflow)
  /\ after.overflow \subseteq st.overflow \cup {e}

LEMMA FirstEntry ==
  ASSUME NEW st, IsState(st), NEW b, NEW d, Advanced(b, d), b.sent = 0,
         b.index \notin DOMAIN st.streamed, b.index \notin st.overflow,
         NEW letters \in Seq(STRING), Len(letters) = 1, letters[1] = b.text[1].c,
         NEW after, after = Remembered(st, b.index, b.kind, letters), after.tracking
  PROVE  EntryGrows(st, after, b.index) /\ Tracks(after, b.index, d)
<1>1. after.streamed = WithEntry(st.streamed, b.index, b.kind, letters) /\ after.overflow = st.overflow
  BY RememberedFirst
<1>2. EntrySet(after.streamed, st.streamed, b.index, b.kind, letters)
  BY <1>1, EntryIs, Zenon
<1>3. EntryGrows(st, after, b.index)
  BY <1>1, <1>2 DEF EntrySet, EntryGrows
<1>4. d.sent = 1 /\ 1 <= MaxChars /\ ~(1 > MaxChars)
  BY Bounds DEF Advanced
<1>5. after.streamed[b.index].text = letters /\ after.streamed[b.index].kind = d.kind
  BY <1>2 DEF EntrySet, Advanced
<1>6. Len(letters) = (IF d.sent <= MaxChars THEN d.sent ELSE MaxChars)
  BY <1>4
<1>7. letters[1] = d.text[1].c
  BY DEF Advanced
<1>8. \A k \in 1..Len(letters) : letters[k] = d.text[k].c
  BY <1>7
<1>9. b.index \in after.overflow <=> d.sent > MaxChars
  BY <1>1, <1>4
<1> QED BY <1>3, <1>5, <1>6, <1>8, <1>9, Zenon DEF Tracks

LEMMA NextEntry ==
  ASSUME NEW st, IsState(st), NEW b, NEW d, Advanced(b, d), b.sent \in Nat \ {0},
         b.index \in DOMAIN st.streamed, Tracks(st, b.index, b),
         NEW letters \in Seq(STRING), Len(letters) = 1, letters[1] = b.text[b.sent + 1].c,
         NEW after, after = Remembered(st, b.index, b.kind, letters)
  PROVE  EntryGrows(st, after, b.index) /\ Tracks(after, b.index, d)
<1>1. PICK text : st.streamed[b.index].text = text
  OBVIOUS
<1>2. /\ st.streamed[b.index].kind = b.kind /\ text \in Seq(STRING)
      /\ Len(text) = (IF b.sent <= MaxChars THEN b.sent ELSE MaxChars)
      /\ \A k \in 1..Len(text) : text[k] = b.text[k].c
      /\ b.index \in st.overflow <=> b.sent > MaxChars
  BY <1>1 DEF Tracks
<1>3. MaxChars \in Nat \ {0}
  BY Bounds
<1>4. Len(text) <= MaxChars
  BY <1>2, <1>3
<1>5. PICK grown : grown = Grown(text, letters)
  OBVIOUS
<1>6. /\ after.streamed = WithEntry(st.streamed, b.index, b.kind, grown)
      /\ after.overflow = IF Len(text) < MaxChars THEN st.overflow ELSE st.overflow \cup {b.index}
  <2>1. RememberedOK(st, b.index, b.kind, letters, after)
    BY RememberedOne
  <2>2. text \in Seq(STRING) /\ st.streamed[b.index].kind = b.kind
    BY <1>2
  <2>3. /\ after.streamed = WithEntry(st.streamed, b.index, b.kind, Grown(text, letters))
        /\ after.overflow = IF Len(text) < MaxChars THEN st.overflow ELSE st.overflow \cup {b.index}
    BY <1>1, <1>4, <2>1, <2>2, Zenon DEF RememberedOK
  <2> QED BY <1>5, <2>3
<1>7. EntrySet(after.streamed, st.streamed, b.index, b.kind, grown)
  <2>1. EntrySet(WithEntry(st.streamed, b.index, b.kind, grown), st.streamed, b.index, b.kind, grown)
    BY EntryIs
  <2> QED BY <1>6, <2>1
<1>8. EntryGrows(st, after, b.index)
  BY <1>6, <1>7 DEF EntrySet, EntryGrows
<1>9. d.sent = b.sent + 1 /\ d.text = b.text
  BY DEF Advanced
<1>10. after.streamed[b.index].text = grown /\ after.streamed[b.index].kind = d.kind
  BY <1>7 DEF EntrySet, Advanced
<1>11. CASE b.sent < MaxChars
  <2>1. Len(text) = b.sent /\ Len(text) < MaxChars
    BY <1>2, <1>3, <1>11
  <2>2. /\ grown \in Seq(STRING) /\ Len(grown) = Len(text) + 1
        /\ \A k \in 1..Len(text) : grown[k] = text[k]
        /\ grown[Len(text) + 1] = letters[1]
    <3>1. text \in Seq(STRING)
      BY <1>2
    <3>2. OneMore(grown, text, letters[1])
      BY <1>5, <2>1, <3>1, GrownIs, Zenon
    <3> QED BY <3>2 DEF OneMore
  <2>3. Len(grown) = (IF d.sent <= MaxChars THEN d.sent ELSE MaxChars)
    BY <1>3, <1>9, <1>11, <2>1, <2>2
  <2>4. \A k \in 1..Len(grown) : grown[k] = d.text[k].c
    <3> SUFFICES ASSUME NEW k \in 1..Len(grown) PROVE grown[k] = d.text[k].c
      OBVIOUS
    <3>1. CASE k = b.sent + 1
      BY <1>9, <2>1, <2>2, <3>1
    <3>2. CASE k # b.sent + 1
      <4>1. k \in 1..Len(text)
        BY <2>1, <2>2, <3>2
      <4> QED BY <1>2, <1>9, <2>2, <4>1
    <3> QED BY <3>1, <3>2
  <2>5. b.index \in after.overflow <=> d.sent > MaxChars
    <3>1. after.overflow = st.overflow
      BY <1>6, <2>1
    <3>2. ~(b.sent > MaxChars) /\ ~(d.sent > MaxChars)
      BY <1>3, <1>9, <1>11
    <3> QED BY <1>2, <3>1, <3>2
  <2> QED BY <1>8, <1>10, <2>2, <2>3, <2>4, <2>5, Zenon DEF Tracks
<1>12. CASE ~(b.sent < MaxChars)
  <2>1. Len(text) = MaxChars /\ ~(Len(text) < MaxChars)
    BY <1>2, <1>3, <1>12
  <2>2. grown = text
    BY <1>5, <2>1 DEF Grown
  <2>3. d.sent > MaxChars /\ ~(d.sent <= MaxChars)
    BY <1>3, <1>9, <1>12
  <2>4. b.index \in after.overflow
    BY <1>6, <2>1
  <2>5. grown \in Seq(STRING) /\ Len(grown) = (IF d.sent <= MaxChars THEN d.sent ELSE MaxChars)
    BY <1>2, <2>1, <2>2, <2>3
  <2>6. \A k \in 1..Len(grown) : grown[k] = d.text[k].c
    BY <1>2, <1>9, <2>2
  <2> QED BY <1>8, <1>10, <2>3, <2>4, <2>5, <2>6, Zenon DEF Tracks
<1> QED BY <1>11, <1>12

LEMMA DeltaTracks ==
  ASSUME ProviderInv, CallsFit, SendDelta, NEW st, IsState(st), TrackOK(st),
         NEW b, b = open[Len(open)], NEW letters, letters = Letters(<<b.text[b.sent + 1]>>),
         NEW after, after = Remembered(st, b.index, b.kind, letters)
  PROVE  TrackOK(after)'
<1> DEFINE n == Len(open)
<1>1. /\ n \in Nat \ {0} /\ b \in Block /\ b.sent + 1 \in 1..Len(b.text) /\ message.streams
      /\ b.text[b.sent + 1] \in Char
      /\ open' \in Seq(Block) /\ Len(open') = n
      /\ \A i \in 1..n : i # n => open'[i] = open[i]
      /\ open'[n] \in Block /\ open'[n].kind = b.kind /\ open'[n].text = b.text
      /\ open'[n].index = b.index /\ open'[n].sent = b.sent + 1
  BY DeltaFacts
<1>2. message' = message
  BY DEF SendDelta
<1>3. letters \in Seq(STRING) /\ Len(letters) = 1 /\ letters[1] = b.text[b.sent + 1].c
  <2>1. PICK w \in Char : w = b.text[b.sent + 1]
    BY <1>1
  <2>2. PICK t : t = <<w>>
    OBVIOUS
  <2>3. t \in Seq(Char) /\ Len(t) = 1 /\ t[1] = w
    BY <2>2
  <2>4. letters = Letters(t)
    BY <2>1, <2>2
  <2>5. Letters(t) \in Seq(STRING) /\ Len(Letters(t)) = 1 /\ Letters(t)[1] = t[1].c
    BY <2>3, LettersOf
  <2> QED BY <2>1, <2>3, <2>4, <2>5
<1>4. b.sent \in Nat /\ Len(b.text) \in Nat /\ b.kind \in {"text", "thinking"} /\ ~Streamed(b) /\ b.sent < Len(b.text)
  BY <1>1, OpenFacts DEF SendDelta, Block, ProviderInv
<1>5. b.index = message.blocks - 1 /\ message.blocks \in Nat /\ b.index \in Nat
  <2>1. Fits(open[n], n, n, message)
    BY <1>1 DEF ProviderInv, BlocksFit
  <2>2. message.blocks \in Nat /\ b.index \in Nat
    BY <1>1, MessageFacts, OpenFacts DEF ProviderInv
  <2>3. b.index = message.blocks - n + n - 1
    BY <2>1 DEF Fits
  <2> QED BY <1>1, <2>2, <2>3
<1>6. b.index \in 0..message.blocks - 1 /\ b.index \in 0..NumBlocks - 1
  BY <1>5, Bounds DEF CallsFit
<1>7. /\ after.consumed = st.consumed
      /\ ~st.tracking => ~after.tracking
  BY <1>3, RememberedKeeps
<1> SUFFICES ASSUME after.tracking PROVE Indexed(after)' /\ (\E p : Paired(after, p))'
  BY DEF TrackOK
<1>8. Indexed(st) /\ \E p : Paired(st, p)
  BY <1>7 DEF TrackOK
<1>9. PICK p : Paired(st, p)
  BY <1>8
<1>10. /\ p \in [Begun -> DOMAIN st.streamed \ st.consumed]
       /\ \A i, k \in Begun : p[i] = p[k] => i = k
       /\ \A x \in DOMAIN st.streamed \ st.consumed : \E i \in Begun : p[i] = x
       /\ \A i \in Begun : Tracks(st, p[i], open[i])
       /\ \A i \in Begun : ~Streamed(open[i]) => p[i] = open[i].index
  BY <1>9 DEF Paired
<1>11. open # <<>> /\ Last(open) = b /\ open' # <<>> /\ Last(open') = open'[n]
  <2>1. open # <<>> /\ Last(open) = b
    BY <1>1, OpenFacts DEF ProviderInv
  <2>2. open' # <<>>
    BY <1>1
  <2>3. Last(open') = open'[n]
    BY <1>1 DEF Last
  <2> QED BY <2>1, <2>2, <2>3
<1>12. Begun' = Begun \cup {n}
  BY <1>1, <1>4 DEF Begun
<1>13. ASSUME DOMAIN after.streamed \subseteq DOMAIN st.streamed \cup {b.index},
              DOMAIN st.streamed \subseteq DOMAIN after.streamed,
              after.overflow \subseteq DOMAIN after.streamed
       PROVE  Indexed(after)'
  <2>1. after.consumed \subseteq DOMAIN after.streamed
    BY <1>7, <1>8, <1>13 DEF Indexed
  <2>2. Last(open').sent # 0
    BY <1>1, <1>4, <1>11
  <2>3. DOMAIN after.streamed \subseteq 0..NumBlocks - 1 /\ DOMAIN after.streamed \subseteq 0..message.blocks - 1
    BY <1>1, <1>6, <1>8, <1>13 DEF Indexed
  <2> QED BY <1>2, <1>13, <2>1, <2>2, <2>3 DEF Indexed
<1>16. Advanced(b, open'[n])
  BY <1>1 DEF Advanced
<1> HIDE DEF n
<1>14. CASE b.sent = 0
  <2>1. b.index \notin DOMAIN st.streamed
    BY <1>1, <1>8, <1>11, <1>14 DEF Indexed
  <2>2. EntryGrows(st, after, b.index) /\ Tracks(after, b.index, open'[n])
    <3>1. b.index \notin st.overflow
      BY <1>8, <2>1 DEF Indexed
    <3>2. letters[1] = b.text[1].c
      BY <1>3, <1>14
    <3> QED BY <1>3, <1>14, <1>16, <2>1, <3>1, <3>2, FirstEntry
  <2>3. Indexed(after)'
    BY <1>8, <1>13, <2>2 DEF Indexed, EntryGrows
  <2>4. n \notin Begun
    BY <1>14 DEF Begun, n
  <2>5. PICK q : q = [i \in Begun' |-> IF i = n THEN b.index ELSE p[i]]
    OBVIOUS
  <2>6. /\ q[n] = b.index /\ \A i \in Begun : q[i] = p[i] /\ i # n
        /\ \A i \in Begun' : i = n \/ i \in Begun
    BY <1>12, <2>4, <2>5
  <2>7. b.index \in DOMAIN after.streamed \ after.consumed
    BY <1>7, <1>8, <2>1, <2>2 DEF Indexed, EntryGrows
  <2>8. \A i \in Begun : /\ p[i] \in DOMAIN after.streamed \ after.consumed
                         /\ p[i] # b.index /\ after.streamed[p[i]] = st.streamed[p[i]]
    <3> SUFFICES ASSUME NEW i \in Begun
                 PROVE  /\ p[i] \in DOMAIN after.streamed \ after.consumed
                        /\ p[i] # b.index /\ after.streamed[p[i]] = st.streamed[p[i]]
      OBVIOUS
    <3>1. p[i] \in DOMAIN st.streamed \ st.consumed
      BY <1>10
    <3>2. p[i] # b.index
      BY <2>1, <3>1
    <3>3. p[i] \in DOMAIN after.streamed \ after.consumed
      BY <1>7, <2>2, <3>1 DEF EntryGrows
    <3>4. after.streamed[p[i]] = st.streamed[p[i]]
      BY <2>2, <3>1, <3>2 DEF EntryGrows
    <3> QED BY <3>2, <3>3, <3>4
  <2>9. q \in [Begun' -> DOMAIN after.streamed \ after.consumed]
    BY <2>5, <2>6, <2>7, <2>8
  <2>10. ASSUME NEW i \in Begun', NEW k \in Begun', q[i] = q[k] PROVE i = k
    <3>1. CASE i \in Begun /\ k \in Begun
      BY <1>10, <2>6, <2>10, <3>1
    <3>2. CASE i \in Begun /\ k = n
      BY <2>6, <2>8, <2>10, <3>2
    <3>3. CASE i = n /\ k \in Begun
      BY <2>6, <2>8, <2>10, <3>3
    <3>4. CASE i = n /\ k = n
      BY <3>4
    <3> QED BY <2>6, <3>1, <3>2, <3>3, <3>4
  <2>11. \A x \in DOMAIN after.streamed \ after.consumed : \E i \in Begun' : q[i] = x
    <3> SUFFICES ASSUME NEW x \in DOMAIN after.streamed \ after.consumed PROVE \E i \in Begun' : q[i] = x
      OBVIOUS
    <3>1. CASE x = b.index
      BY <1>12, <2>6, <3>1
    <3>2. CASE x # b.index
      <4>1. x \in DOMAIN st.streamed \ st.consumed
        BY <1>7, <2>2, <3>2 DEF EntryGrows
      <4>2. PICK i \in Begun : p[i] = x
        BY <1>10, <4>1
      <4> QED BY <1>12, <2>6, <4>2
    <3> QED BY <3>1, <3>2
  <2>13. \A i \in Begun : Tracks(after, p[i], open[i])
    <3> SUFFICES ASSUME NEW i \in Begun PROVE Tracks(after, p[i], open[i])
      OBVIOUS
    <3>1. Tracks(st, p[i], open[i]) /\ after.streamed[p[i]] = st.streamed[p[i]]
      BY <1>10, <2>8
    <3>2. p[i] \in after.overflow <=> p[i] \in st.overflow
      BY <2>2, <2>8 DEF EntryGrows
    <3> QED BY <3>1, <3>2, TracksSame
  <2>14. \A i \in Begun : open'[i] = open[i]
    BY <1>1, <2>4 DEF Begun, n
  <2>15. \A i \in Begun' : /\ Tracks(after, q[i], open'[i])
                           /\ ~Streamed(open'[i]) => q[i] = open'[i].index
    <3> SUFFICES ASSUME NEW i \in Begun'
                 PROVE  /\ Tracks(after, q[i], open'[i])
                        /\ ~Streamed(open'[i]) => q[i] = open'[i].index
      OBVIOUS
    <3>1. CASE i = n
      BY <1>1, <2>2, <2>6, <3>1
    <3>2. CASE i \in Begun
      BY <1>10, <2>6, <2>13, <2>14, <3>2
    <3> QED BY <2>6, <3>1, <3>2
  <2>16. Paired(after, q)'
    BY <2>9, <2>10, <2>11, <2>15 DEF Paired, Tracks, Streamed
  <2> QED BY <2>3, <2>16
<1>15. CASE b.sent # 0
  <2>1. n \in Begun
    BY <1>1, <1>4, <1>15 DEF Begun, n
  <2>2. Begun' = Begun
    BY <1>12, <2>1
  <2>3. p[n] = b.index /\ Tracks(st, b.index, b) /\ b.index \in DOMAIN st.streamed \ st.consumed
    BY <1>4, <1>10, <2>1 DEF n
  <2>4. EntryGrows(st, after, b.index) /\ Tracks(after, b.index, open'[n])
    <3>1. b.sent \in Nat \ {0}
      BY <1>4, <1>15
    <3> QED BY <1>3, <1>16, <2>3, <3>1, NextEntry
  <2>9. DOMAIN after.streamed = DOMAIN st.streamed /\ after.overflow \subseteq DOMAIN after.streamed
    <3>1. DOMAIN after.streamed = DOMAIN st.streamed
      BY <2>3, <2>4 DEF EntryGrows
    <3>2. st.overflow \cup {b.index} \subseteq DOMAIN st.streamed
      BY <1>8, <2>3 DEF Indexed
    <3>3. after.overflow \subseteq st.overflow \cup {b.index}
      BY <2>4 DEF EntryGrows
    <3> QED BY <3>1, <3>2, <3>3, Zenon
  <2>10. Indexed(after)'
    BY <1>13, <2>9
  <2>14. ASSUME NEW i \in Begun, i # n PROVE Tracks(after, p[i], open'[i])
    <3>1. p[i] # b.index /\ p[i] \in DOMAIN st.streamed /\ Tracks(st, p[i], open[i])
      BY <1>10, <2>1, <2>3, <2>14
    <3>2. open'[i] = open[i]
      BY <1>1, <2>14 DEF Begun, n
    <3>3. after.streamed[p[i]] = st.streamed[p[i]] /\ (p[i] \in after.overflow <=> p[i] \in st.overflow)
      BY <2>4, <3>1 DEF EntryGrows
    <3> QED BY <3>1, <3>2, <3>3, TracksSame
  <2>15. \A i \in Begun : Tracks(after, p[i], open'[i])
    BY <2>3, <2>4, <2>14
  <2>16. \A i \in Begun : ~Streamed(open'[i]) => p[i] = open'[i].index
    <3> SUFFICES ASSUME NEW i \in Begun, ~Streamed(open'[i]) PROVE p[i] = open'[i].index
      OBVIOUS
    <3>1. CASE i = n
      BY <1>1, <2>3, <3>1
    <3>2. CASE i # n
      <4>1. open'[i] = open[i]
        BY <1>1, <3>2 DEF Begun, n
      <4> QED BY <1>10, <4>1
    <3> QED BY <3>1, <3>2
  <2>17. Paired(after, p)'
    <3>1. p \in [Begun' -> DOMAIN after.streamed \ after.consumed]
      BY <1>7, <1>10, <2>2, <2>9
    <3>2. \A i, k \in Begun' : p[i] = p[k] => i = k
      BY <1>10, <2>2
    <3>3. \A x \in DOMAIN after.streamed \ after.consumed : \E i \in Begun' : p[i] = x
      BY <1>7, <1>10, <2>2, <2>9
    <3> QED BY <2>2, <2>15, <2>16, <3>1, <3>2, <3>3 DEF Paired, Tracks, Streamed
  <2> QED BY <2>10, <2>17
<1> QED BY <1>14, <1>15

-----------------------------------------------------------------------------
(* Where the run that the decoder has ahead of it ends.                    *)

Spread(text) == \A i, k \in 1..Len(text) : i < k => text[i].n < text[k].n
Once(tools) == \A i, k \in 1..Len(tools) : tools[i] = tools[k] => i = k

\* How much of the answer was written in deltas and snapshots.
Spoken ==
  IF open # <<>> /\ Last(open).kind = "text"
  THEN Len(said) - Len(Last(open).text) + Last(open).sent ELSE Len(said)

\* The text is spread over the first s characters of the answer, and is all
\* of them unless a bound was exceeded.
Covers(text, over, s, answer) ==
  /\ Spread(text)
  /\ \A i \in 1..Len(text) : text[i].n \in 1..s
  /\ ~over => Len(text) = s /\ \A i \in 1..s : text[i] = answer[i]

TextOK(text, over) == Covers(text, over, Spoken, said)

OverOK(c) == (~c.st.tracking \/ c.st.overflow # {}) => c.over

\* The snapshot that comes next is not taken for a repetition, and the last
\* one, when it is repeated, is.
KeysOK(st) ==
  /\ KeysFit(st)
  /\ \A i \in DOMAIN st.ordinals : i <= message.id
  /\ sent.type = "assistant" =>
       sent.id \in DOMAIN st.previous /\ st.previous[sent.id][1] = Fingerprint(sent)
  /\ message.id \in DOMAIN st.previous =>
       /\ open # <<>> => st.previous[message.id][1][2] # Letters(open[1].text)
       /\ (open = <<>> /\ message.blocks < NumBlocks) =>
            st.previous[message.id][1][2] = message.last

\* A tool that was started and still runs is remembered.
ToolsOK(c) ==
  ~c.over =>
    /\ Once(c.tools)
    /\ \A i \in 1..Len(c.tools) :
         /\ c.tools[i] <= message.id
         /\ c.tools[i] = message.id => message.blocks > 0
         /\ c.tools[i] \in calls => c.tools[i] \in c.st.tools

Consistent(c) ==
  /\ IsConfig(c) /\ TextOK(c.text, c.over) /\ OverOK(c) /\ TrackOK(c.st)
  /\ KeysOK(c.st) /\ ToolsOK(c)

IsDecoding(d) ==
  IsState(d.st) /\ d.text \in Seq(Char) /\ d.tools \in Seq(Nat) /\ d.over \in BOOLEAN

\* The decoder e follows the decoder c, which decoded a record to d.
Follows(e, c, d) ==
  /\ IsConfig(e) /\ e.st = d.st /\ e.text = c.text \o d.text
  /\ e.tools = c.tools \o d.tools /\ e.over = (c.over \/ d.over)
  /\ d.text = <<>> => e.text = c.text
  /\ d.tools = <<>> => e.tools = c.tools

LEMMA SilentDecoding ==
  ASSUME NEW d, IsState(d.st), d.text = <<>>, d.tools = <<>>, d.over \in BOOLEAN
  PROVE  IsDecoding(d)
<1>1. <<>> \in Seq(Char) /\ <<>> \in Seq(Nat)
  OBVIOUS
<1> QED BY <1>1, Zenon DEF IsDecoding

LEMMA ConfigDecodes ==
  ASSUME NEW c, IsConfig(c), NEW r, NEW d, d = ClaudeEvents(c.st, r, Len(c.text)), IsDecoding(d),
         NEW e, e = Decodes(c, r)
  PROVE  Follows(e, c, d)
<1> USE DEF IsDecoding
<1>1. /\ e.st = d.st /\ e.text = c.text \o d.text /\ e.tools = c.tools \o d.tools
      /\ e.over = (c.over \/ d.over)
      /\ e = [st |-> e.st, text |-> e.text, tools |-> e.tools, over |-> e.over]
  <2>1. DecodedTo(e, c, d)
    BY DecodesFields, Zenon
  <2> QED BY <2>1, Zenon DEF DecodedTo
<1>3. c.text \in Seq(Char) /\ c.tools \in Seq(Nat) /\ c.over \in BOOLEAN
  BY DEF IsConfig
<1>4. e.text \in Seq(Char)
  BY <1>1, <1>3
<1>5. e.tools \in Seq(Nat)
  BY <1>1, <1>3
<1>6. e.over \in BOOLEAN
  BY <1>1
<1>7. IsState(e.st)
  BY <1>1
<1>8. IsConfig(e)
  BY <1>1, <1>4, <1>5, <1>6, <1>7, Zenon DEF IsConfig
<1>9. d.text = <<>> => e.text = c.text
  BY <1>1, <1>3
<1>10. d.tools = <<>> => e.tools = c.tools
  BY <1>1, <1>3
<1> QED BY <1>1, <1>8, <1>9, <1>10, Zenon DEF Follows

LEMMA SpokenIs ==
  ASSUME ProviderInv
  PROVE  /\ Spoken \in Nat /\ Len(said) \in Nat /\ Spoken <= Len(said)
         /\ open = <<>> => Spoken = Len(said)
         /\ (open # <<>> /\ Streamed(Last(open))) => Spoken = Len(said)
         /\ (open # <<>> /\ Last(open).kind # "text") => Spoken = Len(said)
         /\ (open # <<>> /\ Last(open).kind = "text") =>
              Spoken = Len(said) - Len(Last(open).text) + Last(open).sent
<1>1. Len(said) \in Nat
  BY MessageFacts DEF ProviderInv
<1>2. CASE open = <<>>
  BY <1>1, <1>2 DEF Spoken
<1>3. CASE open # <<>>
  <2>1. Len(open) \in 1..Len(open) /\ Last(open) = open[Len(open)]
    BY <1>3, OpenFacts DEF ProviderInv
  <2>2. PICK b : b = Last(open)
    OBVIOUS
  <2>3. b.sent \in Nat /\ Len(b.text) \in Nat /\ b.sent <= Len(b.text)
    BY <2>1, <2>2, OpenTexts
  <2>4. b.kind = "text" => Len(b.text) <= Len(said)
    BY <1>3, <2>2 DEF ProviderInv, SaidInOrder, EndsIn
  <2>5. Streamed(b) <=> Len(b.text) = b.sent
    BY DEF Streamed
  <2>6. Spoken = IF b.kind = "text" THEN Len(said) - Len(b.text) + b.sent ELSE Len(said)
    BY <1>3, <2>2 DEF Spoken
  <2> QED BY <1>1, <1>3, <2>2, <2>3, <2>4, <2>5, <2>6
<1> QED BY <1>2, <1>3

\* Nothing is said, or just what comes next in the answer.
Continues(t, s, z, quiet, answer) ==
  \/ t = <<>> /\ (quiet \/ s = z)
  \/ Len(t) = z - s /\ \A k \in 1..Len(t) : t[k] = answer[s + k] /\ t[k].n = s + k

SameUpTo(s, answer, answer2) == \A k \in 1..s : answer2[k] = answer[k]

LEMMA TextGoesOn ==
  ASSUME NEW text \in Seq(Char), NEW over \in BOOLEAN, NEW s \in Nat, NEW z \in Nat, s <= z,
         NEW answer, NEW answer2, SameUpTo(s, answer, answer2), Covers(text, over, s, answer),
         NEW t \in Seq(Char), NEW new, new = text \o t, NEW over2 \in BOOLEAN, over => over2,
         Continues(t, s, z, over2, answer2)
  PROVE  Covers(new, over2, z, answer2)
<1>1. /\ Len(text) \in Nat /\ Len(t) \in Nat /\ Len(new) = Len(text) + Len(t)
      /\ \A k \in 1..Len(text) : new[k] = text[k]
      /\ \A k \in 1..Len(t) : new[Len(text) + k] = t[k]
  BY Concatenated DEF JoinOf
<1>2. /\ Spread(text) /\ \A i \in 1..Len(text) : text[i].n \in 1..s
      /\ ~over => Len(text) = s /\ \A i \in 1..s : text[i] = answer[i]
  BY DEF Covers
<1>3. ASSUME NEW i \in 1..Len(new), ~(i \in 1..Len(text))
      PROVE  /\ i - Len(text) \in 1..Len(t) /\ new[i] = t[i - Len(text)]
             /\ new[i].n = s + (i - Len(text)) /\ Len(t) = z - s
  <2>1. i - Len(text) \in 1..Len(t) /\ Len(text) + (i - Len(text)) = i
    BY <1>1, <1>3
  <2>2. new[i] = t[i - Len(text)]
    BY <1>1, <2>1
  <2>3. t # <<>>
    BY <2>1
  <2>4. Len(t) = z - s /\ \A k \in 1..Len(t) : t[k].n = s + k
    BY <2>3, Zenon DEF Continues
  <2> QED BY <2>1, <2>2, <2>4
<1>4. \A i \in 1..Len(new) : new[i].n \in 1..z
  <2> SUFFICES ASSUME NEW i \in 1..Len(new) PROVE new[i].n \in 1..z
    OBVIOUS
  <2>1. CASE i \in 1..Len(text)
    BY <1>1, <1>2, <2>1
  <2>2. CASE ~(i \in 1..Len(text))
    <3>1. PICK j : j = i - Len(text)
      OBVIOUS
    <3>2. j \in 1..Len(t) /\ new[i].n = s + j /\ Len(t) = z - s
      BY <1>3, <2>2, <3>1
    <3> QED BY <3>2
  <2> QED BY <2>1, <2>2
<1>5. Spread(new)
  <2> SUFFICES ASSUME NEW i \in 1..Len(new), NEW k \in 1..Len(new), i < k PROVE new[i].n < new[k].n
    BY DEF Spread
  <2>1. CASE i \in 1..Len(text) /\ k \in 1..Len(text)
    BY <1>1, <1>2, <2>1 DEF Spread
  <2>2. CASE i \in 1..Len(text) /\ ~(k \in 1..Len(text))
    <3>1. new[i].n \in 1..s
      BY <1>1, <1>2, <2>2
    <3>2. PICK j : j = k - Len(text)
      OBVIOUS
    <3>3. new[k].n = s + j /\ j \in 1..Len(t)
      BY <1>3, <2>2, <3>2
    <3>4. s + j > s
      BY <3>3
    <3> QED BY <3>1, <3>3, <3>4
  <2>3. CASE ~(i \in 1..Len(text))
    <3>1. ~(k \in 1..Len(text))
      BY <1>1, <2>3
    <3>2. new[i].n = s + (i - Len(text)) /\ new[k].n = s + (k - Len(text))
      BY <1>3, <2>3, <3>1
    <3> QED BY <1>1, <3>2
  <2> QED BY <2>1, <2>2, <2>3
<1>6. ASSUME ~over2 PROVE Len(new) = z /\ \A i \in 1..z : new[i] = answer2[i]
  <2>1. Len(text) = s /\ \A i \in 1..s : text[i] = answer[i]
    BY <1>2, <1>6
  <2>2. Len(t) = z - s
    <3>1. CASE t = <<>> /\ s = z
      <4>1. Len(t) = 0
        BY <3>1
      <4> QED BY <3>1, <4>1
    <3> QED BY <1>6, <3>1 DEF Continues
  <2>3. Len(new) = z
    <3>1. Len(new) = Len(text) + Len(t)
      BY <1>1
    <3> QED BY <2>1, <2>2, <3>1
  <2>4. ASSUME NEW i \in 1..z PROVE new[i] = answer2[i]
    <3>1. CASE i \in 1..Len(text)
      BY <1>1, <2>1, <3>1 DEF SameUpTo
    <3>2. CASE ~(i \in 1..Len(text))
      <4>1. new[i] = t[i - Len(text)] /\ i - Len(text) \in 1..Len(t)
        BY <1>3, <2>3, <3>2
      <4>2. s + (i - Len(text)) = i
        <5>1. Len(text) = s /\ i \in Nat
          BY <2>1
        <5> QED BY <5>1
      <4>3. t # <<>>
        BY <4>1
      <4>4. t[i - Len(text)] = answer2[s + (i - Len(text))]
        BY <4>1, <4>3, Zenon DEF Continues
      <4> QED BY <4>1, <4>2, <4>4
    <3> QED BY <3>1, <3>2
  <2> QED BY <2>3, <2>4
<1> QED BY <1>4, <1>5, <1>6, Zenon DEF Covers

\* The hypotheses of TextGoesOn.
GoesOn(text, over, s, answer, t, z, over2, answer2) ==
  /\ text \in Seq(Char) /\ over \in BOOLEAN /\ s \in Nat /\ z \in Nat /\ s <= z
  /\ SameUpTo(s, answer, answer2) /\ Covers(text, over, s, answer)
  /\ t \in Seq(Char) /\ over2 \in BOOLEAN
  /\ over => over2
  /\ Continues(t, s, z, over2, answer2)

LEMMA TextWentOn ==
  ASSUME NEW text, NEW over, NEW s, NEW z, NEW answer, NEW answer2, NEW t, NEW new, NEW over2,
         GoesOn(text, over, s, answer, t, z, over2, answer2), new = text \o t
  PROVE  Covers(new, over2, z, answer2)
<1>1. /\ text \in Seq(Char) /\ over \in BOOLEAN /\ s \in Nat /\ z \in Nat /\ s <= z
      /\ SameUpTo(s, answer, answer2) /\ Covers(text, over, s, answer)
      /\ t \in Seq(Char) /\ over2 \in BOOLEAN
      /\ Continues(t, s, z, over2, answer2)
  BY DEF GoesOn
<1>2. over => over2
  BY DEF GoesOn
<1> QED BY <1>1, <1>2, TextGoesOn

-----------------------------------------------------------------------------
(* What is written keeps the end of the run consistent.                    *)

\* A record is written, and the run goes on with it.
Writes(c) ==
  \E r, e : pipe' = Append(pipe, r) /\ UNCHANGED decoder /\ e = Decodes(c, r) /\ Consistent(e)'
Waits(c) == pipe' = pipe /\ UNCHANGED decoder /\ Consistent(c)'

LEMMA ParentRecord ==
  ASSUME NEW c, IsConfig(c), NEW r, r.nested = FALSE, NEW type \in Types, r.type = type,
         NEW d, d = ClaudeEvents(c.st, r, Len(c.text))
  PROVE  /\ type = "torn" => d = Quiet(c.st)
         /\ type = "message_start" => d = MessageStart(c.st)
         /\ type = "delta" => d = Delta(c.st, r)
         /\ type = "tool_start" => d = ToolStart(c.st, r.tool)
         /\ type = "assistant" => d = Snapshot(c.st, r)
         /\ type = "user" => d = ToolResult(c.st, r)
         /\ type = "result" => d = Result(c.st, r, Len(c.text))
BY EventsByType

LEMMA TrackSame ==
  ASSUME NEW st, TrackOK(st), NEW e, SameText(e, st), open' = open,
         message.blocks \in Nat, message'.blocks \in Nat,
         message'.streams => message.streams /\ message.blocks <= message'.blocks
  PROVE  TrackOK(e)'
<1> SUFFICES ASSUME e.tracking PROVE Indexed(e)' /\ (\E p : Paired(e, p))'
  BY DEF TrackOK
<1>1. /\ e.streamed = st.streamed /\ e.consumed = st.consumed /\ e.overflow = st.overflow
      /\ e.tracking = st.tracking
  BY DEF SameText
<1>2. Indexed(st) /\ \E p : Paired(st, p)
  BY <1>1 DEF TrackOK
<1>3. message'.streams => DOMAIN st.streamed \subseteq 0..message'.blocks - 1
  BY <1>2 DEF Indexed
<1>4. Indexed(e)'
  BY <1>1, <1>2, <1>3 DEF Indexed
<1>5. PICK p : Paired(st, p)
  BY <1>2
<1>6. Begun' = Begun
  BY DEF Begun
<1>7. Paired(e, p)'
  BY <1>1, <1>5, <1>6 DEF Paired, Tracks, Streamed
<1> QED BY <1>4, <1>7

LEMMA TextSame ==
  ASSUME NEW text, NEW over, TextOK(text, over), open' = open, said' = said, NEW over2, over => over2
  PROVE  TextOK(text, over2)'
<1>1. Spoken' = Spoken
  BY DEF Spoken
<1>2. Covers(text, over, Spoken, said)
  BY DEF TextOK
<1>3. Covers(text, over2, Spoken, said)
  BY <1>2 DEF Covers
<1> QED BY <1>1, <1>3 DEF TextOK

LEMMA KeysSame ==
  ASSUME NEW st, KeysOK(st), NEW e, SameKeys(e, st), message'.id = message.id,
         message'.blocks = message.blocks, message'.last = message.last,
         open' # <<>> <=> open # <<>>,
         open # <<>> => open'[1].text = open[1].text,
         sent'.type = "assistant" => sent' = sent
  PROVE  KeysOK(e)'
<1>1. e.ordinals = st.ordinals /\ e.seen = st.seen /\ e.previous = st.previous
  BY DEF SameKeys
<1>2. KeysFit(e)
  BY <1>1 DEF KeysOK, KeysFit
<1>3. \A i \in DOMAIN e.ordinals : i <= message'.id
  BY <1>1 DEF KeysOK
<1>4. sent'.type = "assistant" =>
        sent'.id \in DOMAIN e.previous /\ e.previous[sent'.id][1] = Fingerprint(sent')
  BY <1>1 DEF KeysOK
<1>5. message'.id \in DOMAIN e.previous =>
        /\ open' # <<>> => e.previous[message'.id][1][2] # Letters(open'[1].text)
        /\ (open' = <<>> /\ message'.blocks < NumBlocks) =>
             e.previous[message'.id][1][2] = message'.last
  BY <1>1 DEF KeysOK
<1> QED BY <1>2, <1>3, <1>4, <1>5 DEF KeysOK, KeysFit

LEMMA ToolsSame ==
  ASSUME NEW c, ToolsOK(c), NEW e, e.tools = c.tools, c.over => e.over, e.st.tools = c.st.tools,
         message'.id = message.id, message.blocks > 0 => message'.blocks > 0, calls' \subseteq calls
  PROVE  ToolsOK(e)'
BY DEF ToolsOK, Once

LEMMA BeginMessageRuns ==
  ASSUME ProviderInv, CallsFit, NEW c, Consistent(c), NEW streams \in BOOLEAN, BeginMessage(streams)
  PROVE  Writes(c) \/ Waits(c)
<1>1. /\ message' = [id |-> message.id + 1, streams |-> streams, blocks |-> 0, last |-> <<>>]
      /\ open = <<>> /\ open' = open /\ calls' = calls /\ said' = said
  BY DEF BeginMessage, Settled
<1>2. message'.id = message.id + 1 /\ message'.streams = streams /\ message'.blocks = 0
  BY <1>1
<1>3. message.id \in Nat /\ message.blocks \in Nat /\ calls \in SUBSET Nat
  BY MessageFacts DEF ProviderInv, ProviderTyped
<1>4. IsConfig(c) /\ TextOK(c.text, c.over) /\ OverOK(c) /\ TrackOK(c.st) /\ KeysOK(c.st) /\ ToolsOK(c)
  BY DEF Consistent
<1>5. ASSUME NEW st, SameKeys(st, c.st), sent'.type # "assistant" PROVE KeysOK(st)'
  <2>1. st.ordinals = c.st.ordinals /\ st.seen = c.st.seen /\ st.previous = c.st.previous
    BY <1>5 DEF SameKeys
  <2>2. KeysFit(st)
    BY <1>4, <2>1 DEF KeysOK, KeysFit
  <2>3. \A i \in DOMAIN st.ordinals : i \in Nat /\ i <= message.id
    BY <1>4, <2>1 DEF KeysOK, KeysFit
  <2>4. \A i \in DOMAIN st.ordinals : i <= message'.id /\ i # message'.id
    BY <1>2, <1>3, <2>3
  <2>5. message'.id \notin DOMAIN st.previous
    BY <2>2, <2>4 DEF KeysFit
  <2> QED BY <1>5, <2>2, <2>4, <2>5 DEF KeysOK, KeysFit
<1>6. ASSUME NEW e, e.tools = c.tools, c.over => e.over, e.st.tools = c.st.tools PROVE ToolsOK(e)'
  <2> SUFFICES ASSUME ~e.over
               PROVE  /\ Once(e.tools)
                      /\ \A i \in 1..Len(e.tools) :
                           /\ e.tools[i] <= message'.id
                           /\ e.tools[i] = message'.id => message'.blocks > 0
                           /\ e.tools[i] \in calls' => e.tools[i] \in e.st.tools
    BY DEF ToolsOK, Once
  <2>1. /\ Once(c.tools)
        /\ \A i \in 1..Len(c.tools) : /\ c.tools[i] <= message.id
                                      /\ c.tools[i] \in calls => c.tools[i] \in c.st.tools
    BY <1>4, <1>6 DEF ToolsOK
  <2>2. \A i \in 1..Len(c.tools) : c.tools[i] \in Nat
    BY <1>4 DEF IsConfig
  <2>3. \A i \in 1..Len(c.tools) : c.tools[i] <= message'.id /\ c.tools[i] # message'.id
    BY <1>2, <1>3, <2>1, <2>2
  <2> QED BY <1>1, <1>6, <2>1, <2>3
<1>7. CASE streams
  <2>1. PICK r : r = Record("message_start", "none", NoText, 0, 0)
    OBVIOUS
  <2>2. Write(r)
    BY <1>7, <2>1 DEF BeginMessage
  <2>3. r.nested = FALSE /\ r.type = "message_start" /\ "message_start" \in Types
    BY <2>1, RecordFields, Literals
  <2>4. pipe' = Append(pipe, r) /\ sent' = r /\ UNCHANGED decoder
    BY <2>2 DEF Write
  <2>5. PICK d : d = ClaudeEvents(c.st, r, Len(c.text))
    OBVIOUS
  <2>6. d = MessageStart(c.st)
    BY <1>4, <2>3, <2>5, ParentRecord
  <2>7. /\ IsState(d.st) /\ d.text = <<>> /\ d.tools = <<>> /\ d.over = FALSE
        /\ d.st.streamed = <<>> /\ d.st.consumed = {} /\ d.st.overflow = {} /\ d.st.tracking = TRUE
        /\ SameKeys(d.st, c.st) /\ d.st.tools = c.st.tools
    <3>1. Restarted(d, c.st)
      BY <1>4, <2>6, MessageStartFields DEF IsConfig
    <3> QED BY <3>1, Zenon DEF Restarted
  <2>8. PICK e : e = Decodes(c, r)
    OBVIOUS
  <2>9. d.over \in BOOLEAN
    BY <2>7
  <2>10. IsConfig(e) /\ e.st = d.st /\ e.text = c.text /\ e.tools = c.tools /\ e.over = (c.over \/ d.over)
    <3>1. IsDecoding(d)
      BY <2>7, <2>9, SilentDecoding, Zenon
    <3>2. Follows(e, c, d)
      BY <1>4, <2>5, <2>8, <3>1, ConfigDecodes, Zenon
    <3> QED BY <2>7, <3>2 DEF Follows
  <2>11. TextOK(e.text, e.over)'
    <3>1. TextOK(e.text, c.over) /\ (c.over => e.over)
      BY <1>4, <2>10
    <3> QED BY <1>1, <3>1, TextSame
  <2>12. OverOK(e)
    BY <2>7, <2>10 DEF OverOK
  <2>13. TrackOK(e.st)'
    <3>1. DOMAIN e.st.streamed = {} /\ e.st.consumed = {} /\ e.st.overflow = {}
      BY <2>7, <2>10
    <3>2. open' = <<>>
      BY <1>1
    <3>3. Begun' = {}
      BY <3>2 DEF Begun
    <3>4. Indexed(e.st)'
      BY <3>1, <3>2 DEF Indexed
    <3>5. PICK p : p = [i \in {} |-> 0]
      OBVIOUS
    <3>6. p \in [{} -> DOMAIN e.st.streamed \ e.st.consumed]
      BY <3>5
    <3>7. Paired(e.st, p)'
      BY <3>1, <3>3, <3>6 DEF Paired
    <3> QED BY <3>4, <3>7 DEF TrackOK
  <2>14. KeysOK(e.st)'
    <3>1. sent'.type # "assistant"
      BY <2>3, <2>4
    <3>2. SameKeys(e.st, c.st)
      BY <2>7, <2>10
    <3> QED BY <1>5, <3>1, <3>2
  <2>15. ToolsOK(e)'
    BY <1>6, <2>7, <2>10
  <2>16. Consistent(e)'
    BY <2>10, <2>11, <2>12, <2>13, <2>14, <2>15 DEF Consistent, IsConfig, IsState, OverOK
  <2> QED BY <2>4, <2>8, <2>16 DEF Writes
<1>8. CASE ~streams
  <2>1. pipe' = pipe /\ UNCHANGED decoder /\ sent' = NoRecord
    BY <1>8 DEF BeginMessage
  <2>2. sent'.type # "assistant"
    BY <2>1 DEF NoRecord
  <2>3. TextOK(c.text, c.over)'
    BY <1>1, <1>4, TextSame
  <2>4. TrackOK(c.st)'
    <3>1. SameText(c.st, c.st)
      BY DEF SameText
    <3> QED BY <1>1, <1>2, <1>3, <1>4, <1>8, <3>1, TrackSame
  <2>5. KeysOK(c.st)'
    <3>1. SameKeys(c.st, c.st)
      BY DEF SameKeys
    <3> QED BY <1>5, <2>2, <3>1
  <2>6. ToolsOK(c)'
    BY <1>6
  <2>7. Consistent(c)'
    BY <1>4, <2>3, <2>4, <2>5, <2>6 DEF Consistent, IsConfig, IsState, OverOK
  <2> QED BY <2>1, <2>7 DEF Waits
<1> QED BY <1>7, <1>8

\* The block that is opened.
LEMMA OpenBlockFacts ==
  ASSUME ProviderInv, NEW kind \in {"text", "thinking"}, NEW letters \in Texts,
         OpenBlock(kind, letters)
  PROVE  /\ \E b \in Block :
              /\ b.kind = kind /\ b.sent = 0 /\ b.index = message.blocks
              /\ Letters(b.text) = letters /\ Len(b.text) \in Nat
              /\ Len(open') = Len(open) + 1 /\ open' # <<>> /\ Last(open') = b
              /\ open'[Len(open) + 1] = b /\ \A i \in 1..Len(open) : open'[i] = open[i]
              /\ kind = "text" => Len(said') = Len(said) + Len(b.text)
         /\ \A k \in 1..Len(said) : said'[k] = said[k]
         /\ kind # "text" => said' = said
<1> USE DEF ProviderInv
<1>1. PICK from \in Nat : from = IF kind = "text" THEN Len(said) ELSE 0
  BY MessageFacts
<1>2. PICK text : text = Numbered(letters, from)
  OBVIOUS
<1>3. PICK b : b = [index |-> message.blocks, kind |-> kind, text |-> text, sent |-> 0]
  OBVIOUS
<1>4. open' = Append(open, b) /\ said' = IF kind = "text" THEN said \o text ELSE said
  BY <1>1, <1>2, <1>3 DEF OpenBlock
<1>5. letters \in Seq(STRING) /\ Len(letters) \in Nat \ {0}
  BY TextsAreWords
<1>6. text \in Seq(Char) /\ Len(text) = Len(letters) /\ Letters(text) = letters
  BY <1>2, <1>5, NumberedOf
<1>7. b \in Block /\ b.text = text /\ b.kind = kind /\ b.sent = 0 /\ b.index = message.blocks
  BY <1>3, <1>6, MessageFacts DEF Block
<1>8. /\ Len(open') = Len(open) + 1 /\ open' # <<>> /\ open'[Len(open) + 1] = b
      /\ \A i \in 1..Len(open) : open'[i] = open[i]
  BY <1>4, <1>7 DEF ProviderTyped
<1>9. Last(open') = b
  BY <1>8 DEF Last
<1>10. kind = "text" => /\ Len(said') = Len(said) + Len(text)
                        /\ \A k \in 1..Len(said) : said'[k] = said[k]
  <2>1. said \in Seq(Char) /\ text \in Seq(Char)
    BY <1>6 DEF ProviderTyped
  <2>2. PICK new : new = said \o text
    OBVIOUS
  <2>3. JoinOf(new, said, text)
    BY <2>1, <2>2, Concatenated
  <2>4. Len(new) = Len(said) + Len(text) /\ \A k \in 1..Len(said) : new[k] = said[k]
    BY <2>3 DEF JoinOf
  <2> QED BY <1>4, <2>2, <2>4
<1>11. \A k \in 1..Len(said) : said'[k] = said[k]
  BY <1>4, <1>10
<1>12. /\ b.kind = kind /\ b.sent = 0 /\ b.index = message.blocks
       /\ Letters(b.text) = letters /\ Len(b.text) \in Nat
       /\ kind = "text" => Len(said') = Len(said) + Len(b.text)
  BY <1>5, <1>6, <1>7, <1>10
<1> QED BY <1>4, <1>7, <1>8, <1>9, <1>11, <1>12

LEMMA OpenBlockRuns ==
  ASSUME ProviderInv, CallsFit, NEW c, Consistent(c), NEW kind \in {"text", "thinking"},
         NEW letters \in Texts, OpenBlock(kind, letters)
  PROVE  Waits(c)
<1>1. /\ message' = [message EXCEPT !.blocks = @ + 1, !.last = letters]
      /\ calls' = calls /\ sent' = sent /\ pipe' = pipe /\ UNCHANGED decoder
      /\ \A i \in DOMAIN open : message.streams /\ Streamed(open[i])
      /\ letters # message.last /\ message.blocks < NumBlocks
  BY DEF OpenBlock
<1>2. /\ message'.id = message.id /\ message'.streams = message.streams
      /\ message'.blocks = message.blocks + 1 /\ message'.last = letters
      /\ message.id \in Nat /\ message.blocks \in Nat
  BY <1>1, MessageFacts DEF ProviderInv
<1>3. PICK b \in Block :
        /\ b.kind = kind /\ b.sent = 0 /\ b.index = message.blocks
        /\ Letters(b.text) = letters /\ Len(b.text) \in Nat
        /\ Len(open') = Len(open) + 1 /\ open' # <<>> /\ Last(open') = b
        /\ open'[Len(open) + 1] = b /\ \A i \in 1..Len(open) : open'[i] = open[i]
        /\ kind = "text" => Len(said') = Len(said) + Len(b.text)
  BY OpenBlockFacts
<1>4. (\A k \in 1..Len(said) : said'[k] = said[k]) /\ (kind # "text" => said' = said)
  BY OpenBlockFacts
<1>5. IsConfig(c) /\ TextOK(c.text, c.over) /\ OverOK(c) /\ TrackOK(c.st) /\ KeysOK(c.st) /\ ToolsOK(c)
  BY DEF Consistent
<1>6. open \in Seq(Block) /\ Len(open) \in Nat
  BY DEF ProviderInv, ProviderTyped
<1>7. TextOK(c.text, c.over)'
  <2>1. Spoken = Len(said) /\ Len(said) \in Nat
    <3>1. CASE open = <<>>
      BY <3>1, SpokenIs
    <3>2. CASE open # <<>>
      <4>1. Last(open) = open[Len(open)] /\ Len(open) \in DOMAIN open
        BY <1>6, <3>2, OpenFacts DEF ProviderInv
      <4>2. Streamed(Last(open))
        BY <1>1, <4>1
      <4> QED BY <3>2, <4>2, SpokenIs
    <3> QED BY <3>1, <3>2
  <2>2. Spoken' = Len(said)
    <3>1. CASE kind = "text"
      <4>1. Spoken' = Len(said') - Len(b.text) + 0
        BY <1>3, <3>1 DEF Spoken
      <4> QED BY <1>3, <2>1, <3>1, <4>1
    <3>2. CASE kind # "text"
      BY <1>3, <1>4, <3>2 DEF Spoken
    <3> QED BY <3>1, <3>2
  <2>3. PICK s \in Nat : s = Len(said)
    BY <2>1
  <2>4. SameUpTo(s, said, said')
    BY <1>4, <2>3 DEF SameUpTo
  <2>5. Covers(c.text, c.over, s, said)
    BY <1>5, <2>1, <2>3 DEF TextOK
  <2>6. c.text \in Seq(Char) /\ c.over \in BOOLEAN
    BY <1>5 DEF IsConfig
  <2>7. Covers(c.text, c.over, s, said')
    <3>1. \A i \in 1..s : said'[i] = said[i]
      BY <2>4 DEF SameUpTo
    <3>2. ~c.over => Len(c.text) = s /\ \A i \in 1..s : c.text[i] = said'[i]
      BY <2>5, <3>1 DEF Covers
    <3> QED BY <2>5, <3>2, Zenon DEF Covers
  <2> QED BY <2>2, <2>3, <2>7 DEF TextOK
<1>8. TrackOK(c.st)'
  <2> SUFFICES ASSUME c.st.tracking PROVE Indexed(c.st)' /\ (\E p : Paired(c.st, p))'
    BY DEF TrackOK
  <2>1. Indexed(c.st)
    BY <1>5 DEF TrackOK
  <2>2. PICK p : Paired(c.st, p)
    BY <1>5 DEF TrackOK
  <2>3. Begun' = Begun
    BY <1>3, <1>6 DEF Begun
  <2>4. \A i \in Begun : open'[i] = open[i]
    BY <1>3 DEF Begun
  <2>5. Paired(c.st, p)'
    BY <2>2, <2>3, <2>4 DEF Paired, Tracks, Streamed
  <2>6. message'.streams => DOMAIN c.st.streamed \subseteq 0..message'.blocks - 1
    BY <1>2, <2>1 DEF Indexed
  <2>7. message'.streams => Last(open').index \notin DOMAIN c.st.streamed
    <3>1. Last(open').index = message.blocks /\ message.blocks \notin 0..message.blocks - 1
      BY <1>2, <1>3
    <3> QED BY <1>2, <2>1, <3>1 DEF Indexed
  <2>8. Indexed(c.st)'
    BY <2>1, <2>6, <2>7 DEF Indexed
  <2> QED BY <2>5, <2>8
<1>9. KeysOK(c.st)'
  <2>1. ASSUME message.id \in DOMAIN c.st.previous
        PROVE  c.st.previous[message.id][1][2] # Letters(open'[1].text)
    <3>1. CASE open = <<>>
      <4>1. open'[1] = b
        BY <1>3, <3>1
      <4>2. c.st.previous[message.id][1][2] = message.last
        BY <1>1, <1>5, <2>1, <3>1 DEF KeysOK
      <4> QED BY <1>1, <1>3, <4>1, <4>2
    <3>2. CASE open # <<>>
      <4>1. open'[1] = open[1]
        BY <1>3, <1>6, <3>2
      <4> QED BY <1>5, <2>1, <3>2, <4>1 DEF KeysOK
    <3> QED BY <3>1, <3>2
  <2>2. KeysFit(c.st) /\ \A i \in DOMAIN c.st.ordinals : i <= message.id
    BY <1>5 DEF KeysOK
  <2>3. sent'.type = "assistant" =>
          sent'.id \in DOMAIN c.st.previous /\ c.st.previous[sent'.id][1] = Fingerprint(sent')
    BY <1>1, <1>5 DEF KeysOK
  <2> QED BY <1>2, <1>3, <2>1, <2>2, <2>3 DEF KeysOK, KeysFit
<1>10. ToolsOK(c)'
  <2>1. calls' \subseteq calls /\ (message.blocks > 0 => message'.blocks > 0)
    BY <1>1, <1>2
  <2> QED BY <1>2, <1>5, <2>1, ToolsSame
<1>11. Consistent(c)'
  BY <1>5, <1>7, <1>8, <1>9, <1>10 DEF Consistent, IsConfig, IsState, OverOK
<1> QED BY <1>1, <1>11 DEF Waits

LEMMA SendDeltaRuns ==
  ASSUME ProviderInv, CallsFit, NEW c, Consistent(c), SendDelta
  PROVE  Writes(c)
<1>1. PICK n \in Nat \ {0}, b \in Block : n = Len(open) /\ b = open[n]
  BY DeltaFacts
<1>2. /\ b.sent + 1 \in 1..Len(b.text) /\ b.text[b.sent + 1] \in Char
      /\ NextDelta(b) \in Records /\ Write(NextDelta(b))
      /\ open' \in Seq(Block) /\ Len(open') = n
      /\ \A i \in 1..n : i # n => open'[i] = open[i]
      /\ open'[n].kind = b.kind /\ open'[n].text = b.text
      /\ open'[n].index = b.index /\ open'[n].sent = b.sent + 1
  BY <1>1, DeltaFacts
<1>3. message' = message /\ calls' = calls /\ said' = said
  BY DEF SendDelta
<1>4. IsConfig(c) /\ TextOK(c.text, c.over) /\ OverOK(c) /\ TrackOK(c.st) /\ KeysOK(c.st) /\ ToolsOK(c)
  BY DEF Consistent
<1>5. PICK r : r = NextDelta(b)
  OBVIOUS
<1>6. /\ r.nested = FALSE /\ r.type = "delta" /\ "delta" \in Types /\ r.kind = b.kind
      /\ r.text = <<b.text[b.sent + 1]>> /\ r.index = b.index
      /\ pipe' = Append(pipe, r) /\ sent' = r /\ UNCHANGED decoder
  BY <1>2, <1>5, RecordFields, Literals DEF NextDelta, Write
<1>7. PICK d : d = ClaudeEvents(c.st, r, Len(c.text))
  OBVIOUS
<1>8. d = Delta(c.st, r)
  BY <1>4, <1>6, <1>7, ParentRecord
<1>9. PICK letters : letters = Letters(<<b.text[b.sent + 1]>>)
  OBVIOUS
<1>10. PICK after : after = Remembered(c.st, b.index, b.kind, letters)
  OBVIOUS
<1>11. /\ d.st = after /\ d.text = (IF b.kind = "text" THEN <<b.text[b.sent + 1]>> ELSE <<>>)
       /\ d.tools = <<>> /\ d.over = (~after.tracking \/ after.overflow # {})
  <2>1. after = Remembered(c.st, r.index, r.kind, Letters(r.text))
    BY <1>6, <1>9, <1>10
  <2>2. DeltaSays(d, after, r.kind, r.text)
    BY <1>8, <2>1, DeltaFields, Zenon
  <2> QED BY <1>6, <2>2 DEF DeltaSays
<1>12. letters \in Seq(STRING) /\ Len(letters) = 1
  <2>1. PICK t : t = <<b.text[b.sent + 1]>>
    OBVIOUS
  <2>2. t \in Seq(Char) /\ Len(t) = 1
    BY <1>2, <2>1
  <2>3. Letters(t) \in Seq(STRING) /\ Len(Letters(t)) = 1
    BY <2>2, LettersOf
  <2> QED BY <1>9, <2>1, <2>3
<1>13. /\ IsState(after) /\ SameKeys(after, c.st) /\ after.tools = c.st.tools
  BY <1>4, <1>10, <1>12, RememberedKeeps DEF IsConfig
<1>14. IsDecoding(d)
  <2>1. d.text \in Seq(Char)
    <3>1. <<b.text[b.sent + 1]>> \in Seq(Char) /\ <<>> \in Seq(Char)
      BY <1>2
    <3> QED BY <1>11, <3>1
  <2>2. d.tools \in Seq(Nat)
    BY <1>11
  <2>3. d.over \in BOOLEAN
    BY <1>11
  <2> QED BY <1>11, <1>13, <2>1, <2>2, <2>3 DEF IsDecoding
<1>15. PICK e : e = Decodes(c, r)
  OBVIOUS
<1>16. Follows(e, c, d)
  BY <1>4, <1>7, <1>14, <1>15, ConfigDecodes
<1>17. /\ IsConfig(e) /\ e.st = after /\ e.text = c.text \o d.text /\ e.tools = c.tools
       /\ e.over = (c.over \/ ~after.tracking \/ after.overflow # {})
  BY <1>11, <1>16 DEF Follows
<1>18. TrackOK(e.st)'
  <2>1. IsState(c.st) /\ b = open[Len(open)]
    BY <1>1, <1>4 DEF IsConfig
  <2>2. TrackOK(after)'
    BY <1>4, <1>9, <1>10, <2>1, DeltaTracks
  <2> QED BY <1>17, <2>2
<1>19. open # <<>> /\ Last(open) = b /\ open' # <<>> /\ Last(open') = open'[n]
  <2>1. open # <<>> /\ Last(open) = b
    BY <1>1, OpenFacts DEF ProviderInv
  <2>2. open' # <<>>
    BY <1>2
  <2>3. Last(open') = open'[n]
    BY <1>2 DEF Last
  <2> QED BY <2>1, <2>2, <2>3
<1>20. TextOK(e.text, e.over)'
  <2>1. PICK s \in Nat : s = Spoken
    BY SpokenIs
  <2>2. b.sent \in Nat /\ Len(b.text) \in Nat /\ Len(said) \in Nat
    BY <1>1, OpenFacts, MessageFacts DEF ProviderInv, Block
  <2>3. c.text \in Seq(Char) /\ c.over \in BOOLEAN /\ e.over \in BOOLEAN /\ d.text \in Seq(Char)
    BY <1>4, <1>14, <1>17 DEF IsConfig, IsDecoding
  <2>4. Covers(c.text, c.over, s, said)
    BY <1>4, <2>1 DEF TextOK
  <2>5. SameUpTo(s, said, said')
    BY <1>3 DEF SameUpTo
  <2>6. c.over => e.over
    BY <1>17
  <2>7. CASE b.kind = "text"
    <3>1. s = Len(said) - Len(b.text) + b.sent
      BY <1>19, <2>1, <2>7, SpokenIs
    <3>2. Spoken' = Len(said) - Len(b.text) + (b.sent + 1)
      BY <1>2, <1>3, <1>19, <2>7 DEF Spoken
    <3>3. Spoken' = s + 1
      BY <2>2, <3>1, <3>2
    <3>4. EndsIn(said, b) /\ \A k \in 1..Len(said) : said[k].n = k
      BY <1>19, <2>7 DEF ProviderInv, SaidInOrder
    <3>5. b.text[b.sent + 1] = said[s + 1] /\ said[s + 1].n = s + 1
      <4>1. Len(said) - Len(b.text) + (b.sent + 1) = s + 1
        BY <2>2, <3>1
      <4>2. b.text[b.sent + 1] = said[s + 1]
        BY <1>2, <3>4, <4>1 DEF EndsIn
      <4>3. s + 1 \in 1..Len(said)
        BY <1>2, <2>2, <3>1, <3>4 DEF EndsIn
      <4> QED BY <3>4, <4>2, <4>3
    <3>6. d.text = <<b.text[b.sent + 1]>>
      BY <1>11, <2>7
    <3>7. Len(d.text) = 1 /\ d.text[1] = said[s + 1] /\ said[s + 1].n = s + 1
      BY <3>5, <3>6
    <3>8. PICK z \in Nat : z = s + 1
      OBVIOUS
    <3>9. Continues(d.text, s, z, e.over, said')
      <4>1. \A k \in 1..Len(d.text) : k = 1
        BY <3>7
      <4>2. Len(d.text) = z - s
        BY <3>7, <3>8
      <4> QED BY <1>3, <3>7, <4>1, <4>2 DEF Continues
    <3>10. s <= z
      BY <3>8
    <3>11. Covers(e.text, e.over, z, said')
      <4>1. PICK text, over, t, new, over2 :
              text = c.text /\ over = c.over /\ t = d.text /\ new = e.text /\ over2 = e.over
        OBVIOUS
      <4>2. PICK answer, answer2 : answer = said /\ answer2 = said'
        OBVIOUS
      <4>3. text \in Seq(Char) /\ over \in BOOLEAN /\ t \in Seq(Char) /\ over2 \in BOOLEAN
        BY <2>3, <4>1
      <4>4. SameUpTo(s, answer, answer2) /\ Covers(text, over, s, answer)
        BY <2>4, <2>5, <4>1, <4>2
      <4>5. new = text \o t
        BY <1>17, <4>1
      <4>6. over => over2
        BY <2>6, <4>1
      <4>7. Continues(t, s, z, over2, answer2)
        BY <3>9, <4>1, <4>2
      <4>8. GoesOn(text, over, s, answer, t, z, over2, answer2)
        BY <3>10, <4>3, <4>4, <4>6, <4>7, Zenon DEF GoesOn
      <4>9. Covers(new, over2, z, answer2)
        BY <4>5, <4>8, TextWentOn, Zenon
      <4> QED BY <4>1, <4>2, <4>9
    <3> QED BY <3>3, <3>8, <3>11 DEF TextOK
  <2>8. CASE b.kind # "text"
    <3>1. d.text = <<>> /\ e.text = c.text
      BY <1>11, <1>16, <2>8 DEF Follows
    <3>2. Spoken' = Spoken
      BY <1>2, <1>3, <1>19, <2>8 DEF Spoken
    <3>3. Covers(c.text, e.over, s, said)
      BY <2>4, <2>6 DEF Covers
    <3> QED BY <1>3, <2>1, <3>1, <3>2, <3>3 DEF TextOK
  <2> QED BY <2>7, <2>8
<1>21. KeysOK(e.st)'
  <2>1. sent'.type # "assistant"
    BY <1>6
  <2>2. open'[1].text = open[1].text
    <3>1. CASE n = 1
      BY <1>1, <1>2, <3>1
    <3>2. CASE n # 1
      BY <1>1, <1>2, <3>2
    <3> QED BY <3>1, <3>2
  <2>3. SameKeys(e.st, c.st)
    BY <1>13, <1>17
  <2> QED BY <1>3, <1>4, <1>19, <2>1, <2>2, <2>3, KeysSame
<1>22. ToolsOK(e)'
  <2>1. c.over => e.over
    BY <1>17
  <2>2. e.st.tools = c.st.tools
    BY <1>13, <1>17
  <2> QED BY <1>3, <1>4, <1>17, <2>1, <2>2, ToolsSame
<1>23. OverOK(e)
  BY <1>17 DEF OverOK
<1>24. Consistent(e)'
  BY <1>17, <1>18, <1>20, <1>21, <1>22, <1>23 DEF Consistent, IsConfig, IsState, OverOK
<1> QED BY <1>6, <1>15, <1>24 DEF Writes

\* What the state is once a snapshot has been matched with a streamed block.
ConsumedIs(e, st, r) ==
  /\ IsState(e) /\ SameKeys(e, st) /\ e.tools = st.tools
  /\ e.streamed = st.streamed /\ e.overflow = st.overflow /\ e.tracking = st.tracking
  /\ e.consumed = (IF st.tracking /\ Matches(st, r) # {} THEN st.consumed \cup {Match(st, r)}
                   ELSE st.consumed)

LEMMA ConsumedFields ==
  ASSUME NEW st, IsState(st), NEW r, NEW e, e = Consumed(st, r)
  PROVE  ConsumedIs(e, st, r)
<1>1. PICK matched \in BOOLEAN : matched = (st.tracking /\ Matches(st, r) # {})
  OBVIOUS
<1>2. PICK consumed : consumed = st.consumed \cup {Match(st, r)}
  OBVIOUS
<1>3. e = IF matched THEN [st EXCEPT !.consumed = consumed] ELSE st
  BY <1>1, <1>2 DEF Consumed
<1>4. CASE matched
  <2>1. e = [streamed |-> st.streamed, consumed |-> consumed, overflow |-> st.overflow,
             tracking |-> st.tracking, ordinals |-> st.ordinals, seen |-> st.seen,
             previous |-> st.previous, tools |-> st.tools]
    BY <1>3, <1>4 DEF IsState
  <2>2. /\ IsState(e) /\ SameKeys(e, st) /\ e.tools = st.tools
        /\ e.streamed = st.streamed /\ e.overflow = st.overflow /\ e.tracking = st.tracking
        /\ e.consumed = consumed
    BY <2>1 DEF IsState, SameKeys
  <2> QED BY <1>1, <1>2, <1>4, <2>2, Zenon DEF ConsumedIs
<1>5. CASE ~matched
  <2>1. e = st /\ SameKeys(e, st)
    BY <1>3, <1>5 DEF SameKeys
  <2> QED BY <1>1, <1>5, <2>1, Zenon DEF ConsumedIs
<1> QED BY <1>4, <1>5

\* What a snapshot of a text says in the state that knows its key.
SnapshotSaid(d, st, r) ==
  /\ d.st = Consumed(st, r) /\ d.text = (IF r.kind = "text" THEN Suffix(st, r) ELSE NoText)
  /\ d.tools = <<>> /\ d.over = FALSE

LEMMA SnapshotFields ==
  ASSUME NEW st0, NEW r, NEW st, st = AfterKeys(st0, r), ~KeySeen(st0, r), r.kind # "tool_use",
         NEW d, d = Snapshot(st0, r)
  PROVE  SnapshotSaid(d, st, r)
<1>1. PICK text : text = IF r.kind = "text" THEN Suffix(st, r) ELSE NoText
  OBVIOUS
<1>2. PICK q : q = Quiet(Consumed(st, r))
  OBVIOUS
<1>3. d = [q EXCEPT !.text = text]
  BY <1>1, <1>2, SnapshotIs
<1>4. q.st = Consumed(st, r) /\ q.tools = <<>> /\ q.over = FALSE
  BY <1>2, QuietFields
<1>5. DOMAIN q = {"st", "text", "tools", "over"}
  BY <1>2 DEF Quiet
<1>6. d.st = q.st /\ d.text = text /\ d.tools = q.tools /\ d.over = q.over
  BY <1>3, <1>5
<1> QED BY <1>1, <1>4, <1>6, Zenon DEF SnapshotSaid

LEMMA TrackOfSameText ==
  ASSUME NEW st, TrackOK(st), NEW e, SameText(e, st)
  PROVE  TrackOK(e)
<1>1. /\ e.streamed = st.streamed /\ e.consumed = st.consumed /\ e.overflow = st.overflow
      /\ e.tracking = st.tracking
  BY DEF SameText
<1> SUFFICES ASSUME e.tracking PROVE Indexed(e) /\ (\E p : Paired(e, p))
  BY DEF TrackOK
<1>2. Indexed(st) /\ \E p : Paired(st, p)
  BY <1>1 DEF TrackOK
<1>3. Indexed(e)
  BY <1>1, <1>2 DEF Indexed
<1>4. PICK p : Paired(st, p)
  BY <1>2
<1>5. Paired(e, p)
  BY <1>1, <1>4 DEF Paired, Tracks
<1> QED BY <1>3, <1>5

\* How much is spoken after the snapshot of the oldest block.
LEMMA SpokenAfterSnapshot ==
  ASSUME ProviderInv, SendSnapshot
  PROVE  /\ (Len(open) > 1 \/ open[1].kind # "text") => Spoken' = Spoken
         /\ (Len(open) = 1 /\ open[1].kind = "text") =>
              /\ Spoken' = Len(said) /\ Spoken = Len(said) - Len(open[1].text) + open[1].sent
              /\ EndsIn(said, open[1])
<1>1. said' = said
  BY DEF SendSnapshot
<1>2. /\ Len(open) \in Nat \ {0} /\ Len(open') = Len(open) - 1 /\ open' \in Seq(Block)
      /\ Len(open) > 1 => open' # <<>> /\ Last(open') = Last(open)
  BY SnapshotFacts
<1>3. open # <<>> /\ Last(open) = open[Len(open)]
  BY <1>2, OpenFacts DEF ProviderInv
<1>4. CASE Len(open) > 1
  <2>1. Spoken' = Spoken
    BY <1>1, <1>2, <1>3, <1>4 DEF Spoken
  <2> QED BY <1>2, <1>4, <2>1
<1>5. CASE Len(open) = 1
  <2>1. open' = <<>>
    BY <1>2, <1>5
  <2>2. Spoken' = Len(said)
    BY <1>1, <2>1 DEF Spoken
  <2>3. Last(open) = open[1]
    BY <1>3, <1>5
  <2>4. open[1].kind # "text" => Spoken = Len(said)
    BY <1>3, <2>3, SpokenIs
  <2>5. open[1].kind = "text" => Spoken = Len(said) - Len(open[1].text) + open[1].sent
    BY <1>3, <2>3, SpokenIs
  <2>6. open[1].kind = "text" => EndsIn(said, open[1])
    BY <1>3, <2>3 DEF ProviderInv, SaidInOrder
  <2> QED BY <1>5, <2>2, <2>4, <2>5, <2>6
<1> QED BY <1>2, <1>4, <1>5

\* A snapshot says what comes next.
LEMMA SnapshotContinues ==
  ASSUME ProviderInv, SendSnapshot, NEW st, st.tracking \in BOOLEAN, TrackOK(st), NEW over \in BOOLEAN,
         (~st.tracking \/ st.overflow # {}) => over,
         NEW r, r = FirstSnapshot, open[1].kind = "text",
         NEW t, t = Suffix(st, r), NEW s, s = Spoken, NEW z, z = Spoken'
  PROVE  t \in Seq(Char) /\ Continues(t, s, z, over, said)
<1>1. /\ 1 \in 1..Len(open) /\ open[1].sent \in Nat /\ Len(open[1].text) \in Nat
      /\ open[1].text \in Seq(Char) /\ open[1].sent <= Len(open[1].text)
  BY FirstBegun, OpenTexts DEF Block
<1>2. PICK b : b = open[1]
  OBVIOUS
<1>3. <<>> \in Seq(Char) /\ NoText = <<>>
  BY EmptyIsText
<1>4. CASE ~st.tracking \/ (st.overflow # {} /\ t = NoText)
  <2>1. t = <<>>
    BY <1>3, <1>4 DEF Suffix
  <2>2. over
    BY <1>4
  <2> QED BY <1>3, <2>1, <2>2 DEF Continues
<1>5. CASE st.tracking /\ ~(st.overflow # {} /\ t = NoText)
  <2>1. t = SubSeq(b.text, b.sent + 1, Len(b.text))
    BY <1>2, <1>5, SnapshotSays
  <2>2. b.text \in Seq(Char) /\ b.sent \in Nat /\ Len(b.text) \in Nat /\ b.sent <= Len(b.text)
    BY <1>1, <1>2
  <2>3. t \in Seq(Char)
    BY <2>1, <2>2
  <2>4. Len(t) = Len(b.text) - b.sent
    BY <2>1, <2>2
  <2>5. \A k \in 1..Len(t) : t[k] = b.text[b.sent + k] /\ b.sent + k \in 1..Len(b.text)
    <3> SUFFICES ASSUME NEW k \in 1..Len(t) PROVE t[k] = b.text[b.sent + k] /\ b.sent + k \in 1..Len(b.text)
      OBVIOUS
    <3>1. k \in Nat /\ k >= 1 /\ k <= Len(b.text) - b.sent
      BY <2>2, <2>4
    <3>2. t[k] = b.text[(b.sent + 1) + k - 1]
      BY <2>1, <2>2, <3>1
    <3>3. (b.sent + 1) + k - 1 = b.sent + k /\ b.sent + k \in 1..Len(b.text)
      BY <2>2, <3>1
    <3> QED BY <3>2, <3>3
  <2>6. CASE Len(open) > 1
    <3>1. s = z
      BY <2>6, SpokenAfterSnapshot
    <3>2. Streamed(b)
      BY <1>2, <2>6, FirstBegun
    <3>3. Len(t) = 0
      BY <2>2, <2>4, <3>2 DEF Streamed
    <3>4. t = <<>>
      BY <2>3, <3>3
    <3> QED BY <2>3, <3>1, <3>4 DEF Continues
  <2>7. CASE ~(Len(open) > 1)
    <3>1. Len(open) = 1
      <4>1. PICK n \in Nat \ {0} : n = Len(open)
        BY SnapshotFacts
      <4>2. ~(n > 1)
        BY <2>7, <4>1
      <4>3. n = 1
        BY <4>2
      <4> QED BY <4>1, <4>3
    <3>2. z = Len(said) /\ s = Len(said) - Len(b.text) + b.sent /\ EndsIn(said, b)
      BY <1>2, <3>1, SpokenAfterSnapshot
    <3>3. Len(said) \in Nat /\ Len(b.text) <= Len(said)
      BY <3>2, MessageFacts DEF ProviderInv, EndsIn
    <3>4. Len(t) = z - s
      <4>1. PICK n \in Nat, l \in Nat : n = Len(said) /\ l = Len(b.text)
        BY <2>2, <3>3
      <4>2. z - s = n - (n - l + b.sent)
        BY <3>2, <4>1, Zenon
      <4>3. n - (n - l + b.sent) = l - b.sent
        BY <2>2, <4>1
      <4> QED BY <2>4, <4>1, <4>2, <4>3
    <3>5. ASSUME NEW k \in 1..Len(t) PROVE t[k] = said[s + k] /\ t[k].n = s + k
      <4>1. t[k] = b.text[b.sent + k] /\ b.sent + k \in 1..Len(b.text) /\ k \in Nat
        BY <2>2, <2>4, <2>5
      <4>2. PICK j : j = b.sent + k
        OBVIOUS
      <4>3. b.text[j] = said[Len(said) - Len(b.text) + j]
        BY <3>2, <4>1, <4>2 DEF EndsIn
      <4>4. Len(said) - Len(b.text) + j = s + k
        BY <2>2, <3>2, <3>3, <4>1, <4>2
      <4>5. s + k \in 1..Len(said)
        <5>1. PICK n \in Nat, l \in Nat : n = Len(said) /\ l = Len(b.text) /\ l <= n
          BY <2>2, <3>3
        <5>2. j \in 1..l
          BY <4>1, <4>2, <5>1
        <5>3. n - l + j \in 1..n
          BY <5>1, <5>2
        <5> QED BY <4>4, <5>1, <5>3
      <4>6. said[s + k].n = s + k
        BY <4>5 DEF ProviderInv, SaidInOrder
      <4> QED BY <4>1, <4>2, <4>3, <4>4, <4>6
    <3> QED BY <2>3, <3>4, <3>5 DEF Continues
  <2> QED BY <2>6, <2>7
<1> QED BY <1>4, <1>5

LEMMA SendSnapshotRuns ==
  ASSUME ProviderInv, CallsFit, NEW c, Consistent(c), SendSnapshot
  PROVE  Writes(c)
<1>1. PICK r : r = FirstSnapshot
  OBVIOUS
<1>2. /\ Len(open) \in Nat \ {0} /\ open[1] \in Block /\ r \in Records /\ Write(r)
      /\ Len(open') = Len(open) - 1
      /\ \A i \in 1..Len(open') : i + 1 \in 1..Len(open) /\ open'[i] = open[i + 1]
  BY <1>1, SnapshotFacts
<1>3. /\ r.nested = FALSE /\ r.type = "assistant" /\ "assistant" \in Types /\ r.id = message.id
      /\ r.kind = open[1].kind /\ r.text = open[1].text
      /\ pipe' = Append(pipe, r) /\ sent' = r /\ UNCHANGED decoder
  BY <1>1, <1>2, RecordFields, Literals DEF FirstSnapshot, Write
<1>4. open[1].kind \in {"text", "thinking"} /\ r.kind # "tool_use" /\ open # <<>>
  BY <1>2, <1>3 DEF Block
<1>5. message' = message /\ calls' = calls /\ said' = said
  BY DEF SendSnapshot
<1>6. IsConfig(c) /\ TextOK(c.text, c.over) /\ OverOK(c) /\ TrackOK(c.st) /\ KeysOK(c.st) /\ ToolsOK(c)
  BY DEF Consistent
<1>7. IsState(c.st) /\ c.st.tracking \in BOOLEAN /\ c.text \in Seq(Char) /\ c.over \in BOOLEAN
  BY <1>6 DEF IsConfig, IsState
<1>8. KeysFit(c.st)
  BY <1>6 DEF KeysOK
<1>9. ~IsRepeated(c.st, r)
  <2> SUFFICES ASSUME IsRepeated(c.st, r) PROVE FALSE
    OBVIOUS
  <2>1. message.id \in DOMAIN c.st.previous /\ c.st.previous[message.id][1] = Fingerprint(r)
    BY <1>3 DEF IsRepeated
  <2>2. Fingerprint(r)[2] = Letters(open[1].text)
    BY <1>3 DEF Fingerprint
  <2> QED BY <1>4, <1>6, <2>1, <2>2 DEF KeysOK
<1>10. PICK st : st = AfterKeys(c.st, r)
  OBVIOUS
<1>11. /\ IsState(st) /\ SameText(st, c.st) /\ st.tools = c.st.tools /\ KeysFit(st)
       /\ DOMAIN st.ordinals \subseteq DOMAIN c.st.ordinals \cup {r.id}
       /\ r.id \in DOMAIN st.previous /\ st.previous[r.id][1] = Fingerprint(r)
       /\ ~KeySeen(c.st, r)
  BY <1>2, <1>7, <1>8, <1>9, <1>10, FreshKey
<1>12. PICK d : d = ClaudeEvents(c.st, r, Len(c.text))
  OBVIOUS
<1>13. d = Snapshot(c.st, r)
  BY <1>3, <1>6, <1>12, ParentRecord
<1>14. SnapshotSaid(d, st, r)
  BY <1>4, <1>10, <1>11, <1>13, SnapshotFields
<1>15. ConsumedIs(d.st, st, r)
  BY <1>11, <1>14, ConsumedFields DEF SnapshotSaid
<1>16. st.tracking = c.st.tracking /\ st.overflow = c.st.overflow /\ TrackOK(st)
  BY <1>6, <1>11, TrackOfSameText DEF SameText
<1>17. (~st.tracking \/ st.overflow # {}) => c.over
  BY <1>6, <1>16 DEF OverOK
<1>18. PICK s \in Nat, z \in Nat : s = Spoken /\ z = Spoken' /\ s <= z
  <2>1. Spoken \in Nat /\ Spoken <= Len(said) /\ Len(said) \in Nat
    BY SpokenIs
  <2>2. Spoken' = Spoken \/ Spoken' = Len(said)
    BY <1>2, SpokenAfterSnapshot
  <2> QED BY <2>1, <2>2
<1>19. open[1].kind = "text" => d.text \in Seq(Char) /\ Continues(d.text, s, z, c.over, said)
  <2> SUFFICES ASSUME open[1].kind = "text"
               PROVE  d.text \in Seq(Char) /\ Continues(d.text, s, z, c.over, said)
    OBVIOUS
  <2>1. d.text = Suffix(st, r)
    BY <1>3, <1>14 DEF SnapshotSaid
  <2>2. PICK t, over : t = d.text /\ over = c.over
    OBVIOUS
  <2>3. t \in Seq(Char) /\ Continues(t, s, z, over, said)
    BY <1>1, <1>7, <1>16, <1>17, <1>18, <2>1, <2>2, SnapshotContinues
  <2> QED BY <2>2, <2>3
<1>20. open[1].kind # "text" => d.text = <<>> /\ s = z
  BY <1>3, <1>14, <1>18, SpokenAfterSnapshot, EmptyIsText DEF SnapshotSaid
<1>21. IsDecoding(d)
  <2>1. d.text \in Seq(Char)
    BY <1>19, <1>20, EmptyIsText
  <2>2. IsState(d.st)
    BY <1>15 DEF ConsumedIs
  <2>3. d.tools \in Seq(Nat)
    BY <1>14 DEF SnapshotSaid
  <2>4. d.over \in BOOLEAN
    BY <1>14 DEF SnapshotSaid
  <2> QED BY <2>1, <2>2, <2>3, <2>4 DEF IsDecoding
<1>22. PICK e : e = Decodes(c, r)
  OBVIOUS
<1>23. Follows(e, c, d)
  BY <1>6, <1>12, <1>21, <1>22, ConfigDecodes
<1>24. /\ IsConfig(e) /\ e.st = d.st /\ e.text = c.text \o d.text /\ e.tools = c.tools /\ e.over = c.over
  <2>1. d.over = FALSE /\ d.tools = <<>>
    BY <1>14 DEF SnapshotSaid
  <2>2. e.over = c.over
    BY <1>7, <1>23, <2>1 DEF Follows
  <2> QED BY <1>23, <2>1, <2>2 DEF Follows
<1>25. TrackOK(e.st)'
  <2>1. TrackOK(d.st)'
    BY <1>1, <1>15, <1>16, SnapshotTracks DEF ConsumedIs
  <2> QED BY <1>24, <2>1
<1>26. TextOK(e.text, e.over)'
  <2>1. PICK text, over, t, new : text = c.text /\ over = c.over /\ t = d.text /\ new = e.text
    OBVIOUS
  <2>2. PICK answer : answer = said
    OBVIOUS
  <2>3. text \in Seq(Char) /\ over \in BOOLEAN /\ t \in Seq(Char)
    BY <1>7, <1>21, <2>1 DEF IsDecoding
  <2>4. SameUpTo(s, answer, answer) /\ Covers(text, over, s, answer)
    BY <1>6, <1>18, <2>1, <2>2 DEF TextOK, SameUpTo
  <2>5. new = text \o t
    BY <1>24, <2>1
  <2>6. Continues(t, s, z, over, answer)
    <3>1. CASE open[1].kind = "text"
      BY <1>19, <2>1, <2>2, <3>1
    <3>2. CASE open[1].kind # "text"
      BY <1>20, <2>1, <3>2 DEF Continues
    <3> QED BY <3>1, <3>2
  <2>7. Covers(new, over, z, answer)
    <3>1. GoesOn(text, over, s, answer, t, z, over, answer)
      BY <1>18, <2>3, <2>4, <2>6, Zenon DEF GoesOn
    <3> QED BY <2>5, <3>1, TextWentOn, Zenon
  <2>8. Covers(e.text, e.over, z, said')
    BY <1>5, <1>24, <2>1, <2>2, <2>7
  <2> QED BY <1>18, <2>8 DEF TextOK
<1>27. KeysOK(e.st)'
  <2>1. e.st.ordinals = st.ordinals /\ e.st.seen = st.seen /\ e.st.previous = st.previous
    BY <1>15, <1>24 DEF ConsumedIs, SameKeys
  <2>2. KeysFit(e.st)
    BY <1>11, <2>1 DEF KeysFit
  <2>3. message.id \in Nat
    BY MessageFacts DEF ProviderInv
  <2>4. \A i \in DOMAIN e.st.ordinals : i <= message.id
    BY <1>3, <1>6, <1>11, <2>1, <2>3 DEF KeysOK
  <2>5. sent'.id \in DOMAIN e.st.previous /\ e.st.previous[sent'.id][1] = Fingerprint(sent')
    BY <1>3, <1>11, <2>1
  <2>6. e.st.previous[message.id][1][2] = Letters(open[1].text)
    <3>1. e.st.previous[message.id][1] = Fingerprint(r)
      BY <1>3, <1>11, <2>1
    <3> QED BY <1>3, <3>1 DEF Fingerprint
  <2>7. open' # <<>> => Letters(open[1].text) # Letters(open'[1].text)
    <3> SUFFICES ASSUME open' # <<>> PROVE Letters(open[1].text) # Letters(open'[1].text)
      OBVIOUS
    <3>1. open' \in Seq(Block)
      BY SnapshotFacts
    <3>2. 1 \in 1..Len(open')
      BY <3>1
    <3>3. open'[1] = open[2] /\ 1 \in 1..Len(open) - 1
      BY <1>2, <3>2
    <3>4. Letters(open[1].text) # Letters(open[1 + 1].text)
      BY <3>3 DEF ProviderInv, BlocksFit
    <3> QED BY <3>3, <3>4
  <2>8. open' = <<>> => Letters(open[1].text) = message.last
    <3> SUFFICES ASSUME open' = <<>> PROVE Letters(open[1].text) = message.last
      OBVIOUS
    <3>1. Len(open) = 1
      BY <1>2
    <3>2. Last(open) = open[1]
      BY <3>1, OpenFacts DEF ProviderInv
    <3> QED BY <1>4, <3>2 DEF ProviderInv, BlocksFit
  <2> QED BY <1>5, <2>2, <2>4, <2>5, <2>6, <2>7, <2>8 DEF KeysOK, KeysFit
<1>28. ToolsOK(e)'
  <2>1. e.st.tools = c.st.tools /\ (c.over => e.over)
    BY <1>11, <1>15, <1>24 DEF ConsumedIs
  <2> QED BY <1>5, <1>6, <1>24, <2>1, ToolsSame
<1>29. OverOK(e)
  <2>1. e.st.tracking = st.tracking /\ e.st.overflow = st.overflow
    BY <1>15, <1>24 DEF ConsumedIs
  <2> QED BY <1>17, <1>24, <2>1 DEF OverOK
<1>30. Consistent(e)'
  BY <1>24, <1>25, <1>26, <1>27, <1>28, <1>29 DEF Consistent, IsConfig, IsState, OverOK
<1> QED BY <1>3, <1>22, <1>30 DEF Writes

\* A record that says no text leaves the text of the run as it is.
LEMMA TextStays ==
  ASSUME ProviderInv, NEW c, Consistent(c), NEW e, e.text = c.text, c.over => e.over,
         SameText(e.st, c.st), open' = open, said' = said, message'.blocks \in Nat,
         message'.streams = message.streams, message.blocks <= message'.blocks
  PROVE  TextOK(e.text, e.over)' /\ TrackOK(e.st)' /\ OverOK(e)
<1>1. TextOK(c.text, c.over) /\ OverOK(c) /\ TrackOK(c.st)
  BY DEF Consistent
<1>2. TextOK(e.text, e.over)'
  BY <1>1, TextSame
<1>3. message.blocks \in Nat
  BY MessageFacts DEF ProviderInv
<1>4. TrackOK(e.st)'
  BY <1>1, <1>3, TrackSame
<1>5. OverOK(e)
  BY <1>1 DEF OverOK, SameText
<1> QED BY <1>2, <1>4, <1>5

\* A record that is decoded without a trace.
LEMMA SilentWrite ==
  ASSUME ProviderInv, NEW c, Consistent(c), NEW r, pipe' = Append(pipe, r), UNCHANGED decoder,
         ClaudeEvents(c.st, r, Len(c.text)) = Quiet(c.st),
         message' = message, open' = open, said' = said, calls' \subseteq calls,
         sent'.type = "assistant" => sent' = sent
  PROVE  Writes(c)
<1>1. PICK e : e = Decodes(c, r)
  OBVIOUS
<1>2. IsConfig(c) /\ KeysOK(c.st) /\ ToolsOK(c)
  BY DEF Consistent
<1>3. e = c
  BY <1>1, <1>2, QuietDecodes
<1>4. TextOK(c.text, c.over)' /\ TrackOK(c.st)' /\ OverOK(c)
  <2>1. SameText(c.st, c.st)
    BY DEF SameText
  <2>2. message'.blocks \in Nat /\ message.blocks <= message'.blocks
    BY MessageFacts DEF ProviderInv
  <2> QED BY <2>1, <2>2, TextStays
<1>5. KeysOK(c.st)'
  <2>1. SameKeys(c.st, c.st)
    BY DEF SameKeys
  <2> QED BY <1>2, <2>1, KeysSame
<1>6. ToolsOK(c)'
  BY <1>2, ToolsSame
<1>7. Consistent(c)'
  BY <1>2, <1>4, <1>5, <1>6 DEF Consistent, IsConfig, IsState, OverOK
<1>8. Consistent(e)'
  BY <1>3, <1>7
<1> QED BY <1>1, <1>8 DEF Writes

LEMMA RepeatSnapshotRuns ==
  ASSUME ProviderInv, CallsFit, NEW c, Consistent(c), RepeatSnapshot
  PROVE  Writes(c)
<1>1. /\ sent.type = "assistant" /\ pipe' = Append(pipe, sent) /\ sent' = sent /\ UNCHANGED decoder
      /\ message' = message /\ open' = open /\ calls' = calls /\ said' = said
  BY DEF RepeatSnapshot, Write
<1>2. IsConfig(c) /\ KeysOK(c.st) /\ IsState(c.st) /\ KeysFit(c.st)
  BY DEF Consistent, KeysOK, IsConfig
<1>3. IsRepeated(c.st, sent)
  BY <1>1, <1>2 DEF KeysOK, IsRepeated
<1>4. AfterKeys(c.st, sent) = c.st /\ KeySeen(c.st, sent)
  BY <1>2, <1>3, RepeatedKey
<1>5. Snapshot(c.st, sent) = Quiet(c.st)
  BY <1>4, SnapshotIs
<1>6. ClaudeEvents(c.st, sent, Len(c.text)) = Quiet(c.st)
  <2>1. CASE sent.nested
    BY <2>1 DEF ClaudeEvents
  <2>2. CASE ~sent.nested
    BY <1>1, <1>5, <2>2, EventsByType
  <2> QED BY <2>1, <2>2
<1> QED BY <1>1, <1>6, SilentWrite

LEMMA WriteNestedRuns ==
  ASSUME ProviderInv, CallsFit, NEW c, Consistent(c), NEW type, WriteNested(type)
  PROVE  Writes(c)
<1>1. PICK q : q = Record(type, "text", Numbered(message.last, 0), 0, 0)
  OBVIOUS
<1>2. PICK yes \in BOOLEAN : yes = TRUE
  OBVIOUS
<1>3. PICK r : r = [q EXCEPT !.nested = yes]
  OBVIOUS
<1>4. pipe' = Append(pipe, r) /\ UNCHANGED <<provider, decoder>>
  BY <1>1, <1>2, <1>3 DEF WriteNested
<1>5. "nested" \in DOMAIN q
  BY <1>1 DEF Record
<1>6. r.nested = yes
  BY <1>3, <1>5
<1>7. ClaudeEvents(c.st, r, Len(c.text)) = Quiet(c.st)
  BY <1>2, <1>6 DEF ClaudeEvents
<1>8. message' = message /\ open' = open /\ calls' = calls /\ said' = said /\ sent' = sent
  BY <1>4 DEF provider
<1>9. UNCHANGED decoder
  BY <1>4
<1> QED BY <1>4, <1>7, <1>8, <1>9, SilentWrite

LEMMA KilledRuns ==
  ASSUME ProviderInv, CallsFit, NEW c, Consistent(c), Killed
  PROVE  Writes(c)
<1>1. PICK r : r = Record("torn", "none", NoText, 0, 0)
  OBVIOUS
<1>2. Write(r) /\ message' = message /\ open' = open /\ calls' = calls /\ said' = said
  BY <1>1 DEF Killed
<1>3. pipe' = Append(pipe, r) /\ sent' = r /\ UNCHANGED decoder
  BY <1>2 DEF Write
<1>4. ~r.nested /\ r.type = "torn"
  BY <1>1, RecordFields
<1>5. ClaudeEvents(c.st, r, Len(c.text)) = Quiet(c.st)
  BY <1>4, EventsByType
<1> QED BY <1>2, <1>3, <1>4, <1>5, SilentWrite

-----------------------------------------------------------------------------
(* Tools.                                                                  *)

\* A tool is called that the run remembers if it has started it.
LEMMA ToolsCalled ==
  ASSUME NEW c, ToolsOK(c), NEW e, e.tools = c.tools, c.over => e.over, e.st.tools = c.st.tools,
         message'.id = message.id, message.blocks > 0 => message'.blocks > 0,
         NEW tool, calls' \subseteq calls \cup {tool},
         ~c.over => \A i \in 1..Len(c.tools) : c.tools[i] = tool => tool \in c.st.tools
  PROVE  ToolsOK(e)'
BY DEF ToolsOK, Once

\* A tool is started.
LEMMA ToolAdded ==
  ASSUME NEW c, IsConfig(c), ToolsOK(c), NEW e, NEW tool \in Nat, e.tools = c.tools \o <<tool>>,
         c.over => e.over, ~e.over => tool \in e.st.tools, c.st.tools \subseteq e.st.tools,
         ~c.over => \A i \in 1..Len(c.tools) : c.tools[i] # tool,
         tool <= message.id, message'.blocks > 0, message'.id = message.id,
         calls' \subseteq calls \cup {tool}
  PROVE  ToolsOK(e)'
<1> SUFFICES ASSUME ~e.over
             PROVE  /\ Once(e.tools)
                    /\ \A i \in 1..Len(e.tools) :
                         /\ e.tools[i] <= message'.id
                         /\ e.tools[i] = message'.id => message'.blocks > 0
                         /\ e.tools[i] \in calls' => e.tools[i] \in e.st.tools
  BY DEF ToolsOK, Once
<1>1. c.tools \in Seq(Nat) /\ <<tool>> \in Seq(Nat) /\ Len(<<tool>>) = 1 /\ <<tool>>[1] = tool
  BY DEF IsConfig
<1>2. PICK n : n = e.tools
  OBVIOUS
<1>3. JoinOf(n, c.tools, <<tool>>)
  BY <1>1, <1>2, Concatenated
<1>4. Len(c.tools) \in Nat /\ Len(n) = Len(c.tools) + 1
  BY <1>1, <1>3 DEF JoinOf
<1>5. (\A k \in 1..Len(c.tools) : n[k] = c.tools[k]) /\ n[Len(c.tools) + 1] = tool
  BY <1>1, <1>3 DEF JoinOf
<1>6. \A i \in 1..Len(n) : i \in 1..Len(c.tools) \/ i = Len(c.tools) + 1
  BY <1>4
<1>7. /\ Once(c.tools)
      /\ \A i \in 1..Len(c.tools) :
           /\ c.tools[i] <= message.id /\ c.tools[i] # tool
           /\ c.tools[i] \in calls => c.tools[i] \in c.st.tools
  BY DEF ToolsOK
<1>8. Once(n)
  <2> SUFFICES ASSUME NEW i \in 1..Len(n), NEW k \in 1..Len(n), n[i] = n[k] PROVE i = k
    BY DEF Once
  <2>1. CASE i \in 1..Len(c.tools) /\ k \in 1..Len(c.tools)
    BY <1>5, <1>7, <2>1 DEF Once
  <2>2. CASE i \in 1..Len(c.tools) /\ k = Len(c.tools) + 1
    BY <1>5, <1>7, <2>2
  <2>3. CASE i = Len(c.tools) + 1 /\ k \in 1..Len(c.tools)
    BY <1>5, <1>7, <2>3
  <2>4. CASE i = Len(c.tools) + 1 /\ k = Len(c.tools) + 1
    BY <2>4
  <2> QED BY <1>6, <2>1, <2>2, <2>3, <2>4
<1>9. ASSUME NEW i \in 1..Len(n)
      PROVE  /\ n[i] <= message'.id
             /\ n[i] = message'.id => message'.blocks > 0
             /\ n[i] \in calls' => n[i] \in e.st.tools
  <2>1. CASE i \in 1..Len(c.tools)
    BY <1>5, <1>7, <2>1
  <2>2. CASE i = Len(c.tools) + 1
    BY <1>5, <2>2
  <2> QED BY <1>6, <2>1, <2>2
<1> QED BY <1>2, <1>8, <1>9

\* The block of the message is a tool, of which the record r tells.
ToolBlock(r, tool) ==
  /\ open = <<>> /\ open' = open /\ said' = said /\ calls' \subseteq calls \cup {tool}
  /\ message'.id = message.id /\ message'.streams = message.streams /\ message'.blocks = NumBlocks
  /\ r \in Records /\ r.tool = tool /\ r.nested = FALSE /\ r.id = message.id
  /\ pipe' = Append(pipe, r) /\ sent' = r /\ UNCHANGED decoder
  /\ tool <= message.id

LEMMA ToolBlockRuns ==
  ASSUME ProviderInv, CallsFit, NEW c, Consistent(c), NEW r, NEW tool, ToolBlock(r, tool),
         NEW e, e = Decodes(c, r), IsConfig(e), e.text = c.text, c.over => e.over,
         SameText(e.st, c.st), KeysFit(e.st),
         DOMAIN e.st.ordinals \subseteq DOMAIN c.st.ordinals \cup {message.id},
         r.type = "assistant" => r.id \in DOMAIN e.st.previous /\ e.st.previous[r.id][1] = Fingerprint(r),
         ToolsOK(e)'
  PROVE  Writes(c)
<1>1. message.id \in Nat /\ message.blocks \in Nat /\ NumBlocks \in Nat /\ message.blocks <= NumBlocks
  BY MessageFacts, Bounds DEF ProviderInv, CallsFit
<1>2. TextOK(e.text, e.over)' /\ TrackOK(e.st)' /\ OverOK(e)
  BY <1>1, TextStays DEF ToolBlock
<1>3. \A i \in DOMAIN e.st.ordinals : i <= message.id
  BY <1>1 DEF Consistent, KeysOK
<1>4. ~(message'.blocks < NumBlocks) /\ open' = <<>>
  BY <1>1 DEF ToolBlock
<1>5. KeysOK(e.st)'
  BY <1>3, <1>4 DEF KeysOK, KeysFit, ToolBlock
<1>6. Consistent(e)'
  BY <1>2, <1>5 DEF Consistent, IsConfig, IsState, OverOK
<1> QED BY <1>6 DEF Writes, ToolBlock

\* The tool of a content block: it is started.
LEMMA ToolStartRuns ==
  ASSUME ProviderInv, CallsFit, NEW c, Consistent(c), NEW r, NEW tool \in Nat, ToolBlock(r, tool),
         r.type = "tool_start", ~c.over => \A i \in 1..Len(c.tools) : c.tools[i] # tool
  PROVE  Writes(c)
<1>1. IsConfig(c) /\ IsState(c.st) /\ KeysOK(c.st) /\ KeysFit(c.st) /\ ToolsOK(c) /\ c.over \in BOOLEAN
  BY DEF Consistent, KeysOK, IsConfig
<1>2. PICK d : d = ClaudeEvents(c.st, r, Len(c.text))
  OBVIOUS
<1>3. d = ToolStart(c.st, tool)
  <2>1. "tool_start" \in Types
    BY Literals
  <2> QED BY <1>1, <1>2, <2>1, ParentRecord DEF ToolBlock
<1>4. /\ IsState(d.st) /\ SameText(d.st, c.st) /\ SameKeys(d.st, c.st)
      /\ c.st.tools \subseteq d.st.tools
      /\ d.text = <<>> /\ d.tools = <<tool>> /\ d.over = (tool \notin d.st.tools)
  BY <1>1, <1>3, ToolStartFields
<1>5. IsDecoding(d)
  <2>1. d.text \in Seq(Char)
    BY <1>4, EmptyIsText
  <2>2. d.tools \in Seq(Nat)
    BY <1>4
  <2>3. d.over \in BOOLEAN
    BY <1>4
  <2> QED BY <1>4, <2>1, <2>2, <2>3 DEF IsDecoding
<1>6. PICK e : e = Decodes(c, r)
  OBVIOUS
<1>7. Follows(e, c, d)
  BY <1>1, <1>2, <1>5, <1>6, ConfigDecodes
<1>8. /\ IsConfig(e) /\ e.st = d.st /\ e.text = c.text /\ e.tools = c.tools \o <<tool>>
      /\ c.over => e.over
      /\ ~e.over => tool \in e.st.tools
  <2>1. e.over = (c.over \/ tool \notin d.st.tools)
    BY <1>4, <1>7 DEF Follows
  <2>2. /\ IsConfig(e) /\ e.st = d.st /\ e.text = c.text /\ e.tools = c.tools \o <<tool>>
    BY <1>4, <1>7 DEF Follows
  <2>3. c.over => e.over
    BY <2>1
  <2>4. ~e.over => tool \in e.st.tools
    BY <2>1, <2>2
  <2> QED BY <2>2, <2>3, <2>4
<1>9. ToolsOK(e)'
  <2>1. message'.blocks > 0 /\ message'.id = message.id /\ tool <= message.id /\ calls' \subseteq calls \cup {tool}
    BY Bounds DEF ToolBlock
  <2>2. c.st.tools \subseteq e.st.tools
    BY <1>4, <1>8
  <2> QED BY <1>1, <1>8, <2>1, <2>2, ToolAdded
<1>10. SameText(e.st, c.st)
  BY <1>4, <1>8
<1>11. KeysFit(e.st) /\ DOMAIN e.st.ordinals \subseteq DOMAIN c.st.ordinals \cup {message.id}
  <2>1. e.st.ordinals = c.st.ordinals /\ e.st.seen = c.st.seen /\ e.st.previous = c.st.previous
    BY <1>4, <1>8 DEF SameKeys
  <2>2. KeysFit(e.st)
    BY <1>1, <2>1 DEF KeysFit
  <2> QED BY <2>1, <2>2
<1> QED BY <1>6, <1>8, <1>9, <1>10, <1>11, ToolBlockRuns

\* What the snapshot of a tool leaves, whether or not the tool is started.
LEMMA ToolSnapshotQuiet ==
  ASSUME ProviderInv, CallsFit, NEW c, Consistent(c), NEW r, NEW tool \in Nat, ToolBlock(r, tool),
         ~c.over => \A i \in 1..Len(c.tools) : c.tools[i] = tool => tool \in c.st.tools,
         NEW st, ClaudeEvents(c.st, r, Len(c.text)) = Quiet(st),
         IsState(st), SameText(st, c.st), st.tools = c.st.tools, KeysFit(st),
         DOMAIN st.ordinals \subseteq DOMAIN c.st.ordinals \cup {message.id},
         r.id \in DOMAIN st.previous /\ st.previous[r.id][1] = Fingerprint(r)
  PROVE  Writes(c)
<1>1. IsConfig(c) /\ ToolsOK(c) /\ c.over \in BOOLEAN
  BY DEF Consistent, IsConfig
<1>2. PICK d : d = ClaudeEvents(c.st, r, Len(c.text))
  OBVIOUS
<1>3. d.st = st /\ d.text = <<>> /\ d.tools = <<>> /\ d.over = FALSE
  BY <1>2, QuietFields, Zenon
<1>4. PICK e : e = Decodes(c, r)
  OBVIOUS
<1>5. IsDecoding(d)
  <2>1. d.over \in BOOLEAN /\ IsState(d.st)
    BY <1>3
  <2> QED BY <1>3, <2>1, SilentDecoding
<1>6. Follows(e, c, d)
  BY <1>1, <1>2, <1>4, <1>5, ConfigDecodes
<1>7. IsConfig(e) /\ e.st = st /\ e.text = c.text /\ e.tools = c.tools /\ (c.over => e.over)
  BY <1>3, <1>6 DEF Follows
<1>8. ToolsOK(e)'
  <2>1. /\ message'.blocks > 0 /\ message'.id = message.id
        /\ calls' \subseteq calls \cup {tool}
    BY Bounds DEF ToolBlock
  <2>2. e.st.tools = c.st.tools
    BY <1>7
  <2> QED BY <1>1, <1>7, <2>1, <2>2, ToolsCalled
<1> QED BY <1>4, <1>7, <1>8, ToolBlockRuns

LEMMA ToolSnapshotRuns ==
  ASSUME ProviderInv, CallsFit, NEW c, Consistent(c), NEW r, NEW tool \in Nat, ToolBlock(r, tool),
         r.type = "assistant", r.kind = "tool_use",
         ~c.over => \A i \in 1..Len(c.tools) : c.tools[i] = tool => tool \in c.st.tools
  PROVE  Writes(c)
<1>1. IsConfig(c) /\ IsState(c.st) /\ KeysOK(c.st) /\ KeysFit(c.st) /\ ToolsOK(c) /\ c.over \in BOOLEAN
  BY DEF Consistent, KeysOK, IsConfig
<1>2. /\ r \in Records /\ r.tool = tool /\ r.id = message.id
      /\ tool <= message.id /\ message'.id = message.id /\ message'.blocks = NumBlocks
      /\ calls' \subseteq calls \cup {tool}
  BY DEF ToolBlock
<1>3. PICK d : d = ClaudeEvents(c.st, r, Len(c.text))
  OBVIOUS
<1>4. d = Snapshot(c.st, r)
  <2>1. "assistant" \in Types
    BY Literals
  <2> QED BY <1>1, <1>3, <2>1, ParentRecord DEF ToolBlock
<1>5. CASE IsRepeated(c.st, r)
  <2>1. d = Quiet(c.st)
    BY <1>1, <1>4, <1>5, RepeatedKey, SnapshotIs
  <2>2. SameText(c.st, c.st)
    BY DEF SameText
  <2>3. DOMAIN c.st.ordinals \subseteq DOMAIN c.st.ordinals \cup {message.id}
    OBVIOUS
  <2>4. r.id \in DOMAIN c.st.previous /\ c.st.previous[r.id][1] = Fingerprint(r)
    BY <1>5 DEF IsRepeated
  <2> QED BY <1>1, <1>3, <2>1, <2>2, <2>3, <2>4, ToolSnapshotQuiet
<1>6. CASE ~IsRepeated(c.st, r)
  <2>1. PICK st : st = AfterKeys(c.st, r)
    OBVIOUS
  <2>2. /\ IsState(st) /\ SameText(st, c.st) /\ st.tools = c.st.tools /\ KeysFit(st)
        /\ DOMAIN st.ordinals \subseteq DOMAIN c.st.ordinals \cup {message.id}
        /\ r.id \in DOMAIN st.previous /\ st.previous[r.id][1] = Fingerprint(r)
        /\ ~KeySeen(c.st, r)
    BY <1>1, <1>2, <1>6, <2>1, FreshKey
  <2>3. d = IF tool \in st.tools THEN Quiet(st) ELSE ToolStart(st, tool)
    BY <1>2, <1>4, <2>1, <2>2, SnapshotIs
  <2>4. CASE tool \in st.tools
    <3>1. d = Quiet(st)
      BY <2>3, <2>4
    <3> QED BY <1>3, <2>2, <3>1, ToolSnapshotQuiet
  <2>5. CASE tool \notin st.tools
    <3>1. d = ToolStart(st, tool)
      BY <2>3, <2>5
    <3>2. /\ IsState(d.st) /\ SameText(d.st, st) /\ SameKeys(d.st, st)
          /\ st.tools \subseteq d.st.tools
          /\ d.text = <<>> /\ d.tools = <<tool>> /\ d.over = (tool \notin d.st.tools)
      BY <2>2, <3>1, ToolStartFields
    <3>3. IsDecoding(d)
      <4>1. d.text \in Seq(Char)
        BY <3>2, EmptyIsText
      <4>2. d.tools \in Seq(Nat)
        BY <3>2
      <4>3. d.over \in BOOLEAN
        BY <3>2
      <4> QED BY <3>2, <4>1, <4>2, <4>3 DEF IsDecoding
    <3>4. PICK e : e = Decodes(c, r)
      OBVIOUS
    <3>5. Follows(e, c, d)
      BY <1>1, <1>3, <3>3, <3>4, ConfigDecodes
    <3>6. IsConfig(e) /\ e.st = d.st /\ e.text = c.text /\ e.tools = c.tools \o <<tool>>
      BY <3>2, <3>5 DEF Follows
    <3>7. e.over = (c.over \/ tool \notin d.st.tools)
      BY <3>2, <3>5 DEF Follows
    <3>8. c.over => e.over
      BY <3>7
    <3>9. ~e.over => tool \in e.st.tools
      BY <3>6, <3>7
    <3>10. ToolsOK(e)'
      <4>1. ~c.over => \A i \in 1..Len(c.tools) : c.tools[i] # tool
        BY <2>2, <2>5
      <4>2. c.st.tools \subseteq e.st.tools
        BY <2>2, <3>2, <3>6
      <4>3. message'.blocks > 0
        BY <1>2, Bounds
      <4> QED BY <1>1, <1>2, <3>6, <3>8, <3>9, <4>1, <4>2, <4>3, ToolAdded
    <3>11. SameText(e.st, c.st)
      BY <2>2, <3>2, <3>6 DEF SameText
    <3>12. /\ KeysFit(e.st) /\ DOMAIN e.st.ordinals \subseteq DOMAIN c.st.ordinals \cup {message.id}
           /\ r.id \in DOMAIN e.st.previous /\ e.st.previous[r.id][1] = Fingerprint(r)
      <4>1. /\ e.st.ordinals = st.ordinals /\ e.st.seen = st.seen
            /\ e.st.previous = st.previous
        BY <3>2, <3>6 DEF SameKeys
      <4>2. KeysFit(e.st)
        BY <2>2, <4>1 DEF KeysFit
      <4> QED BY <2>2, <4>1, <4>2
    <3> QED BY <3>4, <3>6, <3>8, <3>10, <3>11, <3>12, ToolBlockRuns
  <2> QED BY <2>4, <2>5
<1> QED BY <1>5, <1>6

LEMMA CallToolRuns ==
  ASSUME ProviderInv, CallsFit, NEW c, Consistent(c), CallTool
  PROVE  Writes(c)
<1>1. PICK type \in {"tool_start", "assistant"} : type = IF message.streams THEN "tool_start" ELSE "assistant"
  OBVIOUS
<1>2. PICK r : r = Record(type, "tool_use", NoText, message.id, 0)
  OBVIOUS
<1>3. /\ Write(r) /\ open = <<>> /\ message.blocks = 0
      /\ message' = [message EXCEPT !.blocks = NumBlocks]
      /\ calls' = calls \cup {message.id} /\ open' = open /\ said' = said
  BY <1>1, <1>2 DEF CallTool, Settled
<1>4. /\ message'.id = message.id /\ message'.streams = message.streams /\ message'.blocks = NumBlocks
      /\ message.id \in Nat
  BY <1>3, MessageFacts DEF ProviderInv
<1>5. r \in Records
  BY <1>1, <1>2, <1>4, RecordTyped, EmptyIsText, Literals DEF ProviderInv, ProviderTyped
<1>6. r.tool = message.id /\ r.nested = FALSE /\ r.id = message.id /\ r.type = type /\ r.kind = "tool_use"
  BY <1>2, RecordFields
<1>7. ToolBlock(r, message.id)
  BY <1>3, <1>4, <1>5, <1>6 DEF ToolBlock, Write
<1>8. ~c.over => \A i \in 1..Len(c.tools) : c.tools[i] # message.id
  <2>1. ~(message.blocks > 0)
    BY <1>3
  <2> QED BY <2>1 DEF Consistent, ToolsOK
<1>9. CASE type = "tool_start"
  BY <1>4, <1>6, <1>7, <1>8, <1>9, ToolStartRuns
<1>10. CASE type = "assistant"
  BY <1>4, <1>6, <1>7, <1>8, <1>10, ToolSnapshotRuns
<1> QED BY <1>9, <1>10

LEMMA SnapshotToolRuns ==
  ASSUME ProviderInv, CallsFit, NEW c, Consistent(c), SnapshotTool
  PROVE  Writes(c)
<1>1. PICK tool : tool = sent.tool
  OBVIOUS
<1>2. PICK r : r = Record("assistant", "tool_use", NoText, tool, 0)
  OBVIOUS
<1>3. /\ Write(r) /\ sent.type = "tool_start"
      /\ message' = message /\ open' = open /\ calls' = calls /\ said' = said
  BY <1>1, <1>2 DEF SnapshotTool
<1>4. tool \in calls /\ open = <<>> /\ message.blocks = NumBlocks /\ tool <= message.id
  BY <1>1, <1>3 DEF CallsFit
<1>5. tool \in Nat
  BY <1>4 DEF ProviderInv, ProviderTyped
<1>6. r \in Records
  BY <1>2, <1>5, RecordTyped, EmptyIsText, Literals DEF ProviderInv, ProviderTyped
<1>7. r.tool = tool /\ r.nested = FALSE /\ r.id = message.id /\ r.type = "assistant" /\ r.kind = "tool_use"
  BY <1>2, RecordFields
<1>8. ToolBlock(r, tool)
  BY <1>3, <1>4, <1>6, <1>7 DEF ToolBlock, Write
<1>9. ~c.over => \A i \in 1..Len(c.tools) : c.tools[i] = tool => tool \in c.st.tools
  BY <1>4 DEF Consistent, ToolsOK
<1> QED BY <1>5, <1>7, <1>8, <1>9, ToolSnapshotRuns

LEMMA FinishToolRuns ==
  ASSUME ProviderInv, CallsFit, NEW c, Consistent(c), NEW tool \in calls, FinishTool(tool)
  PROVE  Writes(c)
<1>1. PICK r : r = Record("user", "none", NoText, tool, 0)
  OBVIOUS
<1>2. /\ Write(r) /\ calls' = calls \ {tool}
      /\ message' = message /\ open' = open /\ said' = said
  BY <1>1 DEF FinishTool
<1>3. pipe' = Append(pipe, r) /\ sent' = r /\ UNCHANGED decoder
  BY <1>2 DEF Write
<1>4. r.nested = FALSE /\ r.type = "user" /\ r.tool = tool /\ "user" \in Types
  BY <1>1, RecordFields, Literals
<1>5. IsConfig(c) /\ IsState(c.st) /\ KeysOK(c.st) /\ ToolsOK(c) /\ c.over \in BOOLEAN
  BY DEF Consistent, IsConfig
<1>6. PICK d : d = ClaudeEvents(c.st, r, Len(c.text))
  OBVIOUS
<1>7. d = ToolResult(c.st, r)
  BY <1>4, <1>5, <1>6, ParentRecord
<1>8. /\ IsState(d.st) /\ SameText(d.st, c.st) /\ SameKeys(d.st, c.st)
      /\ d.st.tools = c.st.tools \ {tool}
      /\ d.text = <<>> /\ d.tools = <<>> /\ d.over = FALSE
  <2>1. ToolForgotten(d, c.st, r.tool)
    BY <1>5, <1>7, ToolResultFields, Zenon
  <2> QED BY <1>4, <2>1, Zenon DEF ToolForgotten
<1>9. PICK e : e = Decodes(c, r)
  OBVIOUS
<1>10. IsDecoding(d)
  <2>1. d.over \in BOOLEAN
    BY <1>8
  <2> QED BY <1>8, <2>1, SilentDecoding
<1>11. Follows(e, c, d)
  BY <1>5, <1>6, <1>9, <1>10, ConfigDecodes
<1>12. IsConfig(e) /\ e.st = d.st /\ e.text = c.text /\ e.tools = c.tools /\ (c.over => e.over)
  BY <1>8, <1>11 DEF Follows
<1>13. TextOK(e.text, e.over)' /\ TrackOK(e.st)' /\ OverOK(e)
  <2>1. message'.blocks \in Nat /\ message.blocks <= message'.blocks
    BY <1>2, MessageFacts DEF ProviderInv
  <2>2. SameText(e.st, c.st)
    BY <1>8, <1>12
  <2> QED BY <1>2, <1>12, <2>1, <2>2, TextStays
<1>14. KeysOK(e.st)'
  <2>1. SameKeys(e.st, c.st)
    BY <1>8, <1>12
  <2>2. sent'.type # "assistant"
    BY <1>3, <1>4
  <2> QED BY <1>2, <1>5, <2>1, <2>2, KeysSame
<1>15. ToolsOK(e)'
  <2> SUFFICES ASSUME ~e.over
               PROVE  /\ Once(e.tools)
                      /\ \A i \in 1..Len(e.tools) :
                           /\ e.tools[i] <= message'.id
                           /\ e.tools[i] = message'.id => message'.blocks > 0
                           /\ e.tools[i] \in calls' => e.tools[i] \in e.st.tools
    BY DEF ToolsOK, Once
  <2>1. /\ Once(c.tools)
        /\ \A i \in 1..Len(c.tools) :
             /\ c.tools[i] <= message.id
             /\ c.tools[i] = message.id => message.blocks > 0
             /\ c.tools[i] \in calls => c.tools[i] \in c.st.tools
    BY <1>5, <1>12 DEF ToolsOK
  <2>2. e.st.tools = c.st.tools \ {tool}
    BY <1>8, <1>12
  <2> QED BY <1>2, <1>12, <2>1, <2>2
<1>16. Consistent(e)'
  BY <1>12, <1>13, <1>14, <1>15 DEF Consistent, IsConfig, IsState, OverOK
<1> QED BY <1>3, <1>9, <1>16 DEF Writes

-----------------------------------------------------------------------------
(* The terminal result.                                                    *)

ResultSays(d, st, chars, text) ==
  /\ d.st = st /\ d.text = (IF chars = 0 THEN text ELSE <<>>) /\ d.tools = <<>> /\ d.over = FALSE

LEMMA ResultFields ==
  ASSUME NEW st, NEW r, NEW chars, NEW d, d = Result(st, r, chars)
  PROVE  ResultSays(d, st, chars, r.text)
<1>1. PICK text : text = IF chars = 0 THEN r.text ELSE <<>>
  OBVIOUS
<1>2. PICK q : q = Quiet(st)
  OBVIOUS
<1>3. d = [q EXCEPT !.text = text]
  BY <1>1, <1>2 DEF Result, NoText
<1>4. q.st = st /\ q.tools = <<>> /\ q.over = FALSE
  BY <1>2, QuietFields
<1>5. DOMAIN q = {"st", "text", "tools", "over"}
  BY <1>2 DEF Quiet
<1>6. d.st = q.st /\ d.text = text /\ d.tools = q.tools /\ d.over = q.over
  BY <1>3, <1>5
<1> QED BY <1>1, <1>4, <1>6, Zenon DEF ResultSays

\* The text t that a run of the given text adds for the result.
LEMMA ResultGoesOn ==
  ASSUME NEW text \in Seq(Char), NEW over \in BOOLEAN, NEW answer \in Seq(Char),
         NEW answer2 \in Seq(Char), NEW word \in Seq(Char),
         NEW s \in Nat, s = Len(answer), Covers(text, over, s, answer),
         \A k \in 1..s : answer[k].n = k,
         s = 0 => answer2 = word /\ \A k \in 1..Len(word) : word[k].n = k,
         s # 0 => answer2 = answer /\ Len(word) = 1 /\ word[1] = answer[s],
         NEW t, t = (IF Len(text) = 0 THEN word ELSE <<>>), NEW new, new = text \o t
  PROVE  Covers(new, over, Len(answer2), answer2)
<1>1. t \in Seq(Char) /\ Len(text) \in Nat /\ Len(answer2) \in Nat /\ Len(word) \in Nat
  OBVIOUS
<1>2. /\ \A i \in 1..Len(text) : text[i].n \in 1..s
      /\ ~over => Len(text) = s
  BY DEF Covers
<1>3. CASE s = 0
  <2>1. Len(text) = 0
    <3>1. Len(text) > 0 => 1 \in 1..Len(text)
      BY <1>1
    <3>2. Len(text) > 0 => text[1].n \in 1..0
      BY <1>2, <1>3, <3>1
    <3> QED BY <1>1, <3>2
  <2>2. t = word /\ answer2 = word
    BY <1>3, <2>1
  <2>3. PICK z \in Nat : z = Len(answer2)
    BY <1>1
  <2>4. Continues(t, s, z, over, answer2)
    <3>1. Len(t) = z - s
      BY <1>3, <2>2, <2>3
    <3>2. \A k \in 1..Len(t) : t[k] = answer2[s + k] /\ t[k].n = s + k
      BY <1>3, <2>2
    <3> QED BY <3>1, <3>2 DEF Continues
  <2>5. SameUpTo(s, answer, answer2)
    BY <1>3 DEF SameUpTo
  <2>6. s <= z
    BY <1>3
  <2>7. Covers(new, over, z, answer2)
    <3>1. PICK over2 \in BOOLEAN : over2 = over
      OBVIOUS
    <3>2. GoesOn(text, over, s, answer, t, z, over2, answer2)
      BY <1>1, <2>4, <2>5, <2>6, <3>1 DEF GoesOn
    <3>3. Covers(new, over2, z, answer2)
      BY <3>2, TextWentOn, Zenon
    <3> QED BY <3>1, <3>3
  <2> QED BY <2>3, <2>7
<1>4. CASE s # 0 /\ Len(text) # 0
  <2>1. t = <<>> /\ new = text /\ answer2 = answer
    BY <1>4
  <2> QED BY <2>1
<1>5. CASE s # 0 /\ Len(text) = 0
  <2>1. over = TRUE
    BY <1>2, <1>5
  <2>2. PICK p \in Nat : p = s - 1
    BY <1>5
  <2>3. t = word /\ answer2 = answer /\ Len(t) = 1 /\ t[1] = answer[s]
    BY <1>5
  <2>4. Covers(text, over, p, answer)
    <3>1. \A i \in 1..Len(text) : FALSE
      BY <1>5
    <3>2. Spread(text)
      BY <3>1 DEF Spread
    <3> QED BY <2>1, <3>1, <3>2 DEF Covers
  <2>5. p <= s /\ s = p + 1
    BY <2>2
  <2>6. Continues(t, p, s, over, answer)
    <3>1. \A k \in 1..Len(t) : k = 1
      BY <2>3
    <3>2. Len(t) = s - p
      BY <2>3, <2>5
    <3>3. t[1] = answer[p + 1] /\ t[1].n = p + 1
      BY <2>3, <2>5
    <3> QED BY <3>1, <3>2, <3>3 DEF Continues
  <2>7. SameUpTo(p, answer, answer)
    BY DEF SameUpTo
  <2>8. Covers(new, over, s, answer)
    <3>1. PICK over2 \in BOOLEAN : over2 = over
      OBVIOUS
    <3>2. GoesOn(text, over, p, answer, t, s, over2, answer)
      BY <1>1, <2>4, <2>5, <2>6, <2>7, <3>1 DEF GoesOn
    <3>3. Covers(new, over2, s, answer)
      BY <3>2, TextWentOn, Zenon
    <3> QED BY <3>1, <3>3
  <2> QED BY <2>3, <2>8
<1> QED BY <1>3, <1>4, <1>5

LEMMA FinishRuns ==
  ASSUME ProviderInv, CallsFit, NEW c, Consistent(c), NEW letters \in Texts, Finish(letters)
  PROVE  Writes(c)
<1>1. PICK word : word = IF said = NoText THEN Numbered(letters, 0) ELSE <<Last(said)>>
  OBVIOUS
<1>2. PICK r : r = Record("result", "none", word, 0, 0)
  OBVIOUS
<1>3. /\ Write(r) /\ said' = (IF said = NoText THEN word ELSE said) /\ open = <<>>
      /\ message' = message /\ open' = open /\ calls' = calls
  BY <1>1, <1>2 DEF Finish, Settled
<1>4. pipe' = Append(pipe, r) /\ sent' = r /\ UNCHANGED decoder
  BY <1>3 DEF Write
<1>5. r.nested = FALSE /\ r.type = "result" /\ r.text = word /\ "result" \in Types
  BY <1>2, RecordFields, Literals
<1>6. /\ IsConfig(c) /\ IsState(c.st) /\ c.text \in Seq(Char) /\ c.over \in BOOLEAN
      /\ TextOK(c.text, c.over) /\ OverOK(c) /\ TrackOK(c.st) /\ KeysOK(c.st) /\ ToolsOK(c)
  BY DEF Consistent, IsConfig
<1>7. said \in Seq(Char) /\ Len(said) \in Nat /\ \A k \in 1..Len(said) : said[k].n = k
  BY DEF ProviderInv, ProviderTyped, SaidInOrder
<1>8. said = NoText <=> Len(said) = 0
  BY <1>7 DEF NoText
<1>9. PICK s \in Nat : s = Len(said)
  BY <1>7
<1>10. /\ word \in Seq(Char)
       /\ s = 0 => said' = word /\ \A k \in 1..Len(word) : word[k].n = k
       /\ s # 0 => said' = said /\ Len(word) = 1 /\ word[1] = said[s]
  <2>1. CASE said = NoText
    <3>1. word = Numbered(letters, 0) /\ said' = word /\ s = 0
      BY <1>1, <1>3, <1>8, <1>9, <2>1
    <3>2. letters \in Seq(STRING) /\ 0 \in Nat
      BY TextsAreWords
    <3>3. /\ word \in Seq(Char) /\ Len(word) = Len(letters)
          /\ \A k \in 1..Len(letters) : word[k] = [c |-> letters[k], n |-> 0 + k]
      BY <3>1, <3>2, NumberedOf
    <3>4. \A k \in 1..Len(word) : word[k].n = k
      <4>1. \A k \in 1..Len(letters) : 0 + k = k /\ [c |-> letters[k], n |-> 0 + k].n = k
        OBVIOUS
      <4> QED BY <3>3, <4>1
    <3> QED BY <3>1, <3>3, <3>4
  <2>2. CASE said # NoText
    <3>1. word = <<said[s]>> /\ said' = said /\ s # 0
      BY <1>1, <1>3, <1>8, <1>9, <2>2 DEF Last
    <3>2. said[s] \in Char
      BY <1>7, <1>9, <3>1
    <3> QED BY <3>1, <3>2
  <2> QED BY <2>1, <2>2
<1>11. said' \in Seq(Char)
  BY <1>7, <1>10
<1>12. PICK d : d = ClaudeEvents(c.st, r, Len(c.text))
  OBVIOUS
<1>13. PICK n : n = Len(c.text)
  OBVIOUS
<1>14. d.st = c.st /\ d.text = (IF n = 0 THEN word ELSE <<>>) /\ d.tools = <<>> /\ d.over = FALSE
  <2>1. d = Result(c.st, r, n)
    <3>1. ~r.nested /\ d = ClaudeEvents(c.st, r, n)
      BY <1>5, <1>12, <1>13
    <3> QED BY <1>5, <3>1, EventsByType
  <2>2. ResultSays(d, c.st, n, r.text)
    BY <2>1, ResultFields, Zenon
  <2> QED BY <1>5, <2>2, Zenon DEF ResultSays
<1>15. IsDecoding(d)
  <2>1. d.text \in Seq(Char)
    BY <1>10, <1>14, EmptyIsText
  <2>2. d.tools \in Seq(Nat)
    BY <1>14
  <2>3. d.over \in BOOLEAN
    BY <1>14
  <2> QED BY <1>6, <1>14, <2>1, <2>2, <2>3 DEF IsDecoding
<1>16. PICK e : e = Decodes(c, r)
  OBVIOUS
<1>17. Follows(e, c, d)
  BY <1>6, <1>12, <1>15, <1>16, ConfigDecodes
<1>18. IsConfig(e) /\ e.st = c.st /\ e.text = c.text \o d.text /\ e.tools = c.tools /\ e.over = c.over
  <2>1. e.over = c.over
    BY <1>6, <1>14, <1>17 DEF Follows
  <2> QED BY <1>14, <1>17, <2>1 DEF Follows
<1>19. TextOK(e.text, e.over)'
  <2>1. Spoken = Len(said) /\ Spoken' = Len(said')
    BY <1>3 DEF Spoken
  <2>2. PICK text, over, t, new : text = c.text /\ over = c.over /\ t = d.text /\ new = e.text
    OBVIOUS
  <2>3. PICK answer, answer2 : answer = said /\ answer2 = said'
    OBVIOUS
  <2>4. text \in Seq(Char) /\ over \in BOOLEAN
    BY <1>6, <2>2
  <2>5. answer \in Seq(Char) /\ answer2 \in Seq(Char) /\ s = Len(answer)
    BY <1>7, <1>9, <1>11, <2>3
  <2>6. Covers(text, over, s, answer)
    BY <1>6, <1>9, <2>1, <2>2, <2>3 DEF TextOK
  <2>7. \A k \in 1..s : answer[k].n = k
    BY <1>7, <1>9, <2>3
  <2>8. /\ s = 0 => answer2 = word /\ \A k \in 1..Len(word) : word[k].n = k
        /\ s # 0 => answer2 = answer /\ Len(word) = 1 /\ word[1] = answer[s]
    BY <1>10, <2>3
  <2>9. t = (IF Len(text) = 0 THEN word ELSE <<>>) /\ new = text \o t
    BY <1>13, <1>14, <1>18, <2>2
  <2>10. word \in Seq(Char)
    BY <1>10
  <2>11. Covers(new, over, Len(answer2), answer2)
    BY <2>4, <2>5, <2>6, <2>7, <2>8, <2>9, <2>10, ResultGoesOn
  <2>12. Covers(e.text, e.over, Spoken', said')
    BY <1>18, <2>1, <2>2, <2>3, <2>11
  <2> QED BY <2>12 DEF TextOK
<1>20. TrackOK(e.st)'
  <2>1. SameText(e.st, c.st)
    BY <1>18 DEF SameText
  <2>2. message'.blocks \in Nat /\ message.blocks \in Nat /\ message.blocks <= message'.blocks
    BY <1>3, MessageFacts DEF ProviderInv
  <2> QED BY <1>3, <1>6, <2>1, <2>2, TrackSame
<1>21. KeysOK(e.st)'
  <2>1. SameKeys(e.st, c.st)
    BY <1>18 DEF SameKeys
  <2>2. sent'.type # "assistant"
    BY <1>4, <1>5
  <2> QED BY <1>3, <1>6, <2>1, <2>2, KeysSame
<1>22. ToolsOK(e)'
  <2>1. (c.over => e.over) /\ e.st.tools = c.st.tools
    BY <1>18
  <2> QED BY <1>3, <1>6, <1>18, <2>1, ToolsSame
<1>23. OverOK(e)
  BY <1>6, <1>18 DEF OverOK
<1>24. Consistent(e)'
  BY <1>18, <1>19, <1>20, <1>21, <1>22, <1>23 DEF Consistent, IsConfig, IsState, OverOK
<1> QED BY <1>4, <1>16, <1>24 DEF Writes

-----------------------------------------------------------------------------
(* The run of the decoder over the records in the pipe.                    *)

Now == [st |-> state, text |-> emitted, tools |-> started, over |-> exceeded]

\* What the properties say of the decoder after each record.
Sound(c) == IsConfig(c) /\ Spread(c.text) /\ (~c.over => Once(c.tools))

Runs(run, now, records) ==
  /\ run[0] = now
  /\ \A k \in 1..Len(records) : run[k] = Decodes(run[k - 1], records[k])
  /\ \A k \in 0..Len(records) : Sound(run[k])

RunOK == \E run : Runs(run, Now, pipe) /\ Consistent(run[Len(pipe)])

Inv == ProviderInv /\ CallsFit /\ RunOK

LEMMA ConsistentIsSound ==
  ASSUME NEW c, Consistent(c)
  PROVE  Sound(c)
BY DEF Consistent, TextOK, Covers, ToolsOK, Sound

LEMMA RunExtends ==
  ASSUME NEW S, NEW records \in Seq(S), NEW run, NEW now, Runs(run, now, records),
         NEW r \in S, NEW e, e = Decodes(run[Len(records)], r), Sound(e)
  PROVE  \E new : Runs(new, now, Append(records, r)) /\ new[Len(Append(records, r))] = e
<1>1. PICK n \in Nat : n = Len(records)
  OBVIOUS
<1>2. PICK more : more = Append(records, r)
  OBVIOUS
<1>3. Len(more) = n + 1 /\ more[n + 1] = r /\ \A k \in 1..n : more[k] = records[k]
  BY <1>1, <1>2
<1>4. PICK new : new = [k \in 0..n + 1 |-> IF k = n + 1 THEN e ELSE run[k]]
  OBVIOUS
<1>5. new[n + 1] = e /\ \A k \in 0..n : new[k] = run[k]
  BY <1>4
<1>6. /\ run[0] = now /\ \A k \in 1..n : run[k] = Decodes(run[k - 1], records[k])
      /\ \A k \in 0..n : Sound(run[k])
  BY <1>1 DEF Runs
<1>7. new[0] = now
  BY <1>5, <1>6
<1>8. ASSUME NEW k \in 1..n + 1 PROVE new[k] = Decodes(new[k - 1], more[k])
  <2>1. CASE k = n + 1
    <3>1. k - 1 = n
      BY <2>1
    <3> QED BY <1>1, <1>3, <1>5, <2>1, <3>1
  <2>2. CASE k # n + 1
    <3>1. k \in 1..n /\ k \in 0..n /\ k - 1 \in 0..n
      BY <2>2
    <3> QED BY <1>3, <1>5, <1>6, <3>1
  <2> QED BY <2>1, <2>2
<1>9. ASSUME NEW k \in 0..n + 1 PROVE Sound(new[k])
  <2>1. CASE k = n + 1
    BY <1>5, <2>1
  <2>2. CASE k # n + 1
    <3>1. k \in 0..n
      BY <2>2
    <3> QED BY <1>5, <1>6, <3>1
  <2> QED BY <2>1, <2>2
<1>10. Runs(new, now, more)
  BY <1>3, <1>7, <1>8, <1>9 DEF Runs
<1> QED BY <1>2, <1>3, <1>5, <1>10

LEMMA RunShifts ==
  ASSUME NEW S, NEW records \in Seq(S), records # <<>>, NEW run, NEW now, Runs(run, now, records),
         NEW now2, now2 = Decodes(now, records[1])
  PROVE  \E new : Runs(new, now2, Tail(records)) /\ new[Len(Tail(records))] = run[Len(records)]
<1>1. PICK n \in Nat : n + 1 = Len(records)
  <2>1. Len(records) \in Nat /\ Len(records) # 0
    OBVIOUS
  <2>2. Len(records) - 1 \in Nat
    BY <2>1
  <2> QED BY <2>2
<1>2. PICK rest : rest = Tail(records)
  OBVIOUS
<1>3. Len(rest) = n /\ \A k \in 1..n : rest[k] = records[k + 1]
  BY <1>1, <1>2
<1>4. PICK new : new = [k \in 0..n |-> run[k + 1]]
  OBVIOUS
<1>5. \A k \in 0..n : new[k] = run[k + 1]
  BY <1>4
<1>6. /\ run[0] = now /\ \A k \in 1..n + 1 : run[k] = Decodes(run[k - 1], records[k])
      /\ \A k \in 0..n + 1 : Sound(run[k])
  BY <1>1 DEF Runs
<1>7. new[0] = now2
  <2>1. 1 \in 1..n + 1 /\ 1 - 1 = 0 /\ 0 \in 0..n /\ 0 + 1 = 1
    OBVIOUS
  <2>2. run[1] = Decodes(run[0], records[1])
    BY <1>6, <2>1
  <2> QED BY <1>5, <1>6, <2>1, <2>2
<1>8. ASSUME NEW k \in 1..n PROVE new[k] = Decodes(new[k - 1], rest[k])
  <2>1. k + 1 \in 1..n + 1 /\ (k + 1) - 1 = k /\ (k - 1) + 1 = k /\ k \in 0..n /\ k - 1 \in 0..n
    OBVIOUS
  <2>2. run[k + 1] = Decodes(run[k], records[k + 1])
    BY <1>6, <2>1
  <2>3. new[k] = run[k + 1] /\ new[k - 1] = run[k]
    BY <1>5, <2>1
  <2> QED BY <1>3, <2>2, <2>3
<1>9. ASSUME NEW k \in 0..n PROVE Sound(new[k])
  <2>1. k + 1 \in 0..n + 1
    OBVIOUS
  <2> QED BY <1>5, <1>6, <2>1
<1>10. Runs(new, now2, rest)
  BY <1>3, <1>7, <1>8, <1>9 DEF Runs
<1>11. new[n] = run[n + 1]
  BY <1>5
<1> QED BY <1>1, <1>2, <1>3, <1>10, <1>11

\* The decoder does not move the provider.
LEMMA StaysConsistent ==
  ASSUME ProviderInv, NEW c, Consistent(c), UNCHANGED provider
  PROVE  Consistent(c)'
<1>1. message' = message /\ open' = open /\ calls' = calls /\ sent' = sent /\ said' = said
  BY DEF provider
<1>2. IsConfig(c) /\ KeysOK(c.st) /\ ToolsOK(c)
  BY DEF Consistent
<1>3. TextOK(c.text, c.over)' /\ TrackOK(c.st)' /\ OverOK(c)
  <2>1. SameText(c.st, c.st)
    BY DEF SameText
  <2>2. message'.blocks \in Nat /\ message.blocks <= message'.blocks
    BY <1>1, MessageFacts DEF ProviderInv
  <2> QED BY <1>1, <2>1, <2>2, TextStays
<1>4. KeysOK(c.st)'
  <2>1. SameKeys(c.st, c.st)
    BY DEF SameKeys
  <2> QED BY <1>1, <1>2, <2>1, KeysSame
<1>5. ToolsOK(c)'
  BY <1>1, <1>2, ToolsSame
<1> QED BY <1>2, <1>3, <1>4, <1>5 DEF Consistent, IsConfig, IsState, OverOK

LEMMA FeedDecodes ==
  ASSUME Feed
  PROVE  Now' = Decodes(Now, pipe[1]) /\ pipe # <<>> /\ pipe' = Tail(pipe) /\ UNCHANGED provider
<1>1. PICK d : d = ClaudeEvents(state, pipe[1], Len(emitted))
  OBVIOUS
<1>2. /\ state' = d.st /\ emitted' = emitted \o d.text /\ started' = started \o d.tools
      /\ exceeded' = (exceeded \/ d.over)
      /\ pipe # <<>> /\ pipe' = Tail(pipe) /\ UNCHANGED provider
  BY <1>1 DEF Feed
<1>3. PICK now : now = Now
  OBVIOUS
<1>4. now.st = state /\ now.text = emitted /\ now.tools = started /\ now.over = exceeded
  BY <1>3 DEF Now
<1>5. Decodes(now, pipe[1]) = [st |-> d.st, text |-> emitted \o d.text, tools |-> started \o d.tools,
                               over |-> exceeded \/ d.over]
  BY <1>1, <1>4 DEF Decodes
<1> QED BY <1>2, <1>3, <1>5 DEF Now

LEMMA RunKeeps ==
  ASSUME ProviderInv, CallsFit, RunOK, [Next]_vars
  PROVE  RunOK'
<1>1. PICK run : Runs(run, Now, pipe) /\ Consistent(run[Len(pipe)])
  BY DEF RunOK
<1>2. PICK c : c = run[Len(pipe)]
  OBVIOUS
<1>3. Consistent(c)
  BY <1>1, <1>2
<1>4. pipe \in Seq(Records) /\ pipe' \in Seq(Records)
  BY ProviderKeeps DEF ProviderInv, ProviderTyped
<1>5. ASSUME Writes(c) PROVE RunOK'
  <2>1. PICK r, e : pipe' = Append(pipe, r) /\ UNCHANGED decoder /\ e = Decodes(c, r) /\ Consistent(e)'
    BY <1>5 DEF Writes
  <2>2. r \in Records
    <3>1. Len(pipe) + 1 \in 1..Len(pipe') /\ pipe'[Len(pipe) + 1] = r
      BY <1>4, <2>1
    <3> QED BY <1>4, <3>1
  <2>3. Sound(e)
    <3>1. IsConfig(e) /\ TextOK(e.text, e.over)' /\ ToolsOK(e)'
      BY <2>1 DEF Consistent, IsConfig, IsState
    <3>2. Spread(e.text) /\ (~e.over => Once(e.tools))
      BY <3>1 DEF TextOK, Covers, ToolsOK, Spread, Once
    <3> QED BY <3>1, <3>2 DEF Sound
  <2>4. Now' = Now
    BY <2>1 DEF Now, decoder
  <2>5. PICK now : now = Now
    OBVIOUS
  <2>6. PICK new : Runs(new, now, Append(pipe, r)) /\ new[Len(Append(pipe, r))] = e
    BY <1>1, <1>2, <1>4, <2>1, <2>2, <2>3, <2>5, RunExtends
  <2>7. Runs(new, Now', pipe') /\ new[Len(pipe')] = e
    BY <2>1, <2>4, <2>5, <2>6
  <2> QED BY <2>1, <2>7 DEF RunOK
<1>6. ASSUME Waits(c) PROVE RunOK'
  <2>1. pipe' = pipe /\ UNCHANGED decoder /\ Consistent(c)'
    BY <1>6 DEF Waits
  <2>2. Now' = Now
    BY <2>1 DEF Now, decoder
  <2>3. Runs(run, Now', pipe') /\ run[Len(pipe')] = c
    BY <1>1, <1>2, <2>1, <2>2
  <2> QED BY <2>1, <2>3 DEF RunOK
<1>7. CASE Feed
  <2>1. Now' = Decodes(Now, pipe[1]) /\ pipe # <<>> /\ pipe' = Tail(pipe) /\ UNCHANGED provider
    BY <1>7, FeedDecodes
  <2>2. PICK now, now2 : now = Now /\ now2 = Now'
    OBVIOUS
  <2>3. PICK new : Runs(new, now2, Tail(pipe)) /\ new[Len(Tail(pipe))] = run[Len(pipe)]
    BY <1>1, <1>4, <2>1, <2>2, RunShifts
  <2>4. Runs(new, Now', pipe') /\ new[Len(pipe')] = c
    BY <1>2, <2>1, <2>2, <2>3
  <2>5. Consistent(c)'
    BY <1>3, <2>1, StaysConsistent
  <2> QED BY <2>4, <2>5 DEF RunOK
<1>8. ASSUME NEW streams \in BOOLEAN, BeginMessage(streams) PROVE RunOK'
  BY <1>3, <1>5, <1>6, <1>8, BeginMessageRuns
<1>9. ASSUME NEW kind \in {"text", "thinking"}, NEW letters \in Texts, OpenBlock(kind, letters) PROVE RunOK'
  BY <1>3, <1>6, <1>9, OpenBlockRuns
<1>10. CASE SendDelta
  BY <1>3, <1>5, <1>10, SendDeltaRuns
<1>11. CASE SendSnapshot
  BY <1>3, <1>5, <1>11, SendSnapshotRuns
<1>12. CASE RepeatSnapshot
  BY <1>3, <1>5, <1>12, RepeatSnapshotRuns
<1>13. CASE CallTool
  BY <1>3, <1>5, <1>13, CallToolRuns
<1>14. CASE SnapshotTool
  BY <1>3, <1>5, <1>14, SnapshotToolRuns
<1>15. ASSUME NEW tool \in calls, FinishTool(tool) PROVE RunOK'
  BY <1>3, <1>5, <1>15, FinishToolRuns
<1>16. ASSUME NEW type, WriteNested(type) PROVE RunOK'
  BY <1>3, <1>5, <1>16, WriteNestedRuns
<1>17. ASSUME NEW letters \in Texts, Finish(letters) PROVE RunOK'
  BY <1>3, <1>5, <1>17, FinishRuns
<1>18. CASE Killed
  BY <1>3, <1>5, <1>18, KilledRuns
<1>19. CASE Ended \/ UNCHANGED vars
  <2>1. UNCHANGED vars
    BY <1>19 DEF Ended
  <2>2. pipe' = pipe /\ UNCHANGED decoder /\ UNCHANGED provider
    BY <2>1 DEF vars, decoder, provider
  <2>3. Consistent(c)'
    BY <1>3, <2>2, StaysConsistent
  <2> QED BY <1>6, <2>2, <2>3 DEF Waits
<1> QED BY <1>7, <1>8, <1>9, <1>10, <1>11, <1>12, <1>13, <1>14, <1>15, <1>16, <1>17, <1>18, <1>19 DEF Next

LEMMA RunInit == Init => RunOK
<1> SUFFICES ASSUME Init PROVE RunOK
  OBVIOUS
<1>1. /\ message.id = 0 /\ message.blocks = 0 /\ message.streams = FALSE
      /\ open = <<>> /\ calls = {} /\ sent = NoRecord /\ pipe = <<>>
      /\ said = <<>> /\ emitted = <<>> /\ started = <<>> /\ exceeded = FALSE
  BY DEF Init, NoText
<1>2. /\ IsState(state) /\ state.streamed = <<>> /\ state.consumed = {} /\ state.overflow = {}
      /\ state.tracking = TRUE /\ state.ordinals = <<>> /\ state.seen = {} /\ state.previous = <<>>
  <2>1. PICK yes \in BOOLEAN, none \in {{}}, nothing \in {<<>>} : yes = TRUE /\ none = {} /\ nothing = <<>>
    OBVIOUS
  <2>2. state = [streamed |-> nothing, consumed |-> none, overflow |-> none, tracking |-> yes,
                 ordinals |-> nothing, seen |-> none, previous |-> nothing, tools |-> none]
    BY <2>1 DEF Init
  <2>3. /\ state.streamed = nothing /\ state.consumed = none /\ state.overflow = none
        /\ state.tracking = yes /\ state.ordinals = nothing /\ state.seen = none
        /\ state.previous = nothing /\ state.tools = none
    BY <2>2
  <2>4. IsState(state)
    BY <2>2, <2>3 DEF IsState
  <2> QED BY <2>1, <2>3, <2>4
<1>3. PICK c : c = Now
  OBVIOUS
<1>4. c.st = state /\ c.text = <<>> /\ c.tools = <<>> /\ c.over = FALSE
  BY <1>1, <1>3 DEF Now
<1>5. IsConfig(c)
  <2>1. c = [st |-> c.st, text |-> c.text, tools |-> c.tools, over |-> c.over]
    BY <1>3 DEF Now
  <2>2. c.text \in Seq(Char) /\ c.tools \in Seq(Nat)
    BY <1>4
  <2>3. c.over \in BOOLEAN
    BY <1>4
  <2>4. IsState(c.st)
    BY <1>2, <1>4
  <2> QED BY <2>1, <2>2, <2>3, <2>4, Zenon DEF IsConfig
<1>6. TextOK(c.text, c.over)
  <2>1. Spoken = 0 /\ Len(c.text) = 0
    BY <1>1, <1>4 DEF Spoken
  <2> QED BY <2>1 DEF TextOK, Covers, Spread
<1>7. OverOK(c)
  BY <1>2, <1>4 DEF OverOK
<1>8. TrackOK(c.st)
  <2>1. DOMAIN c.st.streamed = {} /\ c.st.consumed = {} /\ c.st.overflow = {}
    BY <1>2, <1>4
  <2>2. Begun = {}
    BY <1>1 DEF Begun
  <2>3. Indexed(c.st)
    BY <1>1, <2>1 DEF Indexed
  <2>4. PICK p : p = [i \in {} |-> 0]
    OBVIOUS
  <2>5. p \in [{} -> DOMAIN c.st.streamed \ c.st.consumed]
    BY <2>4
  <2>6. Paired(c.st, p)
    BY <2>1, <2>2, <2>5 DEF Paired
  <2> QED BY <2>3, <2>6 DEF TrackOK
<1>9. KeysOK(c.st)
  <2>1. DOMAIN c.st.previous = {} /\ DOMAIN c.st.ordinals = {} /\ c.st.seen = {}
    BY <1>2, <1>4
  <2>2. sent.type # "assistant"
    BY <1>1 DEF NoRecord
  <2> QED BY <2>1, <2>2 DEF KeysOK, KeysFit
<1>10. ToolsOK(c)
  <2>1. Len(c.tools) = 0
    BY <1>4
  <2> QED BY <2>1 DEF ToolsOK, Once
<1>11. Consistent(c)
  BY <1>5, <1>6, <1>7, <1>8, <1>9, <1>10 DEF Consistent
<1>12. Sound(c)
  BY <1>11, ConsistentIsSound
<1>13. PICK run : run = [k \in {0} |-> c]
  OBVIOUS
<1>14. Len(pipe) = 0 /\ run[0] = c
  BY <1>1, <1>13
<1>15. Runs(run, Now, pipe)
  BY <1>3, <1>12, <1>14 DEF Runs
<1> QED BY <1>11, <1>14, <1>15 DEF RunOK

LEMMA InvHolds == Spec => []Inv
<1>1. Init => Inv
  BY ProviderInit, CallsInit, RunInit DEF Inv
<1>2. Inv /\ [Next]_vars => Inv'
  BY ProviderKeeps, CallsKeep, RunKeeps DEF Inv
<1> QED BY <1>1, <1>2, PTL DEF Spec

LEMMA NowFacts ==
  ASSUME Inv
  PROVE  /\ Sound(Now) /\ emitted \in Seq(Char) /\ started \in Seq(Nat)
         /\ Now.text = emitted /\ Now.tools = started /\ Now.over = exceeded
         /\ pipe = <<>> => Consistent(Now)
<1>1. PICK run : Runs(run, Now, pipe) /\ Consistent(run[Len(pipe)])
  BY DEF Inv, RunOK
<1>2. Len(pipe) \in Nat
  BY DEF Inv, ProviderInv, ProviderTyped
<1>3. PICK now : now = Now
  OBVIOUS
<1>4. now.text = emitted /\ now.tools = started /\ now.over = exceeded
  BY <1>3 DEF Now
<1>5. run[0] = now /\ Sound(run[0])
  BY <1>1, <1>2, <1>3 DEF Runs
<1>6. now.text \in Seq(Char) /\ now.tools \in Seq(Nat)
  BY <1>5 DEF Sound, IsConfig
<1>7. pipe = <<>> => Consistent(now)
  <2> SUFFICES ASSUME pipe = <<>> PROVE Consistent(now)
    OBVIOUS
  <2>1. Len(pipe) = 0
    OBVIOUS
  <2> QED BY <1>1, <1>5, <2>1
<1> QED BY <1>3, <1>4, <1>5, <1>6, <1>7

\* Once everything written is decoded and no block waits for its snapshot,
\* the deltas, snapshots and the result that were decoded give the answer, as
\* long as no bound of the decoder was exceeded (_claude_events).
THEOREM AnswerIsComplete == Spec => []TextOnce
<1>1. Inv => TextOnce
  <2> SUFFICES ASSUME Inv, pipe = <<>>, open = <<>>, ~exceeded PROVE emitted = said
    BY DEF TextOnce
  <2>1. Consistent(Now) /\ Now.text = emitted /\ Now.over = exceeded /\ emitted \in Seq(Char)
    BY NowFacts
  <2>2. TextOK(emitted, exceeded)
    BY <2>1 DEF Consistent
  <2>3. Spoken = Len(said) /\ said \in Seq(Char)
    BY DEF Spoken, Inv, ProviderInv, ProviderTyped
  <2>4. Len(emitted) = Len(said) /\ \A i \in 1..Len(said) : emitted[i] = said[i]
    BY <2>2, <2>3 DEF TextOK, Covers
  <2> QED BY <2>1, <2>3, <2>4
<1> QED BY <1>1, InvHolds, PTL

\* Whatever is written, and even beyond the bounds of the decoder, no part of
\* the answer is said twice or out of order (_claude_stream_suffix,
\* _claude_snapshot_key).
THEOREM NothingIsRepeated == Spec => []NeverRepeats
<1>1. Inv => NeverRepeats
  <2> SUFFICES ASSUME Inv PROVE NeverRepeats
    OBVIOUS
  <2>1. Spread(emitted) /\ emitted \in Seq(Char)
    BY NowFacts DEF Sound
  <2> QED BY <2>1 DEF Spread, NeverRepeats
<1> QED BY <1>1, InvHolds, PTL

\* A tool that its content block, its snapshots and their repetitions announce
\* is started once, as long as the decoder could remember it (_remember_tool).
THEOREM ToolsStartOnce == Spec => []ToolStartsOnce
<1>1. Inv => ToolStartsOnce
  <2> SUFFICES ASSUME Inv, ~exceeded PROVE \A i, k \in DOMAIN started : started[i] = started[k] => i = k
    BY DEF ToolStartsOnce
  <2>1. Sound(Now) /\ Now.tools = started /\ Now.over = exceeded /\ started \in Seq(Nat)
    BY NowFacts
  <2>2. Once(started)
    BY <2>1 DEF Sound
  <2> QED BY <2>1, <2>2 DEF Once
<1> QED BY <1>1, InvHolds, PTL
=============================================================================
