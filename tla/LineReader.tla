----------------------------- MODULE LineReader -----------------------------
(***************************************************************************)
(* iter_lines (src/task3_stream_guardrail/sse.py): the upstream body       *)
(* arrives in chunks cut anywhere, each chunk is decoded by itself, and a  *)
(* line is handed on as soon as its newline is there.                      *)
(*                                                                         *)
(* A byte is "a" (any one-byte character), "nl" (newline), "H" or "T" (the *)
(* two bytes of a two-byte character, U+00E9 say); a character is "a",     *)
(* "nl", "e'" (the two-byte one) or "?" (U+FFFD).                          *)
(***************************************************************************)
EXTENDS Integers, Sequences, FiniteSetsExt, SequencesExt

CONSTANTS
  Bytes,     \* the bytes the upstream sends, among "a", "nl", "H" and "T"
  MaxSent,   \* bound on the length of the body
  MaxChunk,  \* bytes of the longest chunk
  Cap        \* MAX_LINE_BYTES, which counts characters

ASSUME LineReaderAssumption ==
  /\ Bytes \subseteq {"a", "nl", "H", "T"}
  /\ MaxSent \in Nat
  /\ MaxChunk \in Nat \ {0}
  /\ Cap \in Nat \ {0}

VARIABLES
  sent,     \* the body so far
  cuts,     \* where it was cut: the chunk ends
  pending,  \* the partial line held
  lines,    \* the lines handed on
  status    \* "reading", "ended", or "failed" with MalformedStream

vars == <<sent, cuts, pending, lines, status>>

Characters == {"a", "nl", "e'", "?"}
-----------------------------------------------------------------------------

(* chunk.decode("utf-8", errors="replace"): what byte i of bs adds.  A     *)
(* lead byte speaks for its pair, half a pair becomes U+FFFD.              *)
Decoded(bs, i) ==
  LET leads(j) == j \in DOMAIN bs /\ bs[j] = "H"
      trails(j) == j \in DOMAIN bs /\ bs[j] = "T"
  IN  CASE leads(i) /\ trails(i + 1) -> <<"e'">>
        [] trails(i) /\ leads(i - 1) -> <<>>
        [] leads(i) /\ ~trails(i + 1) -> <<"?">>
        [] trails(i) /\ ~leads(i - 1) -> <<"?">>
        [] OTHER -> <<bs[i]>>

Decode(bs) == FlattenSeq([i \in DOMAIN bs |-> Decoded(bs, i)])

Newlines(text) == {i \in DOMAIN text : text[i] = "nl"}

(* Where the line begins that position i of text belongs to. *)
LineStart(text, i) == 1 + Max({0} \cup {j \in Newlines(text) : j < i})

(* The lines of text that have their newline, and what follows the last:   *)
(* while "\n" in pending: line, _, pending = pending.partition("\n").       *)
WholeLines(text) ==
  FlattenSeq([i \in DOMAIN text |->
                IF text[i] = "nl" THEN <<SubSeq(text, LineStart(text, i), i - 1)>> ELSE <<>>])

Rest(text) == SubSeq(text, LineStart(text, Len(text) + 1), Len(text))
-----------------------------------------------------------------------------

Init ==
  /\ sent = <<>>
  /\ cuts = {}
  /\ pending = <<>>
  /\ lines = <<>>
  /\ status = "reading"

Chunks == UNION {[1..n -> Bytes] : n \in 1..MaxChunk}

(* What every chunk does: it is counted whether the reader likes it or not. *)
Arrive(chunk) ==
  /\ status = "reading"
  /\ Len(sent) + Len(chunk) <= MaxSent
  /\ sent' = sent \o chunk
  /\ cuts' = cuts \cup {Len(sent')}

(* Mutant: the cap looks at the chunk alone. *)
ReceiveChunkCapped(chunk) ==
  /\ Arrive(chunk)
  /\ LET text == pending \o Decode(chunk)
     IN  IF Len(Decode(chunk)) > Cap
         THEN status' = "failed" /\ UNCHANGED <<pending, lines>>
         ELSE /\ lines' = lines \o WholeLines(text)
              /\ pending' = Rest(text)
              /\ UNCHANGED status

(* Mutant: the newline is looked for in the chunk, the held part is lost. *)
ReceiveWithoutPending(chunk) ==
  /\ Arrive(chunk)
  /\ LET text == Decode(chunk)
     IN  /\ lines' = lines \o WholeLines(text)
         /\ pending' = Rest(text)
         /\ UNCHANGED status

(* One turn of the loop: decode, cap, hand on every complete line.  The    *)
(* cap comes first, so the lines of a chunk that trips it are lost.        *)
Receive(chunk) ==
  /\ Arrive(chunk)
  /\ LET text == pending \o Decode(chunk)
     IN  IF Len(text) > Cap
         THEN status' = "failed" /\ UNCHANGED <<pending, lines>>
         ELSE /\ lines' = lines \o WholeLines(text)
              /\ pending' = Rest(text)
              /\ UNCHANGED status

(* The body ends, and a last line without newline is handed on. *)
EndOfBody ==
  /\ status = "reading"
  /\ status' = "ended"
  /\ lines' = IF pending = <<>> THEN lines ELSE Append(lines, pending)
  /\ UNCHANGED <<sent, cuts, pending>>

Next == (\E chunk \in Chunks : Receive(chunk)) \/ EndOfBody

Spec == Init /\ [][Next]_vars
-----------------------------------------------------------------------------
(* Properties. *)

Joined(ls) == FlattenSeq([k \in DOMAIN ls |-> Append(ls[k], "nl")])

CutsACharacter == \E i \in cuts : i < Len(sent) /\ sent[i] = "H" /\ sent[i + 1] = "T"

(* The body as the reader's client can put it together again. *)
Reassembled ==
  CASE status = "reading" -> Joined(lines) \o pending
    [] status = "ended" /\ pending = <<>> -> Joined(lines)
    [] status = "ended" /\ pending # <<>> -> Front(Joined(lines))

(* Wherever the body is cut into chunks (between two characters), the      *)
(* lines and the held part put together are the body: nothing is lost,     *)
(* repeated or moved to another line (iter_lines 133-148), and no line     *)
(* holds another.                                                          *)
NothingLostOrMoved ==
  /\ \A k \in DOMAIN lines : Newlines(lines[k]) = {}
  /\ status # "failed" /\ ~CutsACharacter => Reassembled = Decode(sent)

(* README.md:113-116 of task 3: the line buffer never holds more than the  *)
(* cap, and never a line that could have been handed on.                   *)
PendingBounded == Len(pending) <= Cap /\ Newlines(pending) = {}

(* README.md:159-160 of task 3: "A multi-byte character split across a TCP *)
(* chunk is handled correctly by the line buffer."                         *)
SplitCharactersSurvive == status # "failed" => Reassembled = Decode(sent)

(* sse.py:143: "upstream line exceeded the size cap" -- some line did.     *)
OnlyLongLinesFail ==
  status = "failed" =>
    \E k \in 1..(Len(WholeLines(Decode(sent))) + 1) :
      Len(Append(WholeLines(Decode(sent)), Rest(Decode(sent)))[k]) > Cap
=============================================================================
