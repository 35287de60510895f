------------------------------ MODULE Redactor ------------------------------
(***************************************************************************)
(* StreamingRedactor (src/task3_stream_guardrail/redactor.py): the three   *)
(* patterns, the scan for matches, and the buffer that releases text only  *)
(* when no match can reach it any more.                                    *)
(*                                                                         *)
(* A character is "l" (a letter), "d" (a digit), "@", ".", "-", " " or "!" *)
(* (any other).  The repeat counts of the patterns are constants, so that  *)
(* small texts reach past them; the hold follows from them as in the code. *)
(* require_luhn is off, as it is by default.                               *)
(***************************************************************************)
EXTENDS Integers, Sequences, FiniteSets, SequencesExt

CONSTANTS
  MaxText,             \* alphabet |-> bound on the length of a text over it
  MaxDelta,            \* alphabet |-> bound on the length of its deltas
  MaxLocal,            \* EMAIL: characters before the "@" (64)
  MaxLabel,            \* EMAIL: characters of a domain label (63)
  MaxSubdomains,       \* EMAIL: labels between the first and the last (4)
  MinTld, MaxTld,      \* EMAIL: letters of the last label (2, 24)
  CardHead,            \* CARD: digits in a row at the start (4)
  CardMin, CardMax,    \* CARD: digits that follow (9, 15)
  Ssn                  \* SSN: digits of its three groups (<<3, 2, 4>>)

ASSUME RedactorAssumption ==
  /\ DOMAIN MaxText \subseteq SUBSET {"l", "d", "@", ".", "-", " ", "!"}
  /\ MaxText \in [DOMAIN MaxText -> Nat] /\ MaxDelta \in [DOMAIN MaxText -> Nat]
  /\ {MaxLocal, MaxLabel, MinTld, MaxTld, CardHead, CardMin, CardMax} \subseteq Nat \ {0}
  /\ MaxSubdomains \in Nat
  /\ MinTld <= MaxTld /\ CardMin <= CardMax
  /\ Ssn \in [1..3 -> Nat \ {0}]

VARIABLES
  text,    \* everything fed so far
  buffer,  \* self._buffer
  out      \* everything released so far

vars == <<text, buffer, out>>

REDACTED == "[REDACTED]"
-----------------------------------------------------------------------------
(* The patterns. *)

Alnum == {"l", "d"}
Separators == {" ", "-"}

At(s, i, class) == i \in DOMAIN s /\ s[i] \in class
All(s, i, j, class) == \A k \in i..j : s[k] \in class
Digits(s, i, j) == {k \in i..j : s[k] = "d"}

(* at begins a domain that ends at j: labels of up to MaxLabel characters  *)
(* with dots between, up to MaxSubdomains + 1 of them before the last,     *)
(* which is MinTld to MaxTld letters.                                      *)
IsDomain(s, at, j) ==
  LET dots == {k \in at..j : s[k] = "."}
      last == Max(dots)
  IN  /\ All(s, at + 1, j, Alnum \cup {".", "-"})
      /\ Cardinality(dots) \in 1..(MaxSubdomains + 1)
      /\ \A k \in {at} \cup dots : s[k + 1] # "."
      /\ \A k \in {at} \cup (dots \ {last}) : \E dot \in dots : dot - k - 1 \in 1..MaxLabel
      /\ j - last \in MinTld..MaxTld
      /\ All(s, last + 1, j, {"l"})

IsEmail(s, i, j) ==
  /\ s[j] = "l"
  /\ \E at \in (i + 1)..(j - 1) :
       /\ s[at] = "@" /\ at - i <= MaxLocal
       /\ All(s, i, at - 1, Alnum \cup {".", "-"})
       /\ IsDomain(s, at, j)

(* CardHead digits, then CardMin to CardMax more, each after at most one   *)
(* separator.                                                              *)
IsCard(s, i, j) ==
  /\ i + CardHead <= j
  /\ All(s, i, i + CardHead - 1, {"d"})
  /\ All(s, i + CardHead, j, {"d"} \cup Separators)
  /\ s[j] = "d"
  /\ \A k \in (i + CardHead)..(j - 1) : ~(s[k] \in Separators /\ s[k + 1] \in Separators)
  /\ Cardinality(Digits(s, i + CardHead, j)) \in CardMin..CardMax

IsSsn(s, i, j) ==
  LET first == i + Ssn[1]
      second == first + Ssn[2] + 1
  IN  /\ j = second + Ssn[3]
      /\ \A k \in i..j : s[k] \in (IF k \in {first, second} THEN Separators ELSE {"d"})

(* Where EMAIL can end when it starts at i.  No class before or after a    *)
(* "." or "@" contains it, so the text itself fixes every part.            *)
EmailEnds(s, i) ==
  IF At(s, i - 1, Alnum \cup {".", "@", "-"}) THEN {}
  ELSE {j \in i..Len(s) : IsEmail(s, i, j) /\ ~At(s, j + 1, Alnum \cup {"-"})}

(* Where CARD and SSN can: no digit on either side. *)
CardEnds(s, i) ==
  IF At(s, i - 1, {"d"}) THEN {}
  ELSE {j \in i..Len(s) : IsCard(s, i, j) /\ ~At(s, j + 1, {"d"})}

SsnEnds(s, i) ==
  IF At(s, i - 1, {"d"}) THEN {}
  ELSE {j \in i..Len(s) : IsSsn(s, i, j) /\ ~At(s, j + 1, {"d"})}

(* The alternation: the first pattern that matches at i, as long as it can *)
(* be (every quantifier is greedy).                                        *)
MatchEnds(s, i) ==
  LET email == EmailEnds(s, i)
      card == CardEnds(s, i)
  IN  IF email # {} THEN email ELSE IF card # {} THEN card ELSE SsnEnds(s, i)

(* PATTERN.finditer: what it finds at i, after what it found before i.     *)
FoundAt(s, found, i) ==
  IF (\E m \in found : m.end >= i) \/ MatchEnds(s, i) = {} THEN {}
  ELSE {[start |-> i, end |-> Max(MatchEnds(s, i))]}

Matches(s) ==
  LET scan[i \in 0..Len(s)] ==
        IF i = 0 THEN {} ELSE LET found == scan[i - 1] IN found \cup FoundAt(s, found, i)
  IN  scan[Len(s)]

(* s up to position n with every match in it replaced. *)
Rendered(s, n) ==
  LET found == {m \in Matches(s) : m.end <= n}
      piece(i) == IF \E m \in found : m.start = i THEN <<REDACTED>>
                  ELSE IF \E m \in found : m.start < i /\ i <= m.end THEN <<>> ELSE <<s[i]>>
  IN  FlattenSeq([i \in 1..n |-> piece(i)])

Substitute(s) == Rendered(s, Len(s))
-----------------------------------------------------------------------------
(* The buffer. *)

(* max_pattern_length *)
Hold == Max({MaxLocal + 1 + MaxLabel + MaxSubdomains * (MaxLabel + 1) + 1 + MaxTld,
                 CardHead + CardMax + CardMax,
                 Ssn[1] + Ssn[2] + Ssn[3] + 2})

(* Mutant: a space always ends a run. *)
BreaksAtSpaces(s, i) == s[i] \in Alnum \cup {".", "-", "@"}

(* Could s[i] be part of a match that extends past the end? *)
CanContinueAMatch(s, i) ==
  \/ s[i] \in Alnum \cup {".", "-", "@"}
  \/ s[i] = " " /\ At(s, i - 1, {"d"}) /\ (i = Len(s) \/ s[i + 1] = "d")

(* How many characters of s a run that reaches its end leaves alone. *)
RunStart(s) == Max({0} \cup {i \in DOMAIN s : ~CanContinueAMatch(s, i)})

(* Mutant: nothing but the run is looked at. *)
NoFloor(s) == RunStart(s)

(* Mutant: the hold as a fixed delay. *)
FixedHold(s) == Max({0, Len(s) - Hold})

(* The run at the end, cut to Hold characters. *)
UnsafeStart(s) == Max({RunStart(s), Len(s) - Hold})

(* _emit_safe_prefix holds the whole of a match that straddles the cut. *)
SafePrefix(s) ==
  LET straddling == {m \in Matches(s) : m.start <= UnsafeStart(s) /\ UnsafeStart(s) < m.end}
  IN  IF straddling = {} THEN UnsafeStart(s)
      ELSE (CHOOSE m \in straddling : TRUE).start - 1

Init == text = <<>> /\ buffer = <<>> /\ out = <<>>

(* feed(delta), for a delta that is not empty; an empty one does nothing.  *)
Feed(delta) ==
  LET fed == buffer \o delta
      safe == SafePrefix(fed)
  IN  /\ text' = text \o delta
      /\ out' = out \o Rendered(fed, safe)
      /\ buffer' = SubSeq(fed, safe + 1, Len(fed))

(* What the client has in the end if the stream stops here: flush(). *)
Flushed == out \o Substitute(buffer)

(* redact(text): one feed of everything, and a flush. *)
Redact(s) ==
  LET safe == SafePrefix(s)
  IN  Rendered(s, safe) \o Substitute(SubSeq(s, safe + 1, Len(s)))

Next ==
  \E alphabet \in DOMAIN MaxText :
    /\ text \in Seq(alphabet)
    /\ \E n \in 1..MaxDelta[alphabet] :
         /\ Len(text) + n <= MaxText[alphabet]
         /\ \E delta \in [1..n -> alphabet] : Feed(delta)

Spec == Init /\ [][Next]_vars
-----------------------------------------------------------------------------
(* Properties. *)

(* No run of the text that could belong to a match is longer than Hold.    *)
RunsFit == \A n \in DOMAIN text : n - RunStart(SubSeq(text, 1, n)) <= Hold

(* redactor.py:12-17: wherever the text is cut into deltas, what comes out *)
(* is what one scan of the whole text gives, as long as no run outgrows    *)
(* the hold: no match is missed, split, or seen where there is none.       *)
ChunkingInvisible == RunsFit => Flushed = Substitute(text)

(* README.md:78-82 of task 3: text waits while it can be part of a match   *)
(* that goes on, and no longer: what is held is the run at the end.        *)
HoldsOneRun == RunsFit => buffer = SubSeq(text, RunStart(text) + 1, Len(text))

(* README.md:113-114 of task 3: whatever comes, less than twice the hold   *)
(* stays in the buffer after a feed.                                       *)
BufferBounded == Len(buffer) < 2 * Hold

(* tests/test_task3_guardrail.py:3-5: "the same text re-split at every     *)
(* index, and every pair of indices, all producing byte-identical output." *)
ByteIdentical == Flushed = Redact(text)
=============================================================================
