------------------------- MODULE SseGuardrailProofs -------------------------
(***************************************************************************)
(* Theorems about SseGuardrail: what the client has and what is held are   *)
(* the message, at every moment and in both modes; a failure is told once; *)
(* and every step keeps the promise of TextRelay.                          *)
(***************************************************************************)
EXTENDS SseGuardrail, FoldTheorems, SequenceTheorems, TLAPS

Count(n) == [i \in 1..n |-> i]
Framed(n) == [kind: Kinds, text: Seq(1..n), choice: Indexes \cup {0}, fin: BOOLEAN, seen: 0..n]

-----------------------------------------------------------------------------
(* What a sequence of frames delivers. *)

Texts(frames) == [i \in DOMAIN frames |-> frames[i].text]

LEMMA TextsAreTexts ==
  ASSUME NEW n \in Nat, NEW frames \in Seq(Framed(n))
  PROVE  Texts(frames) \in Seq(Seq(1..n)) /\ Len(Texts(frames)) = Len(frames)
<1>. DEFINE D == Seq(1..n)
<1>1. \A f \in Framed(n) : f.text \in D
  BY DEF Framed
<1>. HIDE DEF D
<1>2. Len(frames) \in Nat /\ DOMAIN frames = 1..Len(frames)
  OBVIOUS
<1>3. \A i \in 1..Len(frames) : frames[i].text \in D
  BY <1>1
<1>4. Texts(frames) \in [1..Len(frames) -> D]
  BY <1>2, <1>3 DEF Texts
<1>5. Texts(frames) \in Seq(D) /\ Len(Texts(frames)) = Len(frames)
  BY <1>2, <1>4
<1>. QED
  BY <1>5 DEF D

LEMMA DeliveredType ==
  ASSUME NEW n \in Nat, NEW frames \in Seq(Framed(n))
  PROVE  Delivered(frames) \in Seq(1..n)
<1>1. Delivered(frames) = FlattenSeq(Texts(frames))
  BY Zenon DEF Delivered, Texts
<1>. QED
  BY <1>1, TextsAreTexts, FlattenType

LEMMA DeliveredEmpty == Delivered(<<>>) = <<>>
<1>1. Texts(<<>>) = <<>>
  BY DEF Texts
<1>2. Delivered(<<>>) = FlattenSeq(Texts(<<>>))
  BY Zenon DEF Delivered, Texts
<1>. QED
  BY <1>1, <1>2, FlattenEmpty

LEMMA DeliveredAppend ==
  ASSUME NEW n \in Nat, NEW frames \in Seq(Framed(n)), NEW f \in Framed(n)
  PROVE  Delivered(Append(frames, f)) = Delivered(frames) \o f.text
<1>. DEFINE more == Append(frames, f)
<1>1. more \in Seq(Framed(n)) /\ Len(more) = Len(frames) + 1 /\ Len(frames) \in Nat
  BY AppendProperties
<1>2. \A i \in 1..Len(frames) : more[i] = frames[i]
  BY AppendProperties
<1>3. more[Len(frames) + 1] = f
  BY AppendProperties
<1>. HIDE DEF more
<1>4. f.text \in Seq(1..n)
  BY DEF Framed
<1>5. Texts(more) = Append(Texts(frames), f.text)
  <2>. DEFINE D == Seq(1..n)
              t == Texts(frames)
              e == f.text
  <2>1. t \in Seq(D) /\ Len(t) = Len(frames) /\ e \in D
    BY <1>4, TextsAreTexts
  <2>2. Texts(more) \in Seq(D) /\ Len(Texts(more)) = Len(frames) + 1
    BY <1>1, TextsAreTexts
  <2>3. \A i \in 1..(Len(frames) + 1) : Texts(more)[i] = more[i].text
    BY <1>1 DEF Texts
  <2>4. \A i \in 1..Len(frames) : t[i] = frames[i].text
    BY DEF Texts
  <2>. HIDE DEF D, t, e
  <2>5. /\ Append(t, e) \in Seq(D) /\ Len(Append(t, e)) = Len(t) + 1
        /\ \A i \in 1..Len(t) : Append(t, e)[i] = t[i]
        /\ Append(t, e)[Len(t) + 1] = e
    BY <2>1, AppendProperties
  <2>6. \A i \in 1..(Len(frames) + 1) : Texts(more)[i] = Append(t, e)[i]
    <3>. SUFFICES ASSUME NEW i \in 1..(Len(frames) + 1)
                  PROVE  Texts(more)[i] = Append(t, e)[i]
      OBVIOUS
    <3>1. CASE i = Len(frames) + 1
      BY <1>1, <1>3, <2>1, <2>3, <2>5, <3>1 DEF e
    <3>2. CASE i # Len(frames) + 1
      <4>1. i \in 1..Len(frames)
        BY <1>1, <3>2
      <4>. QED
        BY <1>2, <2>1, <2>3, <2>4, <2>5, <4>1
    <3>. QED
      BY <3>1, <3>2
  <2>7. Texts(more) = Append(t, e)
    BY <2>1, <2>2, <2>5, <2>6, SeqEqual
  <2>. QED
    BY <2>7 DEF t, e
<1>6. Delivered(more) = FlattenSeq(Texts(more)) /\ Delivered(frames) = FlattenSeq(Texts(frames))
  BY Zenon DEF Delivered, Texts
<1>7. FlattenSeq(Append(Texts(frames), f.text)) = FlattenSeq(Texts(frames)) \o f.text
  BY <1>4, TextsAreTexts, FlattenAppend
<1>. QED
  BY <1>5, <1>6, <1>7 DEF more

-----------------------------------------------------------------------------
(* What one more frame changes. *)

NoError(frames) == \A i \in DOMAIN frames : frames[i].kind # "error"
ErrorsLast(frames) == \A i \in DOMAIN frames : frames[i].kind = "error" => i = Len(frames)
EndsComplete(frames) ==
  \A i \in DOMAIN frames :
    frames[i].kind \in {"end", "done"} => Len(Delivered(SubSeq(frames, 1, i))) = frames[i].seen
DoneAt(frames) == {frames[i].seen : i \in {i \in DOMAIN frames : frames[i].kind = "done"}}

LEMMA FramesGrow ==
  ASSUME NEW m \in Nat, NEW n \in Nat, m <= n, NEW frames \in Seq(Framed(m))
  PROVE  frames \in Seq(Framed(n))
<1>1. 1..m \subseteq 1..n /\ 0..m \subseteq 0..n
  OBVIOUS
<1>2. Seq(1..m) \subseteq Seq(1..n)
  BY <1>1, SeqMonotonic
<1>3. Framed(m) \subseteq Framed(n)
  BY <1>1, <1>2 DEF Framed
<1>. QED
  BY <1>3, SeqMonotonic

LEMMA AppendingFrame ==
  ASSUME NEW n \in Nat, NEW frames \in Seq(Framed(n)), NEW f \in Framed(n)
  PROVE  /\ Append(frames, f) \in Seq(Framed(n))
         /\ Append(frames, f) # <<>> /\ Last(Append(frames, f)) = f
         /\ Delivered(Append(frames, f)) = Delivered(frames) \o f.text
<1>. DEFINE more == Append(frames, f)
<1>1. /\ more \in Seq(Framed(n)) /\ more # <<>> /\ Len(more) = Len(frames) + 1
      /\ more[Len(frames) + 1] = f
  BY AppendProperties
<1>2. Delivered(more) = Delivered(frames) \o f.text
  BY DeliveredAppend
<1>. HIDE DEF more
<1>3. Last(more) = f
  BY <1>1 DEF Last
<1>. QED
  BY <1>1, <1>2, <1>3 DEF more

LEMMA AppendingEnds ==
  ASSUME NEW n \in Nat, NEW frames \in Seq(Framed(n)), NEW f \in Framed(n),
         NEW more, more = Append(frames, f), EndsComplete(frames),
         \/ f.kind \notin {"end", "done"}
         \/ Len(Delivered(frames) \o f.text) = f.seen
  PROVE  EndsComplete(more)
<1>. DEFINE len == Len(frames)
<1>1. /\ more \in Seq(Framed(n)) /\ more # <<>> /\ Len(more) = len + 1 /\ len \in Nat
      /\ more[len + 1] = f
  BY AppendProperties
<1>2. \A i \in 1..len : more[i] = frames[i]
  BY AppendProperties
<1>3. DOMAIN frames = 1..len /\ DOMAIN more = 1..(len + 1)
  BY <1>1
<1>4. Delivered(more) = Delivered(frames) \o f.text
  BY DeliveredAppend
<1>. HIDE DEF len
<1>. SUFFICES ASSUME NEW i \in 1..(len + 1), more[i].kind \in {"end", "done"}
              PROVE  Len(Delivered(SubSeq(more, 1, i))) = more[i].seen
  BY <1>3 DEF EndsComplete
<1>5. CASE i = len + 1
  <2>1. SubSeq(more, 1, i) = more
    BY <1>1, <1>5, SubSeqFull
  <2>. QED
    BY <1>1, <1>4, <1>5, <2>1
<1>6. CASE i # len + 1
  <2>1. i \in 1..len
    BY <1>1, <1>6
  <2>2. SubSeq(more, 1, i) = SubSeq(frames, 1, i)
    <3>1. frames \in Seq(Framed(n)) /\ <<f>> \in Seq(Framed(n)) /\ more = frames \o <<f>>
      BY AppendIsConcat
    <3>2. 1 \in 1..Len(frames) /\ i \in 1..Len(frames)
      BY <1>1, <2>1 DEF len
    <3>. QED
      BY <3>1, <3>2, SubSeqOfConcat1
  <2>. QED
    BY <1>2, <1>3, <2>1, <2>2 DEF EndsComplete
<1>. QED
  BY <1>5, <1>6

LEMMA AppendingKinds ==
  ASSUME NEW n \in Nat, NEW frames \in Seq(Framed(n)), NEW f \in Framed(n),
         NEW more, more = Append(frames, f)
  PROVE  /\ NoError(frames) /\ f.kind # "error" => NoError(more)
         /\ NoError(frames) => ErrorsLast(more)
         /\ DoneAt(more) = DoneAt(frames) \cup (IF f.kind = "done" THEN {f.seen} ELSE {})
<1>. DEFINE len == Len(frames)
<1>1. /\ more \in Seq(Framed(n)) /\ more # <<>> /\ Len(more) = len + 1 /\ len \in Nat
      /\ more[len + 1] = f
  BY AppendProperties
<1>2. \A i \in 1..len : more[i] = frames[i]
  BY AppendProperties
<1>3. DOMAIN frames = 1..len /\ DOMAIN more = 1..(len + 1)
  BY <1>1
<1>. HIDE DEF len
<1>4. \A i \in 1..(len + 1) : i = len + 1 \/ i \in 1..len
  BY <1>1
<1>5. NoError(frames) /\ f.kind # "error" => NoError(more)
  BY <1>1, <1>2, <1>3, <1>4 DEF NoError
<1>6. NoError(frames) => ErrorsLast(more)
  BY <1>1, <1>2, <1>3, <1>4 DEF NoError, ErrorsLast
<1>7. DoneAt(more) = DoneAt(frames) \cup (IF f.kind = "done" THEN {f.seen} ELSE {})
  <2>1. 1..(len + 1) = 1..len \cup {len + 1}
    BY <1>1
  <2>. QED
    BY <1>1, <1>2, <1>3, <2>1 DEF DoneAt
<1>. QED
  BY <1>5, <1>6, <1>7

-----------------------------------------------------------------------------
(* Frames and a held part that together are the first n units.             *)

Splits(n, frames, held) ==
  /\ frames \in Seq(Framed(n)) /\ held \in Seq(1..n)
  /\ Delivered(frames) \o held = Count(n)
  /\ EndsComplete(frames)

LEMMA CountType ==
  ASSUME NEW n \in Nat
  PROVE  Count(n) \in Seq(1..n) /\ Len(Count(n)) = n
BY DEF Count

LEMMA CountMore ==
  ASSUME NEW n \in Nat, NEW k \in Nat
  PROVE  /\ [i \in 1..k |-> n + i] \in Seq(1..(n + k))
         /\ Len([i \in 1..k |-> n + i]) = k
         /\ Count(n) \o [i \in 1..k |-> n + i] = Count(n + k)
<1>. DEFINE more == [i \in 1..k |-> n + i]
<1>1. more \in Seq(1..(n + k)) /\ Len(more) = k
  OBVIOUS
<1>2. Count(n) \in Seq(1..(n + k)) /\ Len(Count(n)) = n
  BY DEF Count
<1>3. Count(n + k) \in Seq(1..(n + k)) /\ Len(Count(n + k)) = n + k
  BY DEF Count
<1>4. /\ Count(n) \o more \in Seq(1..(n + k)) /\ Len(Count(n) \o more) = n + k
      /\ \A i \in 1..(n + k) : (Count(n) \o more)[i] = IF i <= n THEN Count(n)[i] ELSE more[i - n]
  <2>. DEFINE D == 1..(n + k)
              c == Count(n)
  <2>1. c \in Seq(D) /\ more \in Seq(D)
    BY <1>1, <1>2
  <2>. HIDE DEF more, D, c
  <2>2. /\ c \o more \in Seq(D) /\ Len(c \o more) = Len(c) + Len(more)
        /\ \A i \in 1..(Len(c) + Len(more)) :
             (c \o more)[i] = IF i <= Len(c) THEN c[i] ELSE more[i - Len(c)]
    BY <2>1, ConcatProperties
  <2>3. Len(c) = n /\ Len(more) = k
    BY <1>1, <1>2 DEF c
  <2>. QED
    BY <2>2, <2>3, Zenon DEF D, c
<1>5. \A i \in 1..(n + k) : (IF i <= n THEN Count(n)[i] ELSE more[i - n]) = Count(n + k)[i]
  BY DEF Count
<1>. HIDE DEF more
<1>6. Count(n) \o more = Count(n + k)
  BY <1>3, <1>4, <1>5, SeqEqual
<1>. QED
  BY <1>1, <1>6 DEF more

(* What was delivered is a prefix of the message. *)
LEMMA SplitLength ==
  ASSUME NEW n \in Nat, NEW frames, NEW held, Splits(n, frames, held)
  PROVE  /\ Len(Delivered(frames)) \in 0..n
         /\ Delivered(frames) = Count(Len(Delivered(frames)))
<1>. DEFINE a == Delivered(frames)
            D == 1..n
            both == a \o held
<1>1. a \in Seq(D) /\ held \in Seq(D)
  BY DeliveredType DEF Splits
<1>. HIDE DEF a
<1>2. /\ both \in Seq(D) /\ Len(both) = Len(a) + Len(held)
      /\ \A i \in 1..(Len(a) + Len(held)) : both[i] = IF i <= Len(a) THEN a[i] ELSE held[i - Len(a)]
  <2>. HIDE DEF D
  <2>. QED
    BY <1>1, ConcatProperties
<1>3. Len(a) \in Nat /\ Len(held) \in Nat
  BY <1>1
<1>4. both = Count(n)
  BY DEF Splits, a
<1>. HIDE DEF both
<1>5. Len(a) <= n
  BY <1>2, <1>3, <1>4, CountType
<1>6. \A i \in 1..Len(a) : a[i] = Count(n)[i]
  BY <1>2, <1>3, <1>4
<1>7. \A i \in 1..Len(a) : a[i] = Count(Len(a))[i]
  <2>1. \A m \in Nat : \A i \in 1..m : Count(m)[i] = i
    BY DEF Count
  <2>2. \A i \in 1..Len(a) : i \in 1..n
    BY <1>3, <1>5
  <2>3. \A i \in 1..Len(a) : Count(n)[i] = i /\ Count(Len(a))[i] = i
    BY <1>3, <2>1, <2>2
  <2>. QED
    BY <1>6, <2>3
<1>8. Count(Len(a)) \in Seq(D) /\ Len(Count(Len(a))) = Len(a)
  BY <1>3, <1>5 DEF Count
<1>9. a = Count(Len(a))
  <2>. HIDE DEF D
  <2>. QED
    BY <1>1, <1>7, <1>8, SeqEqual
<1>. QED
  BY <1>3, <1>5, <1>9 DEF a

(* The frame of what is held. *)
LEMMA Flushing ==
  ASSUME message \in Seq(Indexes), NEW n, n = Len(message), Splits(n, out, buffer)
  PROVE  /\ Splits(n, out \o HeldBack, <<>>)
         /\ Delivered(out \o HeldBack) = Count(n)
         /\ NoError(out) => NoError(out \o HeldBack)
         /\ DoneAt(out \o HeldBack) = DoneAt(out)
<1>. DEFINE flushed == out \o HeldBack
<1>1. n \in Nat /\ <<>> \in Seq(1..n) /\ out \in Seq(Framed(n)) /\ buffer \in Seq(1..n)
  BY DEF Splits
<1>2. Delivered(out) \in Seq(1..n)
  BY <1>1, DeliveredType
<1>. SUFFICES /\ Splits(n, flushed, <<>>)
              /\ Delivered(flushed) = Count(n)
              /\ NoError(out) => NoError(flushed)
              /\ DoneAt(flushed) = DoneAt(out)
  OBVIOUS
<1>3. CASE buffer = <<>>
  <2>1. flushed = out
    BY <1>1, <1>3, ConcatEmptySeq DEF HeldBack
  <2>2. Delivered(out) \o <<>> = Delivered(out)
    BY <1>2, ConcatEmptySeq
  <2>. QED
    BY <1>1, <1>3, <2>1, <2>2 DEF Splits
<1>4. CASE buffer # <<>>
  <2>. DEFINE f == Frame("delta", buffer, 0, FALSE, Len(message))
  <2>1. f \in Framed(n) /\ f.kind = "delta" /\ f.text = buffer
    BY <1>1 DEF Frame, Framed, Kinds
  <2>. HIDE DEF f
  <2>2. flushed = Append(out, f)
    BY <1>1, <1>4, <2>1, AppendIsConcat DEF HeldBack, f
  <2>. HIDE DEF flushed
  <2>3. /\ flushed \in Seq(Framed(n)) /\ Delivered(flushed) = Delivered(out) \o buffer
        /\ EndsComplete(out) => EndsComplete(flushed)
        /\ NoError(out) => NoError(flushed)
        /\ DoneAt(flushed) = DoneAt(out)
    <3>1. flushed \in Seq(Framed(n)) /\ Delivered(flushed) = Delivered(out) \o buffer
      <4>1. /\ Append(out, f) \in Seq(Framed(n))
            /\ Delivered(Append(out, f)) = Delivered(out) \o f.text
        BY <1>1, <2>1, AppendingFrame
      <4>. QED
        BY <2>1, <2>2, <4>1, Zenon
    <3>2. EndsComplete(out) => EndsComplete(flushed)
      BY <1>1, <2>1, <2>2, AppendingEnds
    <3>3. NoError(out) => NoError(flushed)
      BY <1>1, <2>1, <2>2, AppendingKinds
    <3>4. DoneAt(flushed) = DoneAt(out) \cup (IF f.kind = "done" THEN {f.seen} ELSE {})
      BY <1>1, <2>1, <2>2, AppendingKinds
    <3>5. DoneAt(flushed) = DoneAt(out)
      BY <2>1, <3>4
    <3>. QED
      BY <3>1, <3>2, <3>3, <3>5
  <2>4. Delivered(flushed) = Count(n) /\ Count(n) \o <<>> = Count(n)
    BY <1>1, <2>3, CountType, ConcatEmptySeq DEF Splits
  <2>. QED
    BY <1>1, <2>3, <2>4 DEF Splits
<1>. QED
  BY <1>3, <1>4

(* Cutting a sequence anywhere leaves it what it was. *)
LEMMA CutAnywhere ==
  ASSUME NEW D, NEW a \in Seq(D), NEW b \in Seq(D), NEW safe \in 0..Len(b)
  PROVE  /\ SubSeq(b, 1, safe) \in Seq(D)
         /\ SubSeq(b, safe + 1, Len(b)) \in Seq(D)
         /\ (a \o SubSeq(b, 1, safe)) \o SubSeq(b, safe + 1, Len(b)) = a \o b
         /\ safe = 0 => SubSeq(b, safe + 1, Len(b)) = b
<1>. DEFINE left == SubSeq(b, 1, safe)
            rest == SubSeq(b, safe + 1, Len(b))
<1>1. Len(b) \in Nat /\ safe \in Nat /\ safe <= Len(b)
  OBVIOUS
<1>2. /\ \A i \in 1..safe : b[i] \in D
      /\ \A i \in (safe + 1)..Len(b) : b[i] \in D
      /\ safe \in Int /\ Len(b) \in Int /\ safe + 1 \in Int /\ 1 \in Int
  BY <1>1
<1>3. left \in Seq(D) /\ rest \in Seq(D)
  BY <1>2, SubSeqProperties
<1>4. left \o rest = SubSeq(b, 1, Len(b))
  <2>1. 1 \in 1..(Len(b) + 1) /\ safe \in (1 - 1)..Len(b) /\ Len(b) \in safe..Len(b)
    BY <1>1
  <2>. QED
    BY <2>1, ConcatAdjacentSubSeq
<1>5. SubSeq(b, 1, Len(b)) = b
  BY SubSeqFull
<1>6. safe = 0 => rest = b
  BY <1>5
<1>. HIDE DEF left, rest
<1>7. (a \o left) \o rest = a \o (left \o rest)
  BY <1>3, ConcatAssociative
<1>8. (a \o left) \o rest = a \o b
  BY <1>4, <1>5, <1>7
<1>. QED
  BY <1>3, <1>6, <1>8 DEF left, rest

(* k units are received and fed, and the first safe of what is then held   *)
(* may leave in a frame.                                                   *)
LEMMA Feeding ==
  ASSUME NEW n \in Nat, NEW k \in Nat, NEW frames, NEW held, Splits(n, frames, held),
         NEW units, units = [i \in 1..k |-> n + i],
         NEW fed, fed = held \o units,
         NEW safe \in 0..Len(fed)
  PROVE  LET left == SubSeq(fed, 1, safe)
             rest == SubSeq(fed, safe + 1, Len(fed))
         IN  /\ left \in Seq(1..(n + k)) /\ rest \in Seq(1..(n + k))
             /\ frames \in Seq(Framed(n + k)) /\ EndsComplete(frames)
             /\ safe = 0 => Splits(n + k, frames, rest)
             /\ \A f \in Framed(n + k) :
                  f.kind = "delta" /\ f.text = left => Splits(n + k, Append(frames, f), rest)
<1>. DEFINE m == n + k
            D == 1..m
            before == Delivered(frames)
            left == SubSeq(fed, 1, safe)
            rest == SubSeq(fed, safe + 1, Len(fed))
<1>1. m \in Nat /\ n <= m /\ 1..n \subseteq D
  OBVIOUS
<1>2. frames \in Seq(Framed(m)) /\ EndsComplete(frames)
  BY <1>1, FramesGrow DEF Splits
<1>3. before \in Seq(D) /\ held \in Seq(D) /\ units \in Seq(D)
  <2>1. before \in Seq(1..m) /\ units \in Seq(1..m)
    BY <1>1, <1>2, DeliveredType, CountMore
  <2>2. held \in Seq(D)
    BY <1>1, SeqMonotonic DEF Splits
  <2>. QED
    BY <2>1, <2>2
<1>4. before \o held = Count(n) /\ Count(n) \o units = Count(m)
  BY CountMore DEF Splits
<1>. HIDE DEF D, m, before
<1>5. fed \in Seq(D)
  BY <1>3, ConcatProperties
<1>6. before \o fed = Count(m)
  <2>1. (before \o held) \o units = before \o (held \o units)
    BY <1>3, ConcatAssociative
  <2>. QED
    BY <1>4, <2>1
<1>7. /\ left \in Seq(D) /\ rest \in Seq(D)
      /\ (before \o left) \o rest = before \o fed
      /\ safe = 0 => rest = fed
  <2>1. \A x \in Seq(D) : \A c \in 0..Len(x) :
          /\ SubSeq(x, 1, c) \in Seq(D)
          /\ SubSeq(x, c + 1, Len(x)) \in Seq(D)
          /\ (before \o SubSeq(x, 1, c)) \o SubSeq(x, c + 1, Len(x)) = before \o x
          /\ c = 0 => SubSeq(x, c + 1, Len(x)) = x
    BY <1>3, CutAnywhere
  <2>. QED
    BY <1>5, <2>1, Zenon
<1>. HIDE DEF left, rest
<1>8. safe = 0 => Splits(m, frames, rest)
  BY <1>2, <1>6, <1>7 DEF Splits, before, D
<1>9. ASSUME NEW f \in Framed(m), f.kind = "delta", f.text = left
      PROVE  Splits(m, Append(frames, f), rest)
  <2>. DEFINE more == Append(frames, f)
  <2>1. more = Append(frames, f) /\ f.kind \notin {"end", "done"}
    BY <1>9
  <2>. HIDE DEF more
  <2>2. more \in Seq(Framed(m)) /\ Delivered(more) = Delivered(frames) \o f.text
    <3>1. /\ Append(frames, f) \in Seq(Framed(m))
          /\ Delivered(Append(frames, f)) = Delivered(frames) \o f.text
      BY <1>1, <1>2, AppendingFrame
    <3>. QED
      BY <2>1, <3>1, Zenon
  <2>3. EndsComplete(more)
    BY <1>1, <1>2, <2>1, AppendingEnds
  <2>4. Delivered(more) \o rest = Count(m)
    BY <1>6, <1>7, <1>9, <2>2 DEF before
  <2>. QED
    BY <1>7, <2>2, <2>3, <2>4 DEF Splits, D, more
<1>. QED
  BY <1>2, <1>7, <1>8, <1>9 DEF m, D, left, rest

(* An answer in one piece: its choices have consecutive stretches of the   *)
(* message, and deliver all of it.                                         *)
LEMMA EndsRise ==
  ASSUME NEW m \in Nat, NEW ends \in [0..m -> Nat], \A i \in 1..m : ends[i - 1] <= ends[i]
  PROVE  \A i \in 0..m : ends[i] <= ends[m]
<1>. DEFINE G == {j \in Nat : j <= m => \A i \in 0..j : ends[i] <= ends[j]}
<1>1. 0 \in G
  OBVIOUS
<1>2. ASSUME NEW j \in G
      PROVE  j + 1 \in G
  <2>0. j \in Nat /\ (j <= m => \A i \in 0..j : ends[i] <= ends[j])
    BY DEF G
  <2>. HIDE DEF G
  <2>. SUFFICES ASSUME j + 1 <= m
                PROVE  \A i \in 0..(j + 1) : ends[i] <= ends[j + 1]
    BY <2>0 DEF G
  <2>. SUFFICES ASSUME NEW i \in 0..(j + 1)
                PROVE  ends[i] <= ends[j + 1]
    OBVIOUS
  <2>1. j \in Nat /\ j + 1 \in 1..m /\ ends[j] <= ends[j + 1]
    <3>1. j \in Nat /\ j + 1 \in 1..m /\ (j + 1) - 1 = j
      BY <2>0
    <3>. QED
      BY <3>1
  <2>2. ends[j] \in Nat /\ ends[j + 1] \in Nat /\ ends[i] \in Nat
    BY <2>1
  <2>3. CASE i = j + 1
    BY <2>2, <2>3
  <2>4. CASE i # j + 1
    <3>1. i \in 0..j /\ j <= m
      BY <2>1, <2>4
    <3>2. ends[i] <= ends[j]
      BY <2>0, <3>1
    <3>. QED
      BY <2>1, <2>2, <3>2
  <2>. QED
    BY <2>3, <2>4
<1>. HIDE DEF G
<1>3. G = Nat
  <2>1. G \in SUBSET Nat
    BY DEF G
  <2>2. \A j \in G : j + 1 \in G
    BY <1>2
  <2>. QED
    BY <1>1, <2>1, <2>2, NatSetInduction
<1>4. m \in G
  BY <1>3
<1>. QED
  BY <1>4 DEF G

LEMMA WholeAnswer ==
  ASSUME NEW m \in Nat, NEW ends \in [0..m -> Nat], ends[0] = 0,
         \A i \in 1..m : ends[i - 1] <= ends[i],
         NEW n, n = ends[m],
         NEW frames \in Seq(Framed(n)), Len(frames) = m,
         \A i \in 1..m : frames[i].text = [j \in 1..(ends[i] - ends[i - 1]) |-> ends[i - 1] + j]
  PROVE  Delivered(frames) = Count(n)
<1>0. n \in Nat
  OBVIOUS
<1>. DEFINE G == {j \in Nat : j <= m => Delivered(SubSeq(frames, 1, j)) = Count(ends[j])}
<1>1. 0 \in G
  <2>1. SubSeq(frames, 1, 0) = <<>>
    BY SubSeqEmpty
  <2>2. Count(0) = <<>>
    BY DEF Count
  <2>. QED
    BY <2>1, <2>2, DeliveredEmpty
<1>2. ASSUME NEW j \in G
      PROVE  j + 1 \in G
  <2>0. j \in Nat /\ (j <= m => Delivered(SubSeq(frames, 1, j)) = Count(ends[j]))
    BY DEF G
  <2>. SUFFICES ASSUME j + 1 <= m
                PROVE  Delivered(SubSeq(frames, 1, j + 1)) = Count(ends[j + 1])
    BY <2>0
  <2>. DEFINE so == SubSeq(frames, 1, j)
              f == frames[j + 1]
  <2>1. j + 1 \in 1..m /\ 1 \in 1..m /\ (j + 1) - 1 = j /\ j \in 0..m /\ j + 1 \in 0..m
    BY <2>0
  <2>2. so \in Seq(Framed(n)) /\ f \in Framed(n)
    <3>1. \A i \in 1..j : frames[i] \in Framed(n)
      BY <2>0, <2>1
    <3>2. so \in Seq(Framed(n))
      BY <2>0, <3>1, SubSeqProperties
    <3>3. f \in Framed(n)
      BY <2>1
    <3>. QED
      BY <3>2, <3>3
  <2>3. SubSeq(frames, 1, j + 1) = Append(so, f)
    <3>. HIDE DEF so, f
    <3>1. 1 \in 1..Len(frames) /\ j + 1 \in 1..Len(frames)
      BY <2>1
    <3>2. SubSeq(frames, 1, j + 1) = SubSeq(frames, 1, (j + 1) - 1) \o <<frames[j + 1]>>
      BY <3>1, SubSeqRecursiveSecond
    <3>3. SubSeq(frames, 1, j + 1) = so \o <<f>>
      BY <2>1, <3>2 DEF so, f
    <3>. QED
      BY <2>2, <3>3, AppendIsConcat
  <2>4. Delivered(so) = Count(ends[j])
    BY <2>0, <2>1
  <2>5. f.text = [i \in 1..(ends[j + 1] - ends[j]) |-> ends[j] + i]
    BY <2>1
  <2>6. /\ ends[j] \in Nat /\ ends[j + 1] - ends[j] \in Nat
        /\ ends[j] + (ends[j + 1] - ends[j]) = ends[j + 1]
    BY <2>1
  <2>. HIDE DEF so, f
  <2>7. Count(ends[j]) \o f.text = Count(ends[j + 1])
    <3>. DEFINE k == ends[j + 1] - ends[j]
    <3>1. k \in Nat /\ ends[j] + k = ends[j + 1] /\ f.text = [i \in 1..k |-> ends[j] + i]
      BY <2>5, <2>6
    <3>. HIDE DEF k
    <3>2. Count(ends[j]) \o [i \in 1..k |-> ends[j] + i] = Count(ends[j] + k)
      BY <2>6, <3>1, CountMore
    <3>. QED
      BY <3>1, <3>2, Zenon
  <2>8. Delivered(Append(so, f)) = Delivered(so) \o f.text
    BY <1>0, <2>2, DeliveredAppend
  <2>. QED
    BY <2>3, <2>4, <2>7, <2>8, Zenon
<1>3. m \in G
  <2>. HIDE DEF G
  <2>1. G = Nat
    <3>1. G \in SUBSET Nat
      BY DEF G
    <3>2. \A j \in G : j + 1 \in G
      BY <1>2
    <3>. QED
      BY <1>1, <3>1, <3>2, NatSetInduction
  <2>. QED
    BY <2>1
<1>4. SubSeq(frames, 1, m) = frames
  BY SubSeqFull
<1>5. Delivered(SubSeq(frames, 1, m)) = Count(ends[m])
  BY <1>3 DEF G
<1>. QED
  BY <1>4, <1>5, Zenon

-----------------------------------------------------------------------------
(* The inductive invariant.                                                *)

ScalarInv ==
  /\ status \in {"new", "posting", "connecting", "streaming",
                 "ended", "failed", "dropped", "broken", "gone"}
  /\ reply \in {0, 200, 400, 500, 502}
  /\ lines \in 0..MaxLines
  /\ message \in Seq(Indexes) /\ Len(message) <= MaxText
  /\ sawDone \in BOOLEAN
  /\ finished \in 0..lines

FramesInv ==
  /\ out \in Seq(Framed(Len(message))) /\ buffer \in Seq(1..Len(message))
  /\ status # "broken" => Delivered(out) \o buffer = Count(Len(message))
  /\ EndsComplete(out)

(* Nothing is sent before the upstream is asked, and no error before the end. *)
StartInv ==
  /\ status \in {"new", "posting", "connecting"} =>
       out = <<>> /\ buffer = <<>> /\ message = <<>> /\ ~sawDone
  /\ status \in {"new", "posting"} => reply = 0
  /\ status \in {"connecting", "streaming"} => reply = 200 /\ NoError(out)

ToldInv ==
  /\ reply >= 400 => out = <<>>
  /\ NoError(out) \/ (ErrorsLast(out) /\ reply = 200)
  /\ status \in {"failed", "dropped"} =>
       reply >= 400 \/ (out # <<>> /\ Last(out).kind = "error")

(* What was owed at a [DONE] was there. *)
DoneInv ==
  /\ sawDone <=> DoneAt(out) # {}
  /\ \A d \in DoneAt(out) : d <= Len(Delivered(out))

GuardrailInv == ScalarInv /\ FramesInv /\ StartInv /\ ToldInv /\ DoneInv

(* What no other step depends on: a response that broke under a 200 had    *)
(* sent no error, and one line withholds one frame at the most.            *)
SilenceInv ==
  status = "broken" =>
    reply = 500 \/ (reply = 200 /\ NoError(out))
WithheldInv == withheld \in 0..lines

LEMMA InvariantSays ==
  ASSUME GuardrailInv, SilenceInv, WithheldInv
  PROVE  TypeOK /\ TextConserved /\ TailBeforeEnd /\ FailureToldOnce
<1>1. finished \in 0..MaxLines /\ withheld \in 0..MaxLines
  BY GuardrailAssumption DEF GuardrailInv, ScalarInv, WithheldInv
<1>2. TypeOK
  BY <1>1 DEF GuardrailInv, ScalarInv, FramesInv, TypeOK, Framed
<1>3. TextConserved
  <2>1. message \in Seq(Indexes)
    BY DEF GuardrailInv, ScalarInv
  <2>2. DOMAIN message = 1..Len(message)
    BY <2>1
  <2>3. status # "broken" => Delivered(out) \o buffer = Count(Len(message))
    BY DEF GuardrailInv, FramesInv
  <2>. QED
    BY <2>2, <2>3, Zenon DEF TextConserved, Count
<1>4. TailBeforeEnd
  BY DEF GuardrailInv, FramesInv, EndsComplete, TailBeforeEnd, Sent
<1>5. FailureToldOnce
  BY DEF GuardrailInv, ToldInv, NoError, ErrorsLast, SilenceInv, FailureToldOnce
<1>. QED
  BY <1>2, <1>3, <1>4, <1>5

LEMMA Initially == Init => GuardrailInv
<1>. SUFFICES ASSUME Init
              PROVE  GuardrailInv
  OBVIOUS
<1>1. ScalarInv
  <2>1. <<>> \in Seq(Indexes) /\ Len(<<>>) = 0 /\ 0 \in 0..MaxLines /\ 0 <= MaxText /\ 0 \in 0..0
    BY GuardrailAssumption
  <2>. QED
    BY <2>1 DEF Init, ScalarInv
<1>2. EndsComplete(<<>>) /\ NoError(<<>>) /\ DoneAt(<<>>) = {}
  BY DEF EndsComplete, NoError, DoneAt
<1>3. Delivered(<<>>) \o <<>> = Count(0)
  BY DeliveredEmpty DEF Count
<1>4. FramesInv
  BY <1>2, <1>3 DEF Init, FramesInv
<1>5. StartInv /\ ToldInv /\ DoneInv
  BY <1>2 DEF Init, StartInv, ToldInv, DoneInv
<1>. QED
  BY <1>1, <1>4, <1>5 DEF GuardrailInv

(* Steps that send nothing. *)
LEMMA QuietSteps ==
  ASSUME GuardrailInv,
         \/ RejectBody \/ Accept \/ AnswerUnusable \/ Opened \/ Disconnect \/ UNCHANGED vars
  PROVE  GuardrailInv'
<1>1. /\ UNCHANGED <<lines, message, buffer, sawDone, finished, out>>
      /\ status = "broken" => status' = "broken"
      /\ \/ UNCHANGED <<status, reply>>
         \/ status = "new" /\ status' \in {"failed", "broken"} /\ reply' \in {400, 500}
         \/ status = "new" /\ status' = "posting" /\ reply' = 0
         \/ status = "new" /\ status' = "connecting" /\ reply' = 200
         \/ status = "posting" /\ status' \in {"failed", "broken"} /\ reply' \in {500, 502}
         \/ status = "connecting" /\ status' = "streaming" /\ reply' = reply
         \/ status \in {"connecting", "streaming"} /\ status' = "gone" /\ reply' = reply
  BY DEF RejectBody, Accept, AnswerUnusable, Opened, Disconnect, Answer, vars
<1>2. NoError(<<>>)
  BY DEF NoError
<1>3. ScalarInv'
  BY <1>1 DEF GuardrailInv, ScalarInv
<1>4. FramesInv'
  BY <1>1 DEF GuardrailInv, FramesInv
<1>5. StartInv'
  BY <1>1, <1>2 DEF GuardrailInv, StartInv
<1>6. ToldInv'
  BY <1>1, <1>2 DEF GuardrailInv, ToldInv, StartInv
<1>7. DoneInv'
  BY <1>1 DEF GuardrailInv, DoneInv
<1>. QED
  BY <1>3, <1>4, <1>5, <1>6, <1>7 DEF GuardrailInv

(* A response that has begun, and how its frames stand.                    *)
LEMMA Begun ==
  ASSUME GuardrailInv, status \in {"connecting", "streaming"}
  PROVE  /\ Len(message) \in Nat
         /\ Splits(Len(message), out, buffer)
         /\ reply = 200 /\ NoError(out)
BY DEF GuardrailInv, ScalarInv, FramesInv, StartInv, Splits

(* A failure after the response began: one error frame. *)
LEMMA FailingSteps ==
  ASSUME GuardrailInv, Refused \/ Malformed \/ Drop
  PROVE  /\ GuardrailInv'
         /\ Delivered(out') = Delivered(out) /\ DoneAt(out') = DoneAt(out)
<1>. DEFINE n == Len(message)
            f == ErrorFrame
<1>1. /\ status \in {"connecting", "streaming"} /\ status' \in {"failed", "dropped"}
      /\ UNCHANGED <<reply, message, buffer, sawDone, finished>>
      /\ lines' = lines \/ (lines < MaxLines /\ lines' = lines + 1)
      /\ out' = Append(out, f)
  BY DEF Refused, Malformed, Drop, Fail, ReadLine
<1>2. n \in Nat /\ out \in Seq(Framed(n)) /\ reply = 200 /\ NoError(out)
  BY <1>1, Begun DEF Splits
<1>3. f \in Framed(n) /\ f.kind = "error" /\ f.text = <<>>
  <2>1. <<>> \in Seq(1..n) /\ n \in 0..n
    BY <1>2
  <2>. QED
    BY <2>1 DEF ErrorFrame, Frame, Framed, Kinds
<1>. HIDE DEF n, f
<1>4. /\ out' \in Seq(Framed(n)) /\ out' # <<>> /\ Last(out') = f
      /\ Delivered(out') = Delivered(out)
  <2>1. Delivered(out) \in Seq(1..n)
    BY <1>2, DeliveredType
  <2>2. Delivered(out) \o <<>> = Delivered(out)
    BY <2>1, ConcatEmptySeq
  <2>3. /\ Append(out, f) \in Seq(Framed(n))
        /\ Append(out, f) # <<>> /\ Last(Append(out, f)) = f
        /\ Delivered(Append(out, f)) = Delivered(out) \o f.text
    BY <1>2, <1>3, AppendingFrame
  <2>. QED
    BY <1>1, <1>3, <2>2, <2>3, Zenon
<1>5. EndsComplete(out')
  <2>1. f.kind \notin {"end", "done"}
    BY <1>3
  <2>2. EndsComplete(out)
    BY DEF GuardrailInv, FramesInv
  <2>. QED
    BY <1>1, <1>2, <1>3, <2>1, <2>2, AppendingEnds
<1>6. ErrorsLast(out') /\ DoneAt(out') = DoneAt(out)
  <2>1. /\ NoError(out) => ErrorsLast(out')
        /\ DoneAt(out') = DoneAt(out) \cup (IF f.kind = "done" THEN {f.seen} ELSE {})
    BY <1>1, <1>2, <1>3, AppendingKinds
  <2>. QED
    BY <1>2, <1>3, <2>1
<1>7. ScalarInv'
  BY <1>1, GuardrailAssumption DEF GuardrailInv, ScalarInv
<1>8. FramesInv'
  BY <1>1, <1>4, <1>5 DEF GuardrailInv, FramesInv, n
<1>9. StartInv'
  BY <1>1 DEF StartInv
<1>10. ToldInv'
  BY <1>1, <1>2, <1>3, <1>4, <1>6 DEF ToldInv
<1>11. DoneInv'
  BY <1>1, <1>4, <1>6 DEF GuardrailInv, DoneInv
<1>. QED
  BY <1>4, <1>6, <1>7, <1>8, <1>9, <1>10, <1>11 DEF GuardrailInv

(* An answer in one piece. *)
LEMMA WholeStep ==
  ASSUME GuardrailInv, AnswerWhole
  PROVE  /\ GuardrailInv'
         /\ Delivered(out') = Count(Len(message')) /\ Len(message') \in 0..MaxText
<1>1. PICK choices \in BoundedSeq(Indexes, MaxLines) :
           \E ends \in [0..Len(choices) -> 0..MaxText] :
           \E sent \in [1..ends[Len(choices)] -> Indexes] :
             /\ ends[0] = 0
             /\ \A i \in DOMAIN choices : ends[i - 1] <= ends[i]
             /\ message' = sent
             /\ out' = [i \in DOMAIN choices |->
                   Frame("choice", [j \in 1..(ends[i] - ends[i - 1]) |-> ends[i - 1] + j],
                         choices[i], FALSE, Len(sent))]
  BY Zenon DEF AnswerWhole
<1>. DEFINE m == Len(choices)
<1>2. m \in Nat /\ DOMAIN choices = 1..m /\ \A i \in 1..m : choices[i] \in Indexes
  BY GuardrailAssumption DEF BoundedSeq, SeqOf
<1>3. PICK ends \in [0..m -> 0..MaxText] :
           \E sent \in [1..ends[m] -> Indexes] :
             /\ ends[0] = 0
             /\ \A i \in DOMAIN choices : ends[i - 1] <= ends[i]
             /\ message' = sent
             /\ out' = [i \in DOMAIN choices |->
                   Frame("choice", [j \in 1..(ends[i] - ends[i - 1]) |-> ends[i - 1] + j],
                         choices[i], FALSE, Len(sent))]
  BY <1>1, Zenon
<1>. DEFINE n == ends[m]
            text(i) == [j \in 1..(ends[i] - ends[i - 1]) |-> ends[i - 1] + j]
            f(i) == [kind |-> "choice", text |-> text(i), choice |-> choices[i],
                     fin |-> FALSE, seen |-> n]
<1>4. ends \in [0..m -> Nat] /\ n \in 0..MaxText /\ n \in Nat
  BY <1>2, GuardrailAssumption
<1>5. message' \in [1..n -> Indexes]
  BY <1>3
<1>6. message' \in Seq(Indexes) /\ Len(message') = n
  BY <1>4, <1>5
<1>7. ends[0] = 0 /\ \A i \in 1..m : ends[i - 1] <= ends[i]
  BY <1>2, <1>3
<1>8. out' = [i \in 1..m |-> f(i)]
  BY <1>2, <1>3, <1>6, Zenon DEF Frame
<1>9. \A i \in 1..m : f(i) \in Framed(n)
  <2>. SUFFICES ASSUME NEW i \in 1..m
                PROVE  f(i) \in Framed(n)
    OBVIOUS
  <2>1. i \in 0..m /\ i - 1 \in 0..m
    BY <1>2
  <2>2. ends[i] <= n /\ ends[i] \in Nat /\ ends[i - 1] \in Nat
    BY <1>2, <1>4, <1>7, <2>1, EndsRise
  <2>3. text(i) \in Seq(1..n)
    <3>. DEFINE k == ends[i] - ends[i - 1]
                e == ends[i - 1]
    <3>1. k \in Nat /\ e \in Nat /\ e + k <= n
      BY <1>7, <2>2
    <3>. HIDE DEF k, e
    <3>2. [j \in 1..k |-> e + j] \in Seq(1..n)
      BY <1>4, <3>1
    <3>. QED
      BY <3>2 DEF k, e
  <2>. HIDE DEF text
  <2>4. choices[i] \in Indexes /\ n \in 0..n
    BY <1>2, <1>4
  <2>. QED
    BY <2>3, <2>4 DEF Framed, Kinds
<1>10. /\ out' \in Seq(Framed(n)) /\ Len(out') = m
       /\ \A i \in 1..m : out'[i].text = text(i)
       /\ \A i \in DOMAIN out' : out'[i].kind = "choice"
  <2>. HIDE DEF text
  <2>1. \A i \in 1..m : f(i).text = text(i) /\ f(i).kind = "choice"
    OBVIOUS
  <2>. HIDE DEF f
  <2>2. DOMAIN out' = 1..m /\ \A i \in 1..m : out'[i] = f(i)
    BY <1>8
  <2>3. out' \in [1..m -> Framed(n)]
    BY <1>8, <1>9
  <2>4. out' \in Seq(Framed(n)) /\ Len(out') = m
    BY <1>2, <2>3
  <2>. QED
    BY <2>1, <2>2, <2>4
<1>. HIDE DEF m, n, f
<1>11. Delivered(out') = Count(n)
  <2>. DEFINE frames == out'
  <2>1. /\ frames \in Seq(Framed(n)) /\ Len(frames) = m
        /\ \A i \in 1..m : frames[i].text = text(i)
    BY <1>10
  <2>2. n = ends[m]
    BY DEF n
  <2>. HIDE DEF frames
  <2>3. Delivered(frames) = Count(n)
    BY <1>2, <1>4, <1>7, <2>1, <2>2, WholeAnswer DEF m
  <2>. QED
    BY <2>3 DEF frames
<1>12. NoError(out') /\ EndsComplete(out') /\ DoneAt(out') = {}
  BY <1>10 DEF NoError, EndsComplete, DoneAt
<1>13. /\ status = "posting" /\ status' = "ended" /\ reply' = 200
       /\ UNCHANGED <<lines, buffer, sawDone, finished>>
  BY DEF AnswerWhole, Answer
<1>14. buffer = <<>> /\ ~sawDone
  BY <1>13 DEF GuardrailInv, StartInv
<1>15. ScalarInv'
  BY <1>4, <1>6, <1>13 DEF GuardrailInv, ScalarInv
<1>16. FramesInv'
  <2>1. Count(n) \o <<>> = Count(n)
    BY <1>4, CountType, ConcatEmptySeq
  <2>2. <<>> \in Seq(1..n)
    OBVIOUS
  <2>. QED
    BY <1>6, <1>10, <1>11, <1>12, <1>13, <1>14, <2>1, <2>2 DEF FramesInv
<1>17. StartInv' /\ ToldInv'
  BY <1>12, <1>13 DEF StartInv, ToldInv
<1>18. DoneInv'
  BY <1>12, <1>13, <1>14 DEF DoneInv
<1>. QED
  BY <1>4, <1>6, <1>11, <1>15, <1>16, <1>17, <1>18 DEF GuardrailInv

(* A line with content: its units are fed, and a frame may leave.          *)
LEMMA ContentStep ==
  ASSUME GuardrailInv, NEW c \in Indexes, NEW k \in Nat,
         NEW fin \in BOOLEAN, NEW beside \in BOOLEAN, Content(c, k, fin, beside)
  PROVE  /\ GuardrailInv' /\ Len(message) <= Len(message')
         /\ Len(Delivered(out)) <= Len(Delivered(out')) /\ DoneAt(out') = DoneAt(out)
<1>. DEFINE n == Len(message)
            units == [i \in 1..k |-> n + i]
            fed == buffer \o units
            left(safe) == SubSeq(fed, 1, safe)
            rest(safe) == SubSeq(fed, safe + 1, Len(fed))
            f(safe) == Frame("delta", left(safe), c, fin, n + k)
<1>1. /\ status = "streaming" /\ lines < MaxLines /\ lines' = lines + 1
      /\ UNCHANGED <<reply, status, sawDone>>
      /\ finished' \in {finished, finished + 1}
      /\ n + k <= MaxText
      /\ message' = message \o [i \in 1..k |-> c]
  <2>1. finished' = finished + (IF fin THEN 1 ELSE 0)
    BY DEF Content
  <2>2. finished \in Nat
    BY GuardrailAssumption DEF GuardrailInv, ScalarInv
  <2>3. finished' \in {finished, finished + 1}
    BY <2>1, <2>2
  <2>. QED
    BY <2>3, Zenon DEF Content, ReadLine
<1>2. n \in Nat /\ n + k \in Nat /\ Splits(n, out, buffer) /\ reply = 200 /\ NoError(out)
  BY <1>1, Begun
<1>3. message' \in Seq(Indexes) /\ Len(message') = n + k
  <2>1. message \in Seq(Indexes) /\ [i \in 1..k |-> c] \in Seq(Indexes)
    BY DEF GuardrailInv, ScalarInv
  <2>2. Len([i \in 1..k |-> c]) = k
    OBVIOUS
  <2>. QED
    BY <1>1, <2>1, <2>2, ConcatProperties
<1>4. buffer \in Seq(1..n) /\ fed \in Seq(1..(n + k)) /\ Len(fed) \in Nat
  <2>. DEFINE D == 1..(n + k)
  <2>1. 1..n \subseteq D
    BY <1>2
  <2>2. units \in Seq(D)
    BY <1>2, CountMore
  <2>3. buffer \in Seq(1..n)
    BY <1>2 DEF Splits
  <2>. HIDE DEF D, n, units
  <2>4. buffer \in Seq(D)
    BY <2>1, <2>3, SeqMonotonic
  <2>5. fed \in Seq(D)
    BY <2>2, <2>4, ConcatProperties
  <2>. HIDE DEF fed
  <2>6. Len(fed) \in Nat
    BY <2>5
  <2>. QED
    BY <2>3, <2>5, <2>6 DEF D
<1>5. PICK safe \in 0..Len(fed) :
        /\ out' = IF safe = 0 THEN out ELSE Append(out, f(safe))
        /\ buffer' = rest(safe)
  <2>1. PICK safe \in 0..(IF k = 0 THEN 0 ELSE Len(fed)) :
          /\ out' = IF safe = 0 THEN out
                    ELSE Append(out, Frame("delta", SubSeq(fed, 1, safe), c, fin, Len(message')))
          /\ buffer' = SubSeq(fed, safe + 1, Len(fed))
    BY Zenon DEF Content
  <2>. HIDE DEF fed, n
  <2>2. safe \in 0..Len(fed)
    BY <1>4, <2>1
  <2>. QED
    BY <1>3, <2>1, <2>2, Zenon
<1>6. /\ left(safe) \in Seq(1..(n + k)) /\ rest(safe) \in Seq(1..(n + k))
      /\ out \in Seq(Framed(n + k)) /\ EndsComplete(out)
      /\ safe = 0 => Splits(n + k, out, rest(safe))
      /\ \A g \in Framed(n + k) :
           g.kind = "delta" /\ g.text = left(safe) => Splits(n + k, Append(out, g), rest(safe))
  <2>. DEFINE fedSo == fed
              unitsSo == units
  <2>1. fedSo = buffer \o unitsSo /\ unitsSo = [i \in 1..k |-> n + i] /\ safe \in 0..Len(fedSo)
    OBVIOUS
  <2>. HIDE DEF n, fedSo, unitsSo
  <2>2. LET l == SubSeq(fedSo, 1, safe)
            r == SubSeq(fedSo, safe + 1, Len(fedSo))
        IN  /\ l \in Seq(1..(n + k)) /\ r \in Seq(1..(n + k))
            /\ out \in Seq(Framed(n + k)) /\ EndsComplete(out)
            /\ safe = 0 => Splits(n + k, out, r)
            /\ \A g \in Framed(n + k) :
                  g.kind = "delta" /\ g.text = l => Splits(n + k, Append(out, g), r)
    BY <1>2, <2>1, Feeding
  <2>. QED
    BY <2>2, Zenon DEF fedSo, unitsSo
<1>7. f(safe) \in Framed(n + k) /\ f(safe).kind = "delta" /\ f(safe).text = left(safe)
  <2>. HIDE DEF left, n
  <2>1. n + k \in 0..(n + k)
    BY <1>2
  <2>. QED
    BY <1>6, <2>1 DEF Frame, Framed, Kinds
<1>. HIDE DEF f, left, rest, fed, units
<1>8. Splits(n + k, out', buffer')
  <2>1. CASE safe = 0
    BY <1>5, <1>6, <2>1
  <2>2. CASE safe # 0
    <3>1. Splits(n + k, Append(out, f(safe)), rest(safe))
      BY <1>6, <1>7
    <3>2. out' = Append(out, f(safe)) /\ buffer' = rest(safe)
      BY <1>5, <2>2
    <3>. QED
      BY <3>1, <3>2, Zenon
  <2>. QED
    BY <2>1, <2>2
<1>9. NoError(out') /\ DoneAt(out') = DoneAt(out)
  <2>1. CASE safe = 0
    BY <1>2, <1>5, <2>1
  <2>2. CASE safe # 0
    <3>. DEFINE g == f(safe)
    <3>1. out' = Append(out, g) /\ g \in Framed(n + k) /\ g.kind = "delta"
      BY <1>5, <1>7, <2>2
    <3>. HIDE DEF g, n
    <3>2. /\ NoError(out) /\ g.kind # "error" => NoError(out')
          /\ DoneAt(out') = DoneAt(out) \cup (IF g.kind = "done" THEN {g.seen} ELSE {})
      BY <1>2, <1>6, <3>1, AppendingKinds
    <3>. QED
      BY <1>2, <3>1, <3>2
  <2>. QED
    BY <2>1, <2>2
<1>10. Len(Delivered(out)) <= Len(Delivered(out')) /\ Len(Delivered(out)) \in Nat
       /\ Len(Delivered(out')) \in Nat
  <2>0. Len(Delivered(out)) \in Nat /\ Len(Delivered(out')) \in Nat
    <3>1. Len(Delivered(out)) \in 0..n /\ Len(Delivered(out')) \in 0..(n + k)
      BY <1>2, <1>8, SplitLength
    <3>. QED
      BY <1>2, <3>1
  <2>1. CASE safe = 0
    BY <1>5, <2>0, <2>1
  <2>2. CASE safe # 0
    <3>. DEFINE D == 1..(n + k)
                a == Delivered(out)
                b == left(safe)
    <3>1. Delivered(Append(out, f(safe))) = Delivered(out) \o left(safe)
      BY <1>2, <1>6, <1>7, AppendingFrame
    <3>2. out' = Append(out, f(safe))
      BY <1>5, <2>2
    <3>3. Delivered(out') = a \o b
      BY <3>1, <3>2, Zenon
    <3>4. a \in Seq(D) /\ b \in Seq(D)
      BY <1>2, <1>6, DeliveredType
    <3>. HIDE DEF D, a, b
    <3>5. Len(a \o b) = Len(a) + Len(b) /\ Len(a) \in Nat /\ Len(b) \in Nat
      BY <3>4, ConcatProperties
    <3>. QED
      BY <2>0, <3>3, <3>5 DEF a
  <2>. QED
    BY <2>1, <2>2
<1>11. ScalarInv'
  <2>. HIDE DEF n
  <2>1. finished' \in 0..lines' /\ lines' \in 0..MaxLines
    BY <1>1, GuardrailAssumption DEF GuardrailInv, ScalarInv
  <2>. QED
    BY <1>1, <1>3, <2>1 DEF GuardrailInv, ScalarInv
<1>12. FramesInv'
  BY <1>3, <1>8 DEF FramesInv, Splits
<1>13. StartInv' /\ ToldInv'
  BY <1>1, <1>2, <1>9 DEF StartInv, ToldInv
<1>14. DoneInv'
  <2>1. \A d \in DoneAt(out) : d \in Nat
    <3>1. out \in Seq(Framed(n))
      BY <1>2 DEF Splits
    <3>2. \A i \in DOMAIN out : out[i] \in Framed(n)
      BY <3>1
    <3>3. \A g \in Framed(n) : g.seen \in 0..n
      BY DEF Framed
    <3>. HIDE DEF n
    <3>4. \A i \in DOMAIN out : out[i].seen \in Nat
      BY <1>2, <3>2, <3>3
    <3>. QED
      BY <3>4 DEF DoneAt
  <2>2. (sawDone <=> DoneAt(out) # {}) /\ \A d \in DoneAt(out) : d <= Len(Delivered(out))
    BY DEF GuardrailInv, DoneInv
  <2>3. \A d \in DoneAt(out) : d <= Len(Delivered(out'))
    BY <1>10, <2>1, <2>2
  <2>. QED
    BY <1>1, <1>9, <2>2, <2>3 DEF DoneInv
<1>15. n <= Len(message')
  BY <1>2, <1>3
<1>. QED
  BY <1>9, <1>10, <1>11, <1>12, <1>13, <1>14, <1>15 DEF GuardrailInv

(* A line with content the response breaks at. *)
LEMMA UnreadableStep ==
  ASSUME GuardrailInv, NEW c \in Indexes, NEW k \in Nat, ContentUnreadable(c, k)
  PROVE  GuardrailInv' /\ Len(message) <= Len(message')
<1>. DEFINE n == Len(message)
            units == [i \in 1..k |-> n + i]
            fed == buffer \o units
<1>1. /\ status = "streaming" /\ status' = "broken" /\ lines < MaxLines /\ lines' = lines + 1
      /\ UNCHANGED <<reply, sawDone, finished, out>>
      /\ n + k <= MaxText
      /\ message' = message \o [i \in 1..k |-> c]
  BY Zenon DEF ContentUnreadable, ReadLine
<1>2. n \in Nat /\ n + k \in Nat /\ Splits(n, out, buffer) /\ reply = 200 /\ NoError(out)
  BY <1>1, Begun
<1>3. message' \in Seq(Indexes) /\ Len(message') = n + k
  <2>1. message \in Seq(Indexes) /\ [i \in 1..k |-> c] \in Seq(Indexes)
    BY DEF GuardrailInv, ScalarInv
  <2>2. Len([i \in 1..k |-> c]) = k
    OBVIOUS
  <2>. QED
    BY <1>1, <2>1, <2>2, ConcatProperties
<1>4. PICK safe \in 1..(IF k = 0 THEN 0 ELSE Len(fed)) : buffer' = SubSeq(fed, safe + 1, Len(fed))
  BY Zenon DEF ContentUnreadable
<1>5. safe \in 0..Len(fed)
  <2>. HIDE DEF fed
  <2>1. k # 0
    BY <1>4
  <2>. QED
    BY <1>4, <2>1
<1>6. buffer' \in Seq(1..(n + k)) /\ out \in Seq(Framed(n + k)) /\ EndsComplete(out)
  <2>. DEFINE fedSo == fed
              unitsSo == units
  <2>1. fedSo = buffer \o unitsSo /\ unitsSo = [i \in 1..k |-> n + i] /\ safe \in 0..Len(fedSo)
    BY <1>5
  <2>. HIDE DEF n, fedSo, unitsSo
  <2>2. LET r == SubSeq(fedSo, safe + 1, Len(fedSo))
        IN  r \in Seq(1..(n + k)) /\ out \in Seq(Framed(n + k)) /\ EndsComplete(out)
    BY <1>2, <2>1, Feeding
  <2>. QED
    BY <1>4, <2>2, Zenon DEF fedSo, unitsSo
<1>. HIDE DEF fed
<1>7. ScalarInv'
  <2>. HIDE DEF n
  <2>1. finished' \in 0..lines' /\ lines' \in 0..MaxLines
    BY <1>1, GuardrailAssumption DEF GuardrailInv, ScalarInv
  <2>. QED
    BY <1>1, <1>3, <2>1 DEF GuardrailInv, ScalarInv
<1>8. FramesInv'
  BY <1>1, <1>3, <1>6 DEF FramesInv
<1>9. StartInv' /\ ToldInv' /\ DoneInv'
  BY <1>1, <1>2 DEF GuardrailInv, DoneInv, StartInv, ToldInv
<1>10. n <= Len(message')
  BY <1>2, <1>3
<1>. QED
  BY <1>7, <1>8, <1>9, <1>10 DEF GuardrailInv

(* A line forwarded as it is, or a blank one. *)
LEMMA PassThroughStep ==
  ASSUME GuardrailInv, NEW kind \in {"blank", "other"}, PassThrough(kind)
  PROVE  GuardrailInv' /\ Delivered(out') = Delivered(out) /\ DoneAt(out') = DoneAt(out)
<1>. DEFINE n == Len(message)
            f == Frame("other", <<>>, 0, FALSE, n)
<1>1. /\ status = "streaming" /\ lines < MaxLines /\ lines' = lines + 1
      /\ UNCHANGED <<reply, status, message, buffer, sawDone, finished>>
      /\ out' = IF kind = "blank" THEN out ELSE Append(out, f)
  BY Zenon DEF PassThrough, ReadLine
<1>2. n \in Nat /\ out \in Seq(Framed(n)) /\ EndsComplete(out) /\ reply = 200 /\ NoError(out)
  BY <1>1, Begun DEF Splits
<1>3. f \in Framed(n) /\ f.kind = "other" /\ f.text = <<>>
  <2>1. <<>> \in Seq(1..n) /\ n \in 0..n
    BY <1>2
  <2>. QED
    BY <2>1 DEF Frame, Framed, Kinds
<1>. HIDE DEF f, n
<1>4. /\ out' \in Seq(Framed(n)) /\ Delivered(out') = Delivered(out)
      /\ EndsComplete(out') /\ NoError(out') /\ DoneAt(out') = DoneAt(out)
  <2>1. CASE kind = "blank"
    BY <1>1, <1>2, <2>1
  <2>2. CASE kind # "blank"
    <3>1. out' = Append(out, f)
      BY <1>1, <2>2
    <3>2. Delivered(out') = Delivered(out) /\ out' \in Seq(Framed(n))
      <4>1. Delivered(out) \in Seq(1..n)
        BY <1>2, DeliveredType
      <4>2. Delivered(out) \o <<>> = Delivered(out)
        BY <4>1, ConcatEmptySeq
      <4>3. /\ Append(out, f) \in Seq(Framed(n))
            /\ Delivered(Append(out, f)) = Delivered(out) \o f.text
        BY <1>2, <1>3, AppendingFrame
      <4>. QED
        BY <1>3, <3>1, <4>2, <4>3, Zenon
    <3>3. EndsComplete(out')
      <4>1. f.kind \notin {"end", "done"}
        BY <1>3
      <4>. QED
        BY <1>2, <1>3, <3>1, <4>1, AppendingEnds
    <3>4. /\ NoError(out) /\ f.kind # "error" => NoError(out')
          /\ DoneAt(out') = DoneAt(out) \cup (IF f.kind = "done" THEN {f.seen} ELSE {})
      BY <1>2, <1>3, <3>1, AppendingKinds
    <3>. QED
      BY <1>2, <1>3, <3>2, <3>3, <3>4
  <2>. QED
    BY <2>1, <2>2
<1>5. ScalarInv'
  BY <1>1, GuardrailAssumption DEF GuardrailInv, ScalarInv
<1>6. FramesInv'
  BY <1>1, <1>4 DEF GuardrailInv, FramesInv, n
<1>7. StartInv' /\ ToldInv'
  BY <1>1, <1>2, <1>4 DEF StartInv, ToldInv
<1>8. DoneInv'
  BY <1>1, <1>4 DEF GuardrailInv, DoneInv
<1>. QED
  BY <1>4, <1>5, <1>6, <1>7, <1>8 DEF GuardrailInv

LEMMA DoneValues ==
  ASSUME NEW n \in Nat, NEW frames \in Seq(Framed(n))
  PROVE  \A d \in DoneAt(frames) : d \in 0..n
<1>1. \A i \in DOMAIN frames : frames[i] \in Framed(n)
  OBVIOUS
<1>2. \A g \in Framed(n) : g.seen \in 0..n
  BY DEF Framed
<1>. QED
  BY <1>1, <1>2 DEF DoneAt

(* A frame behind the flush: it comes after all of the text.               *)
LEMMA FlushThen ==
  ASSUME GuardrailInv, status = "streaming", NEW n, n = Len(message),
         NEW f \in Framed(n), f.text = <<>>, f.seen = n, f.kind \in {"end", "done"},
         NEW more, more = Append(out \o HeldBack, f)
  PROVE  /\ Splits(n, more, <<>>) /\ Delivered(more) = Count(n) /\ NoError(more)
         /\ DoneAt(more) = DoneAt(out) \cup (IF f.kind = "done" THEN {n} ELSE {})
<1>. DEFINE flushed == out \o HeldBack
<1>1. n \in Nat /\ Splits(n, out, buffer) /\ NoError(out) /\ message \in Seq(Indexes)
  BY Begun DEF GuardrailInv, ScalarInv
<1>2. /\ Splits(n, flushed, <<>>) /\ Delivered(flushed) = Count(n)
      /\ NoError(flushed) /\ DoneAt(flushed) = DoneAt(out)
  BY <1>1, Flushing
<1>3. more = Append(flushed, f)
  OBVIOUS
<1>. HIDE DEF flushed
<1>4. flushed \in Seq(Framed(n)) /\ EndsComplete(flushed)
  BY <1>2 DEF Splits
<1>5. Count(n) \o <<>> = Count(n) /\ Len(Count(n)) = n
  BY <1>1, CountType, ConcatEmptySeq
<1>6. more \in Seq(Framed(n)) /\ Delivered(more) = Count(n)
  <2>1. /\ Append(flushed, f) \in Seq(Framed(n))
        /\ Delivered(Append(flushed, f)) = Delivered(flushed) \o f.text
    BY <1>1, <1>4, AppendingFrame
  <2>. QED
    BY <1>2, <1>3, <1>5, <2>1, Zenon
<1>7. EndsComplete(more)
  <2>1. Len(Delivered(flushed) \o f.text) = f.seen
    BY <1>2, <1>5
  <2>. QED
    BY <1>1, <1>3, <1>4, <2>1, AppendingEnds
<1>8. /\ NoError(flushed) /\ f.kind # "error" => NoError(more)
      /\ DoneAt(more) = DoneAt(flushed) \cup (IF f.kind = "done" THEN {f.seen} ELSE {})
  BY <1>1, <1>3, <1>4, AppendingKinds
<1>9. <<>> \in Seq(1..n)
  OBVIOUS
<1>. QED
  BY <1>2, <1>5, <1>6, <1>7, <1>8, <1>9 DEF Splits

(* What is all there, once it was flushed.                                 *)
LEMMA AllDelivered ==
  ASSUME GuardrailInv, NEW n, n = Len(message), status' # "broken", message' = message,
         Splits(n, out', buffer'), Delivered(out') = Count(n), NoError(out'),
         DoneAt(out') \subseteq DoneAt(out) \cup {n},
         sawDone' <=> DoneAt(out') # {}
  PROVE  FramesInv' /\ DoneInv'
<1>1. n \in Nat
  BY DEF GuardrailInv, ScalarInv
<1>2. Len(Delivered(out')) = n
  BY <1>1, CountType
<1>3. \A d \in DoneAt(out) : d \in 0..n
  BY <1>1, DoneValues DEF GuardrailInv, FramesInv
<1>4. \A d \in DoneAt(out') : d <= Len(Delivered(out'))
  BY <1>1, <1>2, <1>3
<1>5. FramesInv'
  BY DEF FramesInv, Splits
<1>6. DoneInv'
  BY <1>4 DEF DoneInv
<1>. QED
  BY <1>5, <1>6

(* The end of the message: the flush comes first. *)
LEMMA TerminalStep ==
  ASSUME GuardrailInv, NEW fin \in BOOLEAN, Terminal(fin)
  PROVE  /\ GuardrailInv' /\ Delivered(out') = Count(Len(message))
         /\ DoneAt(out') = DoneAt(out)
<1>. DEFINE n == Len(message)
            f == Frame("end", <<>>, 0, fin, n)
<1>1. /\ status = "streaming" /\ lines < MaxLines /\ lines' = lines + 1
      /\ UNCHANGED <<reply, status, message, sawDone>>
      /\ out' = Append(out \o HeldBack, f) /\ buffer' = <<>>
      /\ finished' = finished + (IF fin THEN 1 ELSE 0)
  BY Zenon DEF Terminal, ReadLine
<1>2. n \in Nat /\ reply = 200
  BY <1>1, Begun
<1>3. f \in Framed(n) /\ f.kind = "end" /\ f.text = <<>> /\ f.seen = n
  <2>1. <<>> \in Seq(1..n) /\ n \in 0..n
    BY <1>2
  <2>. QED
    BY <2>1 DEF Frame, Framed, Kinds
<1>. HIDE DEF f
<1>4. /\ Splits(n, out', buffer') /\ Delivered(out') = Count(n) /\ NoError(out')
      /\ DoneAt(out') = DoneAt(out)
  <2>1. f.kind \in {"end", "done"}
    BY <1>3
  <2>2. /\ Splits(n, out', <<>>) /\ Delivered(out') = Count(n) /\ NoError(out')
        /\ DoneAt(out') = DoneAt(out) \cup (IF f.kind = "done" THEN {n} ELSE {})
    BY <1>1, <1>3, <2>1, FlushThen
  <2>. QED
    BY <1>1, <1>3, <2>2
<1>5. FramesInv' /\ DoneInv'
  <2>1. sawDone' <=> DoneAt(out') # {}
    BY <1>1, <1>4 DEF GuardrailInv, DoneInv
  <2>2. status' # "broken" /\ message' = message /\ DoneAt(out') \subseteq DoneAt(out) \cup {n}
    BY <1>1, <1>4
  <2>. QED
    BY <1>4, <2>1, <2>2, AllDelivered
<1>6. ScalarInv'
  <2>1. finished' \in 0..lines' /\ lines' \in 0..MaxLines
    <3>1. finished' \in {finished, finished + 1} /\ finished \in 0..lines /\ lines \in 0..MaxLines
      <4>1. finished \in 0..lines /\ lines \in 0..MaxLines
        BY DEF GuardrailInv, ScalarInv
      <4>. QED
        BY <1>1, <4>1, GuardrailAssumption
    <3>. QED
      BY <1>1, <3>1, GuardrailAssumption
  <2>. QED
    BY <1>1, <2>1 DEF GuardrailInv, ScalarInv
<1>7. StartInv' /\ ToldInv'
  BY <1>1, <1>2, <1>4 DEF StartInv, ToldInv
<1>. QED
  BY <1>4, <1>5, <1>6, <1>7 DEF GuardrailInv

LEMMA DoneStep ==
  ASSUME GuardrailInv, Done
  PROVE  /\ GuardrailInv' /\ Delivered(out') = Count(Len(message))
         /\ DoneAt(out') = DoneAt(out) \cup {Len(message)}
<1>. DEFINE n == Len(message)
            f == Frame("done", <<>>, 0, FALSE, n)
<1>1. /\ status = "streaming" /\ lines < MaxLines /\ lines' = lines + 1
      /\ UNCHANGED <<reply, status, message, finished>>
      /\ out' = Append(out \o HeldBack, f) /\ buffer' = <<>>
      /\ sawDone' = TRUE
  BY Zenon DEF Done, ReadLine
<1>2. n \in Nat /\ reply = 200
  BY <1>1, Begun
<1>3. f \in Framed(n) /\ f.kind = "done" /\ f.text = <<>> /\ f.seen = n
  <2>1. <<>> \in Seq(1..n) /\ n \in 0..n
    BY <1>2
  <2>. QED
    BY <2>1 DEF Frame, Framed, Kinds
<1>. HIDE DEF f
<1>4. /\ Splits(n, out', buffer') /\ Delivered(out') = Count(n) /\ NoError(out')
      /\ DoneAt(out') = DoneAt(out) \cup {n}
  <2>1. f.kind \in {"end", "done"}
    BY <1>3
  <2>2. /\ Splits(n, out', <<>>) /\ Delivered(out') = Count(n) /\ NoError(out')
        /\ DoneAt(out') = DoneAt(out) \cup (IF f.kind = "done" THEN {n} ELSE {})
    BY <1>1, <1>3, <2>1, FlushThen
  <2>. QED
    BY <1>1, <1>3, <2>2
<1>5. FramesInv' /\ DoneInv'
  <2>1. sawDone' <=> DoneAt(out') # {}
    BY <1>1, <1>4
  <2>2. status' # "broken" /\ message' = message /\ DoneAt(out') \subseteq DoneAt(out) \cup {n}
    BY <1>1, <1>4
  <2>. QED
    BY <1>4, <2>1, <2>2, AllDelivered
<1>6. ScalarInv'
  BY <1>1, GuardrailAssumption DEF GuardrailInv, ScalarInv
<1>7. StartInv' /\ ToldInv'
  BY <1>1, <1>2, <1>4 DEF StartInv, ToldInv
<1>. QED
  BY <1>4, <1>5, <1>6, <1>7 DEF GuardrailInv

LEMMA EndOfBodyStep ==
  ASSUME GuardrailInv, EndOfBody
  PROVE  /\ GuardrailInv'
         /\ sawDone => out' = out
         /\ ~sawDone => Delivered(out') = Count(Len(message))
<1>. DEFINE n == Len(message)
<1>1. /\ status = "streaming" /\ status' = "ended"
      /\ UNCHANGED <<reply, lines, message, sawDone, finished>>
      /\ sawDone => UNCHANGED <<buffer, out>>
      /\ ~sawDone => out' = out \o HeldBack /\ buffer' = <<>>
  BY DEF EndOfBody
<1>2. n \in Nat /\ reply = 200 /\ NoError(out) /\ Splits(n, out, buffer) /\ message \in Seq(Indexes)
  BY <1>1, Begun DEF GuardrailInv, ScalarInv
<1>3. /\ FramesInv' /\ DoneInv' /\ NoError(out')
      /\ ~sawDone => Delivered(out') = Count(n)
  <2>1. CASE sawDone
    <3>1. out' = out /\ buffer' = buffer /\ message' = message /\ sawDone' = sawDone
      BY <1>1, <2>1
    <3>. QED
      BY <1>1, <1>2, <2>1, <3>1 DEF GuardrailInv, FramesInv, DoneInv
  <2>2. CASE ~sawDone
    <3>1. /\ Splits(n, out', buffer') /\ Delivered(out') = Count(n)
          /\ NoError(out') /\ DoneAt(out') = DoneAt(out)
      <4>1. /\ Splits(n, out \o HeldBack, <<>>)
            /\ Delivered(out \o HeldBack) = Count(n)
            /\ NoError(out) => NoError(out \o HeldBack)
            /\ DoneAt(out \o HeldBack) = DoneAt(out)
        BY <1>2, Flushing
      <4>2. out' = out \o HeldBack /\ buffer' = <<>>
        BY <1>1, <2>2
      <4>. QED
        BY <1>2, <4>1, <4>2, Zenon
    <3>2. sawDone' <=> DoneAt(out') # {}
      BY <1>1, <3>1 DEF GuardrailInv, DoneInv
    <3>3. status' # "broken" /\ message' = message /\ DoneAt(out') \subseteq DoneAt(out) \cup {n}
      BY <1>1, <3>1
    <3>. QED
      BY <3>1, <3>2, <3>3, AllDelivered
  <2>. QED
    BY <2>1, <2>2
<1>4. ScalarInv'
  BY <1>1 DEF GuardrailInv, ScalarInv
<1>5. StartInv' /\ ToldInv'
  BY <1>1, <1>2, <1>3 DEF StartInv, ToldInv
<1>. QED
  BY <1>1, <1>3, <1>4, <1>5 DEF GuardrailInv

-----------------------------------------------------------------------------
(* The theorems.                                                           *)

LEMMA StepsKeep ==
  ASSUME GuardrailInv, [Next]_vars
  PROVE  GuardrailInv'
<1>1. CASE RejectBody \/ Accept \/ AnswerUnusable \/ Opened \/ Disconnect \/ UNCHANGED vars
  BY <1>1, QuietSteps
<1>2. CASE Refused \/ Malformed \/ Drop
  BY <1>2, FailingSteps
<1>3. CASE AnswerWhole
  BY <1>3, WholeStep
<1>4. ASSUME NEW c \in Indexes, NEW k \in 0..MaxDelta, NEW fin \in BOOLEAN,
             NEW beside \in BOOLEAN, Content(c, k, fin, beside)
      PROVE  GuardrailInv'
  <2>1. k \in Nat
    BY GuardrailAssumption
  <2>. QED
    BY <1>4, <2>1, ContentStep
<1>5. ASSUME NEW c \in Indexes, NEW k \in 1..MaxDelta, ContentUnreadable(c, k)
      PROVE  GuardrailInv'
  <2>1. k \in Nat
    BY GuardrailAssumption
  <2>. QED
    BY <1>5, <2>1, UnreadableStep
<1>6. ASSUME NEW fin \in BOOLEAN, Terminal(fin)
      PROVE  GuardrailInv'
  BY <1>6, TerminalStep
<1>7. ASSUME NEW kind \in {"blank", "other"}, PassThrough(kind)
      PROVE  GuardrailInv'
  BY <1>7, PassThroughStep
<1>8. CASE Done
  BY <1>8, DoneStep
<1>9. CASE EndOfBody
  BY <1>9, EndOfBodyStep
<1>. QED
  BY <1>1, <1>2, <1>3, <1>4, <1>5, <1>6, <1>7, <1>8, <1>9
  DEF Next, Request, Upstream, Line

LEMMA SilenceKept ==
  ASSUME GuardrailInv, SilenceInv, [Next]_vars
  PROVE  SilenceInv'
<1>1. status' = "broken" =>
        \/ UNCHANGED <<status, reply, out>>
        \/ reply' = 500
        \/ status = "streaming" /\ UNCHANGED <<reply, out>>
  BY DEF Next, Request, Upstream, Line, RejectBody, Accept, AnswerUnusable, AnswerWhole, Answer,
         Refused, Opened, Content, ContentUnreadable, Terminal, PassThrough, Done, Malformed,
         EndOfBody, Drop, Disconnect, Fail, ReadLine, vars
<1>2. CASE UNCHANGED <<status, reply, out>>
  BY <1>2, Zenon DEF SilenceInv
<1>3. CASE reply' = 500
  BY <1>3 DEF SilenceInv
<1>4. CASE status = "streaming" /\ UNCHANGED <<reply, out>>
  <2>1. reply' = 200 /\ out' = out /\ NoError(out)
    BY <1>4 DEF GuardrailInv, StartInv
  <2>. QED
    BY <2>1, Zenon DEF SilenceInv
<1>. QED
  BY <1>1, <1>2, <1>3, <1>4 DEF SilenceInv

LEMMA WithheldKept ==
  ASSUME GuardrailInv, WithheldInv, [Next]_vars
  PROVE  WithheldInv'
<1>1. lines \in Nat /\ withheld \in 0..lines
  BY GuardrailAssumption DEF GuardrailInv, ScalarInv, WithheldInv
<1>2. \/ withheld' = withheld /\ lines' \in {lines, lines + 1}
      \/ withheld' \in {withheld, withheld + 1} /\ lines' = lines + 1
  <2>1. ASSUME NEW c \in Indexes, NEW k \in 0..MaxDelta, NEW fin \in BOOLEAN,
               NEW beside \in BOOLEAN, Content(c, k, fin, beside)
        PROVE  withheld' \in {withheld, withheld + 1} /\ lines' = lines + 1
    <3>1. lines' = lines + 1 /\ \E safe : withheld' = withheld + (IF safe THEN 1 ELSE 0)
      BY <2>1, Zenon DEF Content, ReadLine
    <3>. QED
      BY <1>1, <3>1
  <2>2. CASE \/ Request \/ Refused \/ Opened \/ EndOfBody \/ Drop \/ Disconnect \/ UNCHANGED vars
    BY <2>2 DEF Request, RejectBody, Accept, AnswerUnusable, AnswerWhole, Refused, Opened,
                EndOfBody, Drop, Disconnect, vars
  <2>3. ASSUME \/ \E c \in Indexes, k \in 1..MaxDelta : ContentUnreadable(c, k)
               \/ \E fin \in BOOLEAN : Terminal(fin)
               \/ \E kind \in {"blank", "other"} : PassThrough(kind)
               \/ Done
               \/ Malformed
        PROVE  withheld' = withheld /\ lines' = lines + 1
    BY <2>3 DEF ContentUnreadable, Terminal, PassThrough, Done, Malformed, ReadLine
  <2>. QED
    BY <2>1, <2>2, <2>3 DEF Next, Upstream, Line
<1>. QED
  BY <1>1, <1>2 DEF WithheldInv

(* Whatever the upstream does, an answer in either mode goes through       *)
(* states in which frames, buffer and message are in step.                 *)
THEOREM GuardrailInductive == Spec => [](GuardrailInv /\ SilenceInv /\ WithheldInv)
<1>1. Init => GuardrailInv /\ SilenceInv /\ WithheldInv
  <2>1. Init => SilenceInv /\ WithheldInv
    BY DEF Init, SilenceInv, WithheldInv
  <2>. QED
    BY <2>1, Initially
<1>2. /\ GuardrailInv /\ SilenceInv /\ WithheldInv
      /\ [Next]_vars
      => GuardrailInv' /\ SilenceInv' /\ WithheldInv'
  BY StepsKeep, SilenceKept, WithheldKept
<1>. QED
  BY <1>1, <1>2, PTL DEF Spec

(* Every variable of a completion keeps its type, and frames and buffer    *)
(* hold units of the message only.                                         *)
THEOREM GuardrailTyping == Spec => []TypeOK
<1>1. GuardrailInv /\ SilenceInv /\ WithheldInv => TypeOK
  BY InvariantSays
<1>. QED
  BY <1>1, GuardrailInductive, PTL

(* No unit of the text that is fed, that of choices[0] of each frame, is   *)
(* lost, repeated or overtaken between the upstream and the client,        *)
(* wherever the deltas, the redactor and the client's frames cut it        *)
(* (transform_line, redact_stream, _proxy_buffered), until a response      *)
(* breaks.                                                                 *)
THEOREM NothingLost == Spec => []TextConserved
<1>1. GuardrailInv /\ SilenceInv /\ WithheldInv => TextConserved
  BY InvariantSays
<1>. QED
  BY <1>1, GuardrailInductive, PTL

(* A client that stops at a terminal frame or at [DONE] has all the text   *)
(* that was fed before it (transform_line's flush).                        *)
THEOREM TailComesFirst == Spec => []TailBeforeEnd
<1>1. GuardrailInv /\ SilenceInv /\ WithheldInv => TailBeforeEnd
  BY InvariantSays
<1>. QED
  BY <1>1, GuardrailInductive, PTL

(* A failure that the code catches is told once, by the status or by one   *)
(* last error frame (_proxy_streaming and _proxy_buffered); one that it    *)
(* does not catch is told by a 500, or by no frame at all.                 *)
THEOREM FailuresToldOnce == Spec => []FailureToldOnce
<1>1. GuardrailInv /\ SilenceInv /\ WithheldInv => FailureToldOnce
  BY InvariantSays
<1>. QED
  BY <1>1, GuardrailInductive, PTL

-----------------------------------------------------------------------------
(* Every step is a step of TextRelay, or none of its business.             *)

Owed == IF sawDone THEN Min(UpToDone) ELSE Len(message)
Open == {"new", "posting", "connecting", "streaming"}

LEMMA OwedKept ==
  ASSUME sawDone' = sawDone, DoneAt(out') = DoneAt(out)
  PROVE  Owed' \in {Owed, Len(message')}
<1>1. UpToDone = DoneAt(out) /\ UpToDone' = DoneAt(out')
  BY DEF UpToDone, DoneAt
<1>. QED
  BY <1>1, Zenon DEF Owed

LEMMA OwedAtDone ==
  ASSUME GuardrailInv, message' = message, sawDone',
         DoneAt(out') = DoneAt(out) \cup {Len(message)}
  PROVE  Owed' \in {Owed, Len(message')}
<1>. DEFINE n == Len(message)
<1>1. UpToDone = DoneAt(out) /\ UpToDone' = DoneAt(out')
  BY DEF UpToDone, DoneAt
<1>2. n \in Nat /\ \A d \in DoneAt(out) : d \in 0..n
  BY DoneValues DEF GuardrailInv, ScalarInv, FramesInv
<1>3. sawDone <=> DoneAt(out) # {}
  BY DEF GuardrailInv, DoneInv
<1>4. CASE sawDone
  <2>. DEFINE S == DoneAt(out)
  <2>1. S \in SUBSET Nat /\ S # {} /\ \A d \in S : d <= n
    BY <1>2, <1>3, <1>4
  <2>. HIDE DEF S, n
  <2>2. Min(S) \in S /\ \A d \in S : Min(S) <= d
    BY <2>1, MinNat
  <2>3. Min(S \cup {n}) \in S \cup {n} /\ \A d \in S \cup {n} : Min(S \cup {n}) <= d
    <3>1. S \cup {n} \in SUBSET Nat /\ S \cup {n} # {}
      BY <1>2, <2>1
    <3>. QED
      BY <3>1, MinNat
  <2>4. Min(S \cup {n}) = Min(S)
    <3>. DEFINE a == Min(S)
                b == Min(S \cup {n})
    <3>1. a \in Nat /\ a <= n /\ b \in Nat
      BY <1>2, <2>1, <2>2, <2>3
    <3>2. b <= a
      BY <2>2, <2>3
    <3>3. a <= b
      BY <2>2, <2>3, <3>1
    <3>. HIDE DEF a, b
    <3>4. a = b
      BY <3>1, <3>2, <3>3
    <3>. QED
      BY <3>4 DEF a, b
  <2>. QED
    BY <1>1, <1>4, <2>4, Zenon DEF Owed, S, n
<1>5. CASE ~sawDone
  <2>1. DoneAt(out') = {n}
    BY <1>3, <1>5
  <2>. HIDE DEF n
  <2>2. Min({n}) = n
    <3>1. {n} \in SUBSET Nat /\ {n} # {}
      BY <1>2
    <3>. QED
      BY <3>1, MinNat
  <2>3. Owed' = n
    BY <1>1, <2>1, <2>2, Zenon DEF Owed
  <2>. QED
    BY <2>3 DEF n
<1>. QED
  BY <1>4, <1>5

LEMMA Sends ==
  ASSUME GuardrailInv', status \in Open, Len(message) \in Nat, Len(message) <= Len(message'),
         Owed' \in {Owed, Len(message')}
  PROVE  Promise!Send
<1>1. Len(message') \in Nat /\ Len(message') <= MaxText
  BY DEF GuardrailInv, ScalarInv
<1>2. Phase = "open"
  BY DEF Open, Phase
<1>3. Len(message') \in Len(message)..MaxText
  BY <1>1, GuardrailAssumption
<1>. QED
  BY <1>2, <1>3, Zenon DEF Promise!Send, Owed

LEMMA Relays ==
  ASSUME Promise!Send, status' \in Open, status \in Open, NEW j,
         Delivered(out') = Count(j), j \in Len(Delivered(out))..Len(message')
  PROVE  Promise!Relay
<1>1. Phase = "open" /\ Phase' = "open"
  BY DEF Open, Phase
<1>2. Delivered(out') \in {Promise!Prefix(n) : n \in Len(Delivered(out))..Len(message')}
  BY Zenon DEF Promise!Prefix, Count
<1>. QED
  BY <1>1, <1>2, Zenon DEF Promise!Relay

LEMMA Completes ==
  ASSUME Promise!Send, status' = "ended", NEW j,
         Delivered(out') = Count(j), j \in Len(Delivered(out))..Len(message'),
         Len(Delivered(out')) >= Owed'
  PROVE  Promise!Complete
<1>1. Phase' = "complete"
  BY DEF Phase
<1>2. Delivered(out') \in {Promise!Prefix(n) : n \in Len(Delivered(out))..Len(message')}
  BY Zenon DEF Promise!Prefix, Count
<1>. QED
  BY <1>1, <1>2, Zenon DEF Promise!Complete, Owed

LEMMA Fails ==
  ASSUME Promise!Send, status' \in {"failed", "dropped", "broken"},
         Delivered(out') = Delivered(out)
  PROVE  Promise!Fail
<1>1. Phase' = "failed"
  BY DEF Phase
<1>. QED
  BY <1>1, Zenon DEF Promise!Fail

LEMMA StepsKeepPromise ==
  ASSUME GuardrailInv, GuardrailInv', [Next]_vars
  PROVE  [Promise!Next]_(Promise!vars)
<1>. DEFINE n == Len(message)
            sent == Len(Delivered(out))
<1>1. n \in Nat /\ sent \in Nat /\ Len(message') \in Nat
  <2>1. Delivered(out) \in Seq(1..n) /\ n \in Nat /\ Len(message') \in Nat
    BY DeliveredType DEF GuardrailInv, ScalarInv, FramesInv
  <2>. QED
    BY <2>1
<1>2. status \in Open => sent \in 0..n /\ Delivered(out) = Count(sent)
  <2>1. status \in Open => Splits(n, out, buffer)
    BY DEF GuardrailInv, FramesInv, Splits, Open
  <2>. QED
    BY <1>1, <2>1, SplitLength
<1>3. status' # "broken" =>
        /\ Len(Delivered(out')) \in 0..Len(message')
        /\ Delivered(out') = Count(Len(Delivered(out')))
  <2>1. status' # "broken" => Splits(Len(message'), out', buffer')
    BY DEF GuardrailInv, FramesInv, Splits
  <2>. QED
    BY <1>1, <2>1, SplitLength
<1>. HIDE DEF n, sent
<1>4. CASE UNCHANGED <<message, sawDone, out>> /\ status \in Open /\ status' \in Open
  <2>1. UpToDone' = UpToDone /\ Phase' = Phase
    BY <1>4 DEF UpToDone, Phase, Open
  <2>2. Delivered(out') = Delivered(out) /\ Owed' = Owed
    BY <1>4, <2>1 DEF Owed
  <2>. QED
    BY <1>4, <2>1, <2>2, Zenon DEF Promise!vars, Owed
<1>5. CASE UNCHANGED <<message, sawDone, out>> /\ status \in Open
           /\ status' \in {"failed", "broken"}
  <2>1. Owed' \in {Owed, Len(message')}
    BY <1>5, OwedKept
  <2>2. Promise!Send
    BY <1>1, <1>5, <2>1, Sends DEF n
  <2>. QED
    BY <1>5, <2>2, Fails DEF Promise!Next
<1>6. CASE UNCHANGED <<message, sawDone, out>> /\ status \in Open /\ status' = "gone"
  <2>1. UpToDone' = UpToDone /\ Phase = "open" /\ Phase' = "left"
    BY <1>6 DEF UpToDone, Phase, Open
  <2>2. Delivered(out') = Delivered(out) /\ Owed' = Owed
    BY <1>6, <2>1 DEF Owed
  <2>. QED
    BY <1>6, <2>1, <2>2, Zenon DEF Promise!Leave, Promise!Next, Owed
<1>7. CASE RejectBody \/ Accept \/ AnswerUnusable \/ Opened \/ Disconnect
  <2>1. /\ UNCHANGED <<message, sawDone, out>> /\ status \in Open
        /\ status' \in Open \cup {"failed", "broken", "gone"}
    BY <1>7 DEF RejectBody, Accept, AnswerUnusable, Opened, Disconnect, Answer, Open
  <2>. QED
    BY <1>4, <1>5, <1>6, <2>1
<1>8. CASE UNCHANGED vars
  BY <1>8, Zenon DEF vars, Promise!vars, UpToDone, Phase
<1>9. ASSUME status \in Open, Delivered(out') = Delivered(out), Len(message) <= Len(message'),
             status' \in {"failed", "dropped", "broken"},
             sawDone' = sawDone, DoneAt(out') = DoneAt(out)
      PROVE  Promise!Fail
  <2>1. Owed' \in {Owed, Len(message')}
    BY <1>9, OwedKept
  <2>2. Promise!Send
    BY <1>1, <1>9, <2>1, Sends DEF n
  <2>. QED
    BY <1>9, <2>2, Fails
<1>10. ASSUME status = "streaming", status' = "streaming",
              Len(message) <= Len(message'), Len(Delivered(out)) <= Len(Delivered(out')),
              Owed' \in {Owed, Len(message')}
       PROVE  Promise!Relay
  <2>1. Promise!Send
    BY <1>1, <1>10, Sends DEF Open, n
  <2>. DEFINE j == Len(Delivered(out'))
  <2>2. Delivered(out') = Count(j) /\ j \in 0..Len(message')
    BY <1>3, <1>10
  <2>. HIDE DEF j
  <2>3. j \in Len(Delivered(out))..Len(message')
    BY <1>1, <1>10, <2>2 DEF j, sent
  <2>. QED
    BY <1>10, <2>1, <2>2, <2>3, Relays DEF Open
<1>11. CASE Refused \/ Malformed \/ Drop
  <2>1. /\ status \in Open /\ message' = message /\ sawDone' = sawDone
        /\ status' \in {"failed", "dropped", "broken"}
    BY <1>11 DEF Refused, Malformed, Drop, Fail, ReadLine, Open
  <2>2. Delivered(out') = Delivered(out) /\ DoneAt(out') = DoneAt(out)
    BY <1>11, FailingSteps
  <2>3. Len(message) <= Len(message')
    BY <1>1, <2>1 DEF n
  <2>. QED
    BY <1>9, <2>1, <2>2, <2>3 DEF Promise!Next
<1>12. CASE AnswerWhole
  <2>. DEFINE j == Len(message')
  <2>1. Delivered(out') = Count(j) /\ j \in 0..MaxText
    BY <1>12, WholeStep
  <2>2. status = "posting" /\ status' = "ended" /\ sawDone' = sawDone
    BY <1>12 DEF AnswerWhole, Answer
  <2>3. ~sawDone /\ message = <<>> /\ out = <<>>
    BY <2>2 DEF GuardrailInv, StartInv
  <2>4. Len(message) = 0 /\ Len(Delivered(out)) = 0
    BY <2>3, DeliveredEmpty
  <2>5. Owed' = j /\ Len(Delivered(out')) = j /\ j \in Nat
    BY <1>1, <2>1, <2>2, <2>3, CountType DEF Owed
  <2>6. Len(message) <= Len(message') /\ Owed' \in {Owed, Len(message')} /\ status \in Open
    BY <2>2, <2>4, <2>5 DEF Open
  <2>7. Promise!Send
    BY <1>1, <2>6, Sends DEF n
  <2>8. j \in Len(Delivered(out))..Len(message') /\ Len(Delivered(out')) >= Owed'
    BY <2>4, <2>5
  <2>. HIDE DEF j
  <2>9. Promise!Complete
    BY <2>1, <2>2, <2>7, <2>8, Completes
  <2>. QED
    BY <2>9 DEF Promise!Next
<1>13. ASSUME NEW c \in Indexes, NEW k \in 0..MaxDelta, NEW fin \in BOOLEAN,
              NEW beside \in BOOLEAN, Content(c, k, fin, beside)
       PROVE  Promise!Relay
  <2>1. k \in Nat
    BY GuardrailAssumption
  <2>2. /\ Len(message) <= Len(message') /\ Len(Delivered(out)) <= Len(Delivered(out'))
        /\ DoneAt(out') = DoneAt(out)
    BY <1>13, <2>1, ContentStep
  <2>3. status = "streaming" /\ status' = "streaming" /\ sawDone' = sawDone
    BY <1>13 DEF Content, ReadLine
  <2>4. Owed' \in {Owed, Len(message')}
    BY <2>2, <2>3, OwedKept
  <2>. QED
    BY <1>10, <2>2, <2>3, <2>4
<1>14. ASSUME NEW c \in Indexes, NEW k \in 1..MaxDelta, ContentUnreadable(c, k)
       PROVE  Promise!Fail
  <2>1. k \in Nat
    BY GuardrailAssumption
  <2>2. Len(message) <= Len(message')
    BY <1>14, <2>1, UnreadableStep
  <2>3. status \in Open /\ status' = "broken" /\ sawDone' = sawDone /\ out' = out
    BY <1>14 DEF ContentUnreadable, ReadLine, Open
  <2>. QED
    BY <1>9, <2>2, <2>3
<1>15. ASSUME NEW fin \in BOOLEAN, Terminal(fin)
       PROVE  Promise!Relay
  <2>1. Delivered(out') = Count(n) /\ DoneAt(out') = DoneAt(out)
    BY <1>15, TerminalStep DEF n
  <2>2. status = "streaming" /\ status' = "streaming" /\ sawDone' = sawDone /\ message' = message
    BY <1>15 DEF Terminal, ReadLine
  <2>3. Owed' \in {Owed, Len(message')}
    BY <2>1, <2>2, OwedKept
  <2>4. Len(Delivered(out')) = n /\ n = Len(message)
    BY <1>1, <2>1, CountType DEF n
  <2>5. Len(message) <= Len(message') /\ Len(Delivered(out)) <= Len(Delivered(out'))
    BY <1>1, <1>2, <2>2, <2>4 DEF sent, Open
  <2>. QED
    BY <1>10, <2>2, <2>3, <2>5
<1>16. ASSUME NEW kind \in {"blank", "other"}, PassThrough(kind)
       PROVE  Promise!Relay
  <2>1. Delivered(out') = Delivered(out) /\ DoneAt(out') = DoneAt(out)
    BY <1>16, PassThroughStep
  <2>2. status = "streaming" /\ status' = "streaming" /\ sawDone' = sawDone /\ message' = message
    BY <1>16 DEF PassThrough, ReadLine
  <2>3. Owed' \in {Owed, Len(message')}
    BY <2>1, <2>2, OwedKept
  <2>4. Len(message) <= Len(message') /\ Len(Delivered(out)) <= Len(Delivered(out'))
    BY <1>1, <2>1, <2>2 DEF sent, n
  <2>. QED
    BY <1>10, <2>2, <2>3, <2>4
<1>17. CASE Done
  <2>1. Delivered(out') = Count(n) /\ DoneAt(out') = DoneAt(out) \cup {Len(message)}
    BY <1>17, DoneStep DEF n
  <2>2. status = "streaming" /\ status' = "streaming" /\ sawDone' /\ message' = message
    BY <1>17 DEF Done, ReadLine
  <2>3. Owed' \in {Owed, Len(message')}
    BY <2>1, <2>2, OwedAtDone
  <2>4. Len(Delivered(out')) = n /\ n = Len(message)
    BY <1>1, <2>1, CountType DEF n
  <2>5. Len(message) <= Len(message') /\ Len(Delivered(out)) <= Len(Delivered(out'))
    BY <1>1, <1>2, <2>2, <2>4 DEF sent, Open
  <2>6. Promise!Relay
    BY <1>10, <2>2, <2>3, <2>5
  <2>. QED
    BY <2>6 DEF Promise!Next
<1>18. CASE EndOfBody
  <2>1. status = "streaming" /\ status' = "ended" /\ sawDone' = sawDone /\ message' = message
    BY <1>18 DEF EndOfBody
  <2>2. (sawDone => out' = out) /\ (~sawDone => Delivered(out') = Count(n))
    BY <1>18, EndOfBodyStep DEF n
  <2>3. Owed' \in {Owed, Len(message')} /\ Len(Delivered(out')) >= Owed'
        /\ Len(Delivered(out')) \in sent..n
    <3>1. CASE sawDone
      <4>1. out' = out
        BY <2>2, <3>1
      <4>2. UpToDone' = UpToDone /\ UpToDone = DoneAt(out)
        BY <4>1 DEF UpToDone, DoneAt
      <4>3. Owed' = Owed /\ Owed = Min(DoneAt(out))
        BY <2>1, <3>1, <4>2 DEF Owed
      <4>4. /\ DoneAt(out) # {} /\ \A d \in DoneAt(out) : d <= sent
            /\ \A d \in DoneAt(out) : d \in 0..n
        BY <1>1, <3>1, DoneValues DEF GuardrailInv, DoneInv, FramesInv, sent, n
      <4>. DEFINE S == DoneAt(out)
      <4>5. S \in SUBSET Nat /\ S # {}
        BY <1>1, <4>4
      <4>. HIDE DEF S
      <4>6. Min(S) \in S
        BY <4>5, MinNat
      <4>7. Min(S) <= sent /\ Min(S) \in Nat
        BY <4>4, <4>5, <4>6 DEF S
      <4>8. Len(Delivered(out')) = sent /\ sent <= n
        BY <1>1, <1>2, <2>1, <4>1 DEF sent, Open
      <4>. QED
        BY <1>1, <4>3, <4>7, <4>8 DEF S
    <3>2. CASE ~sawDone
      <4>1. Len(Delivered(out')) = n
        BY <1>1, <2>2, <3>2, CountType
      <4>2. Owed' = Len(message') /\ Len(message') = n
        BY <2>1, <3>2 DEF Owed, n
      <4>3. sent <= n
        BY <1>1, <1>2, <2>1 DEF Open
      <4>. QED
        BY <1>1, <4>1, <4>2, <4>3
    <3>. QED
      BY <3>1, <3>2
  <2>4. Len(message) <= Len(message') /\ Len(message') = n /\ status \in Open
    BY <1>1, <2>1 DEF n, Open
  <2>5. Promise!Send
    BY <1>1, <2>3, <2>4, Sends DEF n
  <2>. DEFINE j == Len(Delivered(out'))
  <2>6. Delivered(out') = Count(j) /\ j \in Len(Delivered(out))..Len(message')
    BY <1>3, <2>1, <2>3, <2>4 DEF sent
  <2>. HIDE DEF j
  <2>7. Promise!Complete
    BY <2>1, <2>3, <2>5, <2>6, Completes
  <2>. QED
    BY <2>7 DEF Promise!Next
<1>. QED
  BY <1>7, <1>8, <1>11, <1>12, <1>13, <1>14, <1>15, <1>16, <1>17, <1>18
  DEF Next, Request, Upstream, Line, Promise!Next

(* Both modes of the guardrail keep TextRelay's promise at every step: the *)
(* text arrives as a growing prefix of what was received, all that is owed *)
(* is there when the answer is complete, and a failure adds nothing        *)
(* (redact_stream, _proxy_streaming, _proxy_buffered).                     *)
THEOREM PromiseKept == Spec => Promise!Init /\ [][Promise!Next]_(Promise!vars)
<1>1. Init => Promise!Init
  BY DeliveredEmpty DEF Init, Promise!Init, UpToDone, Phase
<1>2. GuardrailInv /\ GuardrailInv' /\ [Next]_vars => [Promise!Next]_(Promise!vars)
  BY StepsKeepPromise
<1>. QED
  BY <1>1, <1>2, GuardrailInductive, PTL DEF Spec

=============================================================================
