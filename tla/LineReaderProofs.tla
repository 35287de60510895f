-------------------------- MODULE LineReaderProofs --------------------------
(***************************************************************************)
(* Theorems about LineReader, for every body, every way of cutting it into *)
(* chunks and every cap.                                                   *)
(***************************************************************************)
EXTENDS LineReader, FoldTheorems, TLAPS

Texts == Seq(Characters)
AllBytes == {"a", "nl", "H", "T"}
Bodies == Seq(AllBytes)

-----------------------------------------------------------------------------
(* Decoding. *)

LEMMA DecodedType ==
  ASSUME NEW bs \in Bodies, NEW i \in DOMAIN bs
  PROVE  Decoded(bs, i) \in Texts
<1>1. bs[i] \in AllBytes
  BY DEF Bodies
<1>2. <<"e'">> \in Texts /\ <<>> \in Texts /\ <<"?">> \in Texts
  BY DEF Texts, Characters
<1>3. bs[i] \notin {"H", "T"} => <<bs[i]>> \in Texts
  BY <1>1 DEF Texts, Characters, AllBytes
<1>. QED
  BY <1>2, <1>3 DEF Decoded

Pieces(bs) == [i \in DOMAIN bs |-> Decoded(bs, i)]

LEMMA PiecesType ==
  ASSUME NEW bs \in Bodies
  PROVE  /\ Pieces(bs) \in Seq(Texts) /\ Len(Pieces(bs)) = Len(bs)
         /\ \A i \in 1..Len(bs) : Pieces(bs)[i] = Decoded(bs, i)
<1>1. Len(bs) \in Nat /\ DOMAIN bs = 1..Len(bs)
  BY DEF Bodies
<1>2. \A i \in 1..Len(bs) : Decoded(bs, i) \in Texts
  BY <1>1, DecodedType
<1>3. Pieces(bs) \in [1..Len(bs) -> Texts]
  BY <1>1, <1>2, Zenon DEF Pieces
<1>. QED
  BY <1>1, <1>3 DEF Pieces

LEMMA DecodeType ==
  ASSUME NEW bs \in Bodies
  PROVE  Decode(bs) \in Texts
<1>1. Pieces(bs) \in Seq(Seq(Characters))
  BY PiecesType DEF Texts
<1>. QED
  BY <1>1, FlattenType DEF Decode, Pieces, Texts

(* A chunk that does not begin in the middle of a character is decoded as  *)
(* it would be with all that came before it.                               *)
LEMMA DecodeConcat ==
  ASSUME NEW s \in Bodies, NEW t \in Bodies,
         ~(s # <<>> /\ t # <<>> /\ s[Len(s)] = "H" /\ t[1] = "T")
  PROVE  s \o t \in Bodies /\ Decode(s \o t) = Decode(s) \o Decode(t)
<1>. DEFINE u == s \o t
            m == Len(s)
            n == Len(t)
<1>1. /\ u \in Bodies /\ Len(u) = m + n /\ m \in Nat /\ n \in Nat
      /\ \A i \in 1..(m + n) : u[i] = IF i <= m THEN s[i] ELSE t[i - m]
      /\ DOMAIN u = 1..(m + n) /\ DOMAIN s = 1..m /\ DOMAIN t = 1..n
      /\ m # 0 => s # <<>>
      /\ n # 0 => t # <<>>
  <2>1. /\ u \in Bodies /\ Len(u) = m + n /\ m \in Nat /\ n \in Nat
        /\ \A i \in 1..(m + n) : u[i] = IF i <= m THEN s[i] ELSE t[i - m]
    BY ConcatProperties, LenProperties DEF Bodies
  <2>. QED
    BY <2>1, LenProperties DEF Bodies
<1>. HIDE DEF u, m, n
<1>2. \A i \in 1..(m + n) : Decoded(u, i) = IF i <= m THEN Decoded(s, i) ELSE Decoded(t, i - m)
  <2>. SUFFICES ASSUME NEW i \in 1..(m + n)
                PROVE  Decoded(u, i) = IF i <= m THEN Decoded(s, i) ELSE Decoded(t, i - m)
    OBVIOUS
  <2>0. ~(m # 0 /\ n # 0 /\ s[m] = "H" /\ t[1] = "T")
    BY <1>1 DEF m
  <2>1. CASE i <= m
    <3>1. i \in DOMAIN u /\ i \in DOMAIN s /\ u[i] = s[i]
      BY <1>1, <2>1
    <3>2. i - 1 \in DOMAIN u <=> i - 1 \in DOMAIN s
      BY <1>1, <2>1
    <3>3. i - 1 \in DOMAIN s => u[i - 1] = s[i - 1]
      BY <1>1, <2>1
    <3>4. (i + 1 \in DOMAIN u /\ u[i + 1] = "T") /\ s[i] = "H"
            <=> (i + 1 \in DOMAIN s /\ s[i + 1] = "T") /\ s[i] = "H"
      BY <1>1, <2>0, <2>1
    <3>. QED
      BY <2>1, <3>1, <3>2, <3>3, <3>4 DEF Decoded
  <2>2. CASE i > m
    <3>. DEFINE j == i - m
    <3>1. i \in DOMAIN u /\ j \in DOMAIN t /\ u[i] = t[j] /\ j \in Int
      BY <1>1, <2>2
    <3>2. i + 1 \in DOMAIN u <=> j + 1 \in DOMAIN t
      BY <1>1, <2>2
    <3>3. j + 1 \in DOMAIN t => u[i + 1] = t[j + 1]
      BY <1>1, <2>2
    <3>4. (i - 1 \in DOMAIN u /\ u[i - 1] = "H") /\ t[j] = "T"
            <=> (j - 1 \in DOMAIN t /\ t[j - 1] = "H") /\ t[j] = "T"
      BY <1>1, <2>0, <2>2
    <3>5. ~(i <= m)
      BY <1>1, <2>2
    <3>. HIDE DEF j
    <3>6. Decoded(u, i) = Decoded(t, j)
      BY <3>1, <3>2, <3>3, <3>4 DEF Decoded
    <3>. QED
      BY <3>5, <3>6 DEF j
  <2>. QED
    BY <1>1, <2>1, <2>2
<1>3. Pieces(u) = Pieces(s) \o Pieces(t)
  <2>1. /\ Pieces(u) \in Seq(Texts) /\ Len(Pieces(u)) = m + n
        /\ Pieces(s) \in Seq(Texts) /\ Len(Pieces(s)) = m
        /\ Pieces(t) \in Seq(Texts) /\ Len(Pieces(t)) = n
        /\ \A i \in 1..(m + n) : Pieces(u)[i] = Decoded(u, i)
        /\ \A i \in 1..m : Pieces(s)[i] = Decoded(s, i)
        /\ \A i \in 1..n : Pieces(t)[i] = Decoded(t, i)
    BY <1>1, PiecesType DEF m, n
  <2>2. /\ Pieces(s) \o Pieces(t) \in Seq(Texts) /\ Len(Pieces(s) \o Pieces(t)) = m + n
        /\ \A i \in 1..(m + n) : (Pieces(s) \o Pieces(t))[i] =
             IF i <= m THEN Pieces(s)[i] ELSE Pieces(t)[i - m]
    BY <2>1, ConcatProperties
  <2>3. \A i \in 1..(m + n) : /\ i <= m => i \in 1..m
                              /\ ~(i <= m) => i - m \in 1..n
    BY <1>1
  <2>4. \A i \in 1..(m + n) : Pieces(u)[i] = (Pieces(s) \o Pieces(t))[i]
    BY <1>2, <2>1, <2>2, <2>3
  <2>. DEFINE a == Pieces(u)
              b == Pieces(s) \o Pieces(t)
  <2>5. a \in Seq(Texts) /\ b \in Seq(Texts) /\ Len(a) = Len(b) /\ \A i \in 1..Len(a) : a[i] = b[i]
    BY <2>1, <2>2, <2>4
  <2>. HIDE DEF a, b
  <2>6. a = b
    BY <2>5, SeqEqual
  <2>. QED
    BY <2>6 DEF a, b
<1>4. Pieces(s) \in Seq(Seq(Characters)) /\ Pieces(t) \in Seq(Seq(Characters))
  BY PiecesType DEF Texts
<1>5. FlattenSeq(Pieces(s) \o Pieces(t)) = FlattenSeq(Pieces(s)) \o FlattenSeq(Pieces(t))
  BY <1>4, FlattenConcat
<1>. QED
  BY <1>1, <1>3, <1>5 DEF Decode, Pieces, u

-----------------------------------------------------------------------------
(* Splitting. *)

LEMMA LineStarts ==
  ASSUME NEW text \in Texts, NEW i \in 1..(Len(text) + 1)
  PROVE  /\ LineStart(text, i) \in 1..i
         /\ \A j \in LineStart(text, i)..(i - 1) : text[j] # "nl"
         /\ i <= Len(text) => LineStart(text, i + 1) =
                                 IF text[i] = "nl" THEN i + 1 ELSE LineStart(text, i)
<1>. DEFINE N(k) == {0} \cup {j \in Newlines(text) : j < k}
<1>0. Len(text) \in Nat /\ DOMAIN text = 1..Len(text)
  BY DEF Texts
<1>1. \A k \in 1..(Len(text) + 2) : N(k) \in SUBSET Nat /\ N(k) # {} /\ \A x \in N(k) : x < k
  BY <1>0 DEF Newlines
<1>2. \A k \in 1..(Len(text) + 2) : /\ Max(N(k)) \in N(k) /\ \A y \in N(k) : y <= Max(N(k))
                                    /\ LineStart(text, k) = 1 + Max(N(k))
  <2>. SUFFICES ASSUME NEW k \in 1..(Len(text) + 2)
                PROVE  Max(N(k)) \in N(k) /\ \A y \in N(k) : y <= Max(N(k))
    BY DEF LineStart
  <2>1. k \in Nat /\ \A x \in N(k) : x <= k
    BY <1>0, <1>1
  <2>. HIDE DEF N
  <2>. QED
    BY <1>1, <2>1, MaxNat
<1>3. i \in 1..(Len(text) + 2)
  BY <1>0
<1>4. LineStart(text, i) \in 1..i
  <2>1. Max(N(i)) \in Nat /\ Max(N(i)) < i
    BY <1>1, <1>2, <1>3
  <2>. QED
    BY <1>2, <1>3, <2>1
<1>5. ASSUME NEW j \in LineStart(text, i)..(i - 1), text[j] = "nl"
      PROVE  FALSE
  <2>1. j \in DOMAIN text /\ j < i
    BY <1>0, <1>4
  <2>2. j \in N(i)
    BY <1>5, <2>1 DEF Newlines
  <2>3. j <= Max(N(i)) /\ Max(N(i)) \in Nat
    BY <1>1, <1>2, <1>3, <2>2
  <2>. QED
    BY <1>2, <1>3, <2>1, <2>3
<1>6. ASSUME i <= Len(text)
      PROVE  LineStart(text, i + 1) = IF text[i] = "nl" THEN i + 1 ELSE LineStart(text, i)
  <2>1. i \in DOMAIN text /\ i + 1 \in 1..(Len(text) + 2)
    BY <1>0, <1>6
  <2>2. CASE text[i] = "nl"
    <3>1. i \in N(i + 1) /\ \A y \in N(i + 1) : y <= i /\ y \in Nat
      BY <1>0, <1>1, <2>1, <2>2 DEF Newlines
    <3>2. Max(N(i + 1)) = i
      <4>1. i <= Max(N(i + 1)) /\ Max(N(i + 1)) <= i /\ Max(N(i + 1)) \in Nat
        BY <1>2, <2>1, <3>1
      <4>. QED
        BY <4>1
    <3>. QED
      BY <1>2, <2>1, <2>2, <3>2
  <2>3. CASE text[i] # "nl"
    <3>1. N(i + 1) = N(i)
      BY <1>0, <2>1, <2>3 DEF Newlines
    <3>. QED
      BY <1>2, <1>3, <2>1, <2>3, <3>1
  <2>. QED
    BY <2>2, <2>3
<1>. QED
  BY <1>4, <1>5, <1>6

(* The lines that end up to position n of text, and what follows them.     *)
Piece(text, i) ==
  IF text[i] = "nl" THEN <<SubSeq(text, LineStart(text, i), i - 1)>> ELSE <<>>
LinesUpTo(text, n) == FlattenSeq([i \in 1..n |-> Piece(text, i)])
RestUpTo(text, n) == SubSeq(text, LineStart(text, n + 1), n)

Unbroken(text) == text \in Texts /\ \A i \in 1..Len(text) : text[i] # "nl"

LEMMA RestsUpTo ==
  ASSUME NEW text \in Texts, NEW n \in 0..Len(text)
  PROVE  /\ Unbroken(RestUpTo(text, n))
         /\ Len(RestUpTo(text, n)) <= n
         /\ n < Len(text) /\ text[n + 1] = "nl" => RestUpTo(text, n + 1) = <<>>
         /\ n < Len(text) /\ text[n + 1] # "nl"
              => RestUpTo(text, n + 1) = Append(RestUpTo(text, n), text[n + 1])
<1>. DEFINE b == LineStart(text, n + 1)
            c == LineStart(text, n + 2)
<1>0. /\ Len(text) \in Nat /\ DOMAIN text = 1..Len(text) /\ n \in Nat
      /\ \A i \in 1..Len(text) : text[i] \in Characters
  BY DEF Texts
<1>1. /\ b \in 1..(n + 1) /\ \A j \in b..n : text[j] # "nl"
      /\ n < Len(text) => c = IF text[n + 1] = "nl" THEN n + 2 ELSE b
  <2>1. n + 1 \in 1..(Len(text) + 1) /\ (n + 1) - 1 = n /\ (n + 1) + 1 = n + 2
        /\ (n < Len(text) => n + 1 <= Len(text))
    BY <1>0
  <2>. QED
    BY <2>1, LineStarts
<1>. HIDE DEF b, c
<1>2. \A i \in b..n : text[i] \in Characters
  BY <1>0, <1>1
<1>3. /\ SubSeq(text, b, n) \in Texts
      /\ Len(SubSeq(text, b, n)) = IF b <= n THEN n - b + 1 ELSE 0
      /\ \A i \in 1..(n - b + 1) : SubSeq(text, b, n)[i] = text[b + i - 1]
  BY <1>0, <1>1, <1>2, SubSeqProperties DEF Texts
<1>4. Unbroken(SubSeq(text, b, n)) /\ Len(SubSeq(text, b, n)) <= n
  <2>1. \A i \in 1..(n - b + 1) : b + i - 1 \in b..n
    BY <1>0, <1>1
  <2>2. Len(SubSeq(text, b, n)) = n - b + 1
    BY <1>0, <1>1, <1>3
  <2>. QED
    BY <1>0, <1>1, <1>3, <2>1, <2>2 DEF Unbroken
<1>5. ASSUME n < Len(text), text[n + 1] = "nl"
      PROVE  SubSeq(text, c, n + 1) = <<>>
  BY <1>0, <1>1, <1>5, SubSeqEmpty
<1>6. ASSUME n < Len(text), text[n + 1] # "nl"
      PROVE  SubSeq(text, c, n + 1) = Append(SubSeq(text, b, n), text[n + 1])
  <2>1. c = b /\ b \in 1..Len(text) /\ n + 1 \in b..Len(text) /\ (n + 1) - 1 = n
    BY <1>0, <1>1, <1>6
  <2>2. SubSeq(text, b, n + 1) = SubSeq(text, b, n) \o <<text[n + 1]>>
    <3>. DEFINE k == n + 1
    <3>1. k \in b..Len(text) /\ k - 1 = n
      BY <2>1
    <3>. HIDE DEF k
    <3>2. SubSeq(text, b, k) = SubSeq(text, b, k - 1) \o <<text[k]>>
      BY <2>1, <3>1, SubSeqRecursiveSecond DEF Texts
    <3>. QED
      BY <3>1, <3>2 DEF k
  <2>3. text[n + 1] \in Characters
    BY <1>0, <1>6
  <2>. QED
    BY <1>3, <2>1, <2>2, <2>3, AppendIsConcat DEF Texts
<1>7. RestUpTo(text, n) = SubSeq(text, b, n) /\ RestUpTo(text, n + 1) = SubSeq(text, c, n + 1)
  <2>1. (n + 1) + 1 = n + 2
    BY <1>0
  <2>. QED
    BY <2>1, Zenon DEF RestUpTo, b, c
<1>. QED
  BY <1>4, <1>5, <1>6, <1>7

-----------------------------------------------------------------------------
(* Lines put together again. *)

Terminated(ls) == [k \in DOMAIN ls |-> Append(ls[k], "nl")]

LEMMA TerminatedLines ==
  ASSUME NEW ls \in Seq(Texts)
  PROVE  /\ Terminated(ls) \in Seq(Texts) /\ Len(Terminated(ls)) = Len(ls)
         /\ \A k \in 1..Len(ls) : Terminated(ls)[k] = Append(ls[k], "nl")
<1>1. Len(ls) \in Nat /\ DOMAIN ls = 1..Len(ls) /\ \A k \in 1..Len(ls) : ls[k] \in Texts
  BY LenProperties, ElementOfSeq
<1>2. \A l \in Texts : Append(l, "nl") \in Texts
  BY DEF Texts, Characters
<1>3. \A k \in 1..Len(ls) : Append(ls[k], "nl") \in Texts
  BY <1>1, <1>2
<1>4. Terminated(ls) \in [1..Len(ls) -> Texts]
  BY <1>1, <1>3, Zenon DEF Terminated
<1>. QED
  BY <1>1, <1>4 DEF Terminated

LEMMA JoinedType ==
  ASSUME NEW ls \in Seq(Texts)
  PROVE  Joined(ls) \in Texts
<1>1. Terminated(ls) \in Seq(Seq(Characters))
  BY TerminatedLines DEF Texts
<1>. QED
  BY <1>1, FlattenType DEF Joined, Terminated, Texts

LEMMA JoinedConcat ==
  ASSUME NEW ls \in Seq(Texts), NEW ms \in Seq(Texts)
  PROVE  Joined(ls \o ms) = Joined(ls) \o Joined(ms)
<1>. DEFINE a == Len(ls)
            b == Len(ms)
            u == Terminated(ls \o ms)
            x == Terminated(ls)
            y == Terminated(ms)
            v == x \o y
<1>1. /\ ls \o ms \in Seq(Texts) /\ Len(ls \o ms) = a + b /\ a \in Nat /\ b \in Nat
      /\ \A k \in 1..(a + b) : (ls \o ms)[k] = IF k <= a THEN ls[k] ELSE ms[k - a]
  BY ConcatProperties, LenProperties
<1>2. /\ u \in Seq(Texts) /\ Len(u) = a + b
      /\ \A k \in 1..(a + b) : u[k] = Append((ls \o ms)[k], "nl")
  BY <1>1, TerminatedLines
<1>3. /\ x \in Seq(Texts) /\ Len(x) = a /\ y \in Seq(Texts) /\ Len(y) = b
      /\ \A k \in 1..a : x[k] = Append(ls[k], "nl")
      /\ \A k \in 1..b : y[k] = Append(ms[k], "nl")
  BY TerminatedLines
<1>. HIDE DEF a, b, u, x, y
<1>4. /\ v \in Seq(Texts) /\ Len(v) = a + b
      /\ \A k \in 1..(a + b) : v[k] = IF k <= a THEN x[k] ELSE y[k - a]
  BY <1>3, ConcatProperties
<1>. HIDE DEF v
<1>6. ASSUME NEW k \in 1..(a + b)
      PROVE  u[k] = v[k]
  <2>1. CASE k <= a
    <3>1. k \in 1..a
      BY <1>1, <2>1
    <3>2. (ls \o ms)[k] = ls[k] /\ v[k] = x[k]
      BY <1>1, <1>4, <2>1
    <3>3. u[k] = Append((ls \o ms)[k], "nl") /\ x[k] = Append(ls[k], "nl")
      BY <1>2, <1>3, <3>1
    <3>. QED
      BY <3>2, <3>3
  <2>2. CASE ~(k <= a)
    <3>1. k - a \in 1..b
      BY <1>1, <2>2
    <3>2. (ls \o ms)[k] = ms[k - a] /\ v[k] = y[k - a]
      BY <1>1, <1>4, <2>2
    <3>3. u[k] = Append((ls \o ms)[k], "nl") /\ y[k - a] = Append(ms[k - a], "nl")
      BY <1>2, <1>3, <3>1
    <3>. QED
      BY <3>2, <3>3
  <2>. QED
    BY <2>1, <2>2
<1>7. u = v
  BY <1>2, <1>4, <1>6, SeqEqual
<1>8. x \in Seq(Seq(Characters)) /\ y \in Seq(Seq(Characters))
  BY <1>3 DEF Texts
<1>9. FlattenSeq(v) = FlattenSeq(x) \o FlattenSeq(y)
  BY <1>8, FlattenConcat DEF v
<1>. QED
  BY <1>7, <1>9 DEF Joined, Terminated, u, x, y

LEMMA JoinedOne ==
  ASSUME NEW l \in Texts
  PROVE  Joined(<<l>>) = Append(l, "nl")
<1>1. Append(l, "nl") \in Seq(Characters)
  BY DEF Texts, Characters
<1>2. Terminated(<<l>>) = <<Append(l, "nl")>>
  BY DEF Terminated
<1>. QED
  BY <1>1, <1>2, FlattenSingle DEF Joined, Terminated

LEMMA JoinedAppend ==
  ASSUME NEW ls \in Seq(Texts), NEW l \in Texts
  PROVE  Joined(Append(ls, l)) = Joined(ls) \o Append(l, "nl")
<1>1. <<l>> \in Seq(Texts) /\ Append(ls, l) = ls \o <<l>>
  BY AppendIsConcat
<1>. QED
  BY <1>1, JoinedConcat, JoinedOne

LEMMA JoinedNone == Joined(<<>>) = <<>>
<1>1. Terminated(<<>>) = <<>>
  BY DEF Terminated
<1>. QED
  BY <1>1, FlattenEmpty DEF Joined, Terminated

-----------------------------------------------------------------------------
(* The lines of a text and its rest are the text.                          *)

LEMMA PieceType ==
  ASSUME NEW text \in Texts, NEW i \in 1..Len(text)
  PROVE  /\ Piece(text, i) = IF text[i] = "nl" THEN <<RestUpTo(text, i - 1)>> ELSE <<>>
         /\ Piece(text, i) \in Seq(Texts)
<1>1. i - 1 \in 0..Len(text) /\ (i - 1) + 1 = i
  BY DEF Texts
<1>2. Piece(text, i) = IF text[i] = "nl" THEN <<RestUpTo(text, i - 1)>> ELSE <<>>
  BY <1>1 DEF Piece, RestUpTo
<1>3. RestUpTo(text, i - 1) \in Texts
  BY <1>1, RestsUpTo DEF Unbroken
<1>. QED
  BY <1>2, <1>3

LEMMA LinesUpToStep ==
  ASSUME NEW text \in Texts, NEW n \in 0..(Len(text) - 1), LinesUpTo(text, n) \in Seq(Texts)
  PROVE  LinesUpTo(text, n + 1) = LinesUpTo(text, n) \o Piece(text, n + 1)
<1>. DEFINE E == Seq(Texts)
            ps == [i \in 1..n |-> Piece(text, i)]
            qs == [i \in 1..(n + 1) |-> Piece(text, i)]
            p == Piece(text, n + 1)
<1>1. Len(text) \in Nat /\ n \in Nat /\ n + 1 \in 1..Len(text)
      /\ \A i \in 1..(n + 1) : i \in 1..Len(text)
  BY DEF Texts
<1>2. \A i \in 1..(n + 1) : Piece(text, i) \in E
  BY <1>1, PieceType
<1>. HIDE DEF E
<1>3. ps \in Seq(E) /\ Len(ps) = n /\ qs \in Seq(E) /\ Len(qs) = n + 1 /\ p \in E
  <2>1. ps \in [1..n -> E] /\ qs \in [1..(n + 1) -> E] /\ p \in E
    BY <1>1, <1>2
  <2>. HIDE DEF ps, qs, p
  <2>. QED
    BY <1>1, <2>1
<1>4. (\A i \in 1..n : ps[i] = qs[i]) /\ qs[n + 1] = p
  BY <1>1
<1>. HIDE DEF ps, qs, p
<1>5. /\ Append(ps, p) \in Seq(E) /\ Len(Append(ps, p)) = n + 1
      /\ \A i \in 1..n : Append(ps, p)[i] = ps[i]
      /\ Append(ps, p)[n + 1] = p
  BY <1>3, AppendProperties
<1>6. qs = Append(ps, p)
  <2>1. \A i \in 1..(n + 1) : i \in 1..n \/ i = n + 1
    BY <1>1
  <2>2. \A i \in 1..(n + 1) : qs[i] = Append(ps, p)[i]
    BY <1>4, <1>5, <2>1
  <2>. QED
    BY <1>3, <1>5, <2>2, SeqEqual
<1>7. FlattenSeq(Append(ps, p)) = FlattenSeq(ps) \o p
  BY <1>3, FlattenAppend DEF E
<1>. QED
  BY <1>6, <1>7 DEF LinesUpTo, ps, qs, p

SplitUpTo(text, n) ==
  /\ LinesUpTo(text, n) \in Seq(Texts)
  /\ \A k \in 1..Len(LinesUpTo(text, n)) : Unbroken(LinesUpTo(text, n)[k])
  /\ Joined(LinesUpTo(text, n)) \o RestUpTo(text, n) = SubSeq(text, 1, n)

LEMMA SplitStep ==
  ASSUME NEW text \in Texts, NEW n \in 0..(Len(text) - 1), SplitUpTo(text, n)
  PROVE  SplitUpTo(text, n + 1)
<1>. DEFINE ls == LinesUpTo(text, n)
            rest == RestUpTo(text, n)
            c == text[n + 1]
            ms == LinesUpTo(text, n + 1)
<1>1. Len(text) \in Nat /\ n \in 0..Len(text) /\ n + 1 \in 1..Len(text) /\ n < Len(text)
      /\ c \in Characters
  BY DEF Texts
<1>2. /\ Unbroken(rest) /\ rest \in Texts
      /\ c = "nl" => RestUpTo(text, n + 1) = <<>>
      /\ c # "nl" => RestUpTo(text, n + 1) = Append(rest, c)
  BY <1>1, RestsUpTo DEF Unbroken
<1>3. /\ ls \in Seq(Texts) /\ \A k \in 1..Len(ls) : Unbroken(ls[k])
      /\ Joined(ls) \in Texts
      /\ Joined(ls) \o rest = SubSeq(text, 1, n)
  BY JoinedType DEF SplitUpTo
<1>4. SubSeq(text, 1, n + 1) = Append(SubSeq(text, 1, n), c)
  <2>1. SubSeq(text, 1, n + 1) = SubSeq(text, 1, (n + 1) - 1) \o <<c>>
    BY <1>1, SubSeqRecursiveSecond DEF Texts
  <2>2. SubSeq(text, 1, n) \in Texts /\ (n + 1) - 1 = n
    BY <1>1 DEF Texts
  <2>. QED
    BY <1>1, <2>1, <2>2, AppendIsConcat DEF Texts
<1>5. /\ ms = ls \o Piece(text, n + 1)
      /\ Piece(text, n + 1) = IF c = "nl" THEN <<rest>> ELSE <<>>
  <2>1. (n + 1) - 1 = n
    BY <1>1
  <2>. QED
    BY <1>1, <1>3, <2>1, LinesUpToStep, PieceType
<1>6. Joined(ls) \o Append(rest, c) = Append(SubSeq(text, 1, n), c)
  <2>1. \A a, b \in Texts, e \in Characters : a \o Append(b, e) = Append(a \o b, e)
    BY AppendConcat DEF Texts
  <2>. HIDE DEF ls, rest, c
  <2>2. Joined(ls) \o Append(rest, c) = Append(Joined(ls) \o rest, c)
    BY <1>1, <1>2, <1>3, <2>1
  <2>. QED
    BY <1>3, <2>2
<1>. HIDE DEF ls, rest, c, ms
<1>7. CASE c = "nl"
  <2>1. ms = Append(ls, rest)
    BY <1>2, <1>3, <1>5, <1>7, AppendIsConcat
  <2>2. /\ ms \in Seq(Texts) /\ Len(ms) = Len(ls) + 1 /\ Len(ls) \in Nat
        /\ (\A k \in 1..Len(ls) : ms[k] = ls[k]) /\ ms[Len(ls) + 1] = rest
    BY <1>2, <1>3, <2>1, AppendProperties, LenProperties
  <2>3. \A k \in 1..Len(ms) : Unbroken(ms[k])
    <3>1. \A k \in 1..Len(ms) : k \in 1..Len(ls) \/ k = Len(ls) + 1
      BY <2>2
    <3>. QED
      BY <1>2, <1>3, <2>2, <3>1
  <2>4. Joined(ms) = Joined(ls) \o Append(rest, "nl")
    BY <1>2, <1>3, <2>1, JoinedAppend
  <2>5. Joined(ms) \in Texts /\ Joined(ms) \o <<>> = Joined(ms)
    BY <2>2, JoinedType, ConcatEmptySeq DEF Texts
  <2>6. Joined(ms) \o RestUpTo(text, n + 1) = SubSeq(text, 1, n + 1)
    BY <1>2, <1>4, <1>6, <1>7, <2>4, <2>5
  <2>. QED
    BY <2>2, <2>3, <2>6 DEF SplitUpTo, ms
<1>8. CASE c # "nl"
  <2>1. ms = ls
    BY <1>3, <1>5, <1>8, ConcatEmptySeq
  <2>2. Joined(ms) \o RestUpTo(text, n + 1) = SubSeq(text, 1, n + 1)
    BY <1>2, <1>4, <1>6, <1>8, <2>1
  <2>. QED
    BY <1>3, <2>1, <2>2 DEF SplitUpTo, ms
<1>. QED
  BY <1>7, <1>8

(* What the loop of iter_lines makes of a text: lines without a newline in *)
(* them, a rest without one, and nothing is lost.                          *)
LEMMA Splitting ==
  ASSUME NEW text \in Texts
  PROVE  /\ WholeLines(text) \in Seq(Texts)
         /\ \A k \in 1..Len(WholeLines(text)) : Unbroken(WholeLines(text)[k])
         /\ Unbroken(Rest(text)) /\ Len(Rest(text)) <= Len(text)
         /\ Joined(WholeLines(text)) \o Rest(text) = text
<1>. DEFINE G == {n \in Nat : n <= Len(text) => SplitUpTo(text, n)}
<1>0. Len(text) \in Nat /\ DOMAIN text = 1..Len(text)
  BY DEF Texts
<1>1. 0 \in G
  <2>1. LinesUpTo(text, 0) = <<>>
    <3>1. [i \in 1..0 |-> Piece(text, i)] = <<>>
      OBVIOUS
    <3>. QED
      BY <3>1, FlattenEmpty DEF LinesUpTo
  <2>2. RestUpTo(text, 0) = <<>>
    <3>1. 0 \in 0..Len(text)
      BY <1>0
    <3>2. RestUpTo(text, 0) \in Texts /\ Len(RestUpTo(text, 0)) <= 0
      BY <3>1, RestsUpTo DEF Unbroken
    <3>. QED
      BY <3>2 DEF Texts
  <2>3. SubSeq(text, 1, 0) = <<>>
    BY SubSeqEmpty
  <2>4. <<>> \in Seq(Texts) /\ Len(<<>>) = 0 /\ <<>> \o <<>> = <<>>
    BY EmptySeq, ConcatEmptySeq
  <2>5. \A k \in 1..Len(LinesUpTo(text, 0)) : Unbroken(LinesUpTo(text, 0)[k])
    BY <2>1, <2>4
  <2>6. Joined(LinesUpTo(text, 0)) \o RestUpTo(text, 0) = SubSeq(text, 1, 0)
    BY <2>1, <2>2, <2>3, <2>4, JoinedNone
  <2>. QED
    BY <2>1, <2>4, <2>5, <2>6 DEF SplitUpTo
<1>2. ASSUME NEW n \in G
      PROVE  n + 1 \in G
  <2>. SUFFICES ASSUME n + 1 <= Len(text)
                PROVE  SplitUpTo(text, n + 1)
    OBVIOUS
  <2>1. n \in 0..(Len(text) - 1) /\ SplitUpTo(text, n)
    BY <1>0
  <2>. QED
    BY <2>1, SplitStep
<1>. HIDE DEF G
<1>3. G \in SUBSET Nat
  BY DEF G
<1>4. G = Nat
  BY <1>1, <1>2, <1>3, NatSetInduction
<1>5. SplitUpTo(text, Len(text))
  BY <1>0, <1>4 DEF G
<1>6. WholeLines(text) = LinesUpTo(text, Len(text)) /\ Rest(text) = RestUpTo(text, Len(text))
  BY <1>0 DEF WholeLines, LinesUpTo, Piece, Rest, RestUpTo
<1>7. SubSeq(text, 1, Len(text)) = text
  BY SubSeqFull DEF Texts
<1>8. Unbroken(Rest(text)) /\ Len(Rest(text)) <= Len(text)
  <2>1. Len(text) \in 0..Len(text)
    BY <1>0
  <2>. QED
    BY <1>6, <2>1, RestsUpTo
<1>. QED
  BY <1>5, <1>6, <1>7, <1>8 DEF SplitUpTo

-----------------------------------------------------------------------------
(* The invariant: every chunk end is a cut, and as long as no cut went     *)
(* through a character, what was handed on and what is held are the body.  *)

ReaderInv ==
  /\ sent \in Bodies
  /\ cuts \subseteq Nat \ {0}
  /\ sent # <<>> => Len(sent) \in cuts
  /\ status \in {"reading", "ended", "failed"}
  /\ Unbroken(pending) /\ Len(pending) <= Cap
  /\ lines \in Seq(Texts) /\ \A k \in 1..Len(lines) : Unbroken(lines[k])
  /\ status # "failed" /\ ~CutsACharacter => Reassembled = Decode(sent)

LEMMA InvInit == Init => ReaderInv
<1>. SUFFICES ASSUME Init
              PROVE  ReaderInv
  OBVIOUS
<1>1. <<>> \in Bodies /\ <<>> \in Texts /\ <<>> \in Seq(Texts) /\ Len(<<>>) = 0
  BY EmptySeq DEF Bodies, Texts
<1>2. Decode(<<>>) = <<>>
  <2>1. [i \in DOMAIN <<>> |-> Decoded(<<>>, i)] = <<>>
    OBVIOUS
  <2>. QED
    BY <2>1, FlattenEmpty DEF Decode
<1>3. Reassembled = Decode(sent)
  <2>1. <<>> \o <<>> = <<>>
    BY <1>1, ConcatEmptySeq
  <2>. QED
    BY <1>2, <2>1, JoinedNone DEF Init, Reassembled
<1>. QED
  BY <1>1, <1>3, LineReaderAssumption DEF LineReaderAssumption, Init, ReaderInv, Unbroken

LEMMA InvReceive ==
  ASSUME ReaderInv, NEW chunk \in Chunks, Receive(chunk)
  PROVE  ReaderInv'
<1>. DEFINE text == pending \o Decode(chunk)
<1>1. chunk \in Bodies /\ chunk # <<>>
  <2>1. PICK n \in 1..MaxChunk : chunk \in [1..n -> Bytes]
    BY DEF Chunks
  <2>2. n \in Nat \ {0} /\ Bytes \subseteq AllBytes
    BY LineReaderAssumption DEF LineReaderAssumption, AllBytes
  <2>. QED
    BY <2>1, <2>2 DEF Bodies
<1>2. /\ status = "reading" /\ sent' = sent \o chunk
      /\ cuts' = cuts \cup {Len(sent')}
      /\ \/ Len(text) > Cap /\ status' = "failed" /\ UNCHANGED <<pending, lines>>
         \/ /\ ~(Len(text) > Cap) /\ UNCHANGED status
            /\ lines' = lines \o WholeLines(text) /\ pending' = Rest(text)
  BY DEF Receive, Arrive
<1>3. /\ sent \in Bodies /\ pending \in Texts /\ Unbroken(pending) /\ Len(pending) <= Cap
      /\ lines \in Seq(Texts) /\ \A k \in 1..Len(lines) : Unbroken(lines[k])
  BY DEF ReaderInv, Unbroken
<1>4. /\ sent' \in Bodies /\ Len(sent') = Len(sent) + Len(chunk)
      /\ Len(sent) \in Nat /\ Len(chunk) \in Nat \ {0}
      /\ \A i \in 1..Len(sent) : sent'[i] = sent[i]
      /\ sent'[Len(sent) + 1] = chunk[1]
  <2>1. /\ sent' \in Bodies /\ Len(sent') = Len(sent) + Len(chunk)
        /\ Len(sent) \in Nat /\ Len(chunk) \in Nat \ {0}
        /\ \A i \in 1..(Len(sent) + Len(chunk)) :
             sent'[i] = IF i <= Len(sent) THEN sent[i] ELSE chunk[i - Len(sent)]
    BY <1>1, <1>2, <1>3, ConcatProperties, EmptySeq, LenProperties DEF Bodies
  <2>. QED
    BY <2>1
<1>5. cuts' \subseteq Nat \ {0} /\ Len(sent') \in cuts'
  <2>1. \A m \in Nat, n \in Nat \ {0} : m + n \in Nat \ {0}
    OBVIOUS
  <2>2. Len(sent') \in Nat \ {0}
    BY <1>4, <2>1
  <2>3. cuts \subseteq Nat \ {0}
    BY DEF ReaderInv
  <2>. HIDE DEF text
  <2>. QED
    BY <1>2, <2>2, <2>3, Zenon
<1>6. CASE Len(text) > Cap /\ status' = "failed" /\ UNCHANGED <<pending, lines>>
  BY <1>3, <1>4, <1>5, <1>6 DEF ReaderInv
<1>7. CASE /\ ~(Len(text) > Cap) /\ UNCHANGED status
           /\ lines' = lines \o WholeLines(text) /\ pending' = Rest(text)
  <2>. DEFINE wl == WholeLines(text)
  <2>1. Decode(chunk) \in Texts /\ text \in Texts
    BY <1>1, <1>3, DecodeType, ConcatProperties DEF Texts
  <2>. HIDE DEF text
  <2>2. /\ wl \in Seq(Texts) /\ \A k \in 1..Len(wl) : Unbroken(wl[k])
        /\ Unbroken(Rest(text)) /\ Len(Rest(text)) <= Len(text)
        /\ Joined(wl) \o Rest(text) = text
    BY <2>1, Splitting
  <2>3. Unbroken(pending') /\ Len(pending') <= Cap
    <3>1. Cap \in Nat /\ Len(text) \in Nat /\ Len(Rest(text)) \in Nat
      BY <2>1, <2>2, LineReaderAssumption DEF LineReaderAssumption, Texts, Unbroken
    <3>. QED
      BY <1>7, <2>2, <3>1
  <2>. HIDE DEF wl
  <2>4. lines' \in Seq(Texts) /\ \A k \in 1..Len(lines') : Unbroken(lines'[k])
    <3>1. /\ lines \o wl \in Seq(Texts) /\ Len(lines \o wl) = Len(lines) + Len(wl)
          /\ Len(lines) \in Nat /\ Len(wl) \in Nat
          /\ \A k \in 1..(Len(lines) + Len(wl)) :
               (lines \o wl)[k] = IF k <= Len(lines) THEN lines[k] ELSE wl[k - Len(lines)]
      BY <1>3, <2>2, ConcatProperties, LenProperties
    <3>2. lines' = lines \o wl
      BY <1>7 DEF wl
    <3>3. \A k \in 1..(Len(lines) + Len(wl)) :
            /\ k <= Len(lines) => k \in 1..Len(lines)
            /\ ~(k <= Len(lines)) => k - Len(lines) \in 1..Len(wl)
      BY <3>1
    <3>. QED
      BY <1>3, <2>2, <3>1, <3>2, <3>3
  <2>5. ASSUME ~CutsACharacter'
        PROVE  Reassembled' = Decode(sent')
    <3>1. ~CutsACharacter
      <4>. SUFFICES ASSUME NEW i \in cuts, i < Len(sent), sent[i] = "H", sent[i + 1] = "T"
                    PROVE  FALSE
        BY DEF CutsACharacter
      <4>1. i \in cuts' /\ i < Len(sent') /\ i \in 1..Len(sent) /\ i + 1 \in 1..Len(sent)
        BY <1>2, <1>4 DEF ReaderInv
      <4>. QED
        BY <1>4, <2>5, <4>1 DEF CutsACharacter
    <3>2. ~(sent # <<>> /\ chunk # <<>> /\ sent[Len(sent)] = "H" /\ chunk[1] = "T")
      <4>. SUFFICES ASSUME sent # <<>>, sent[Len(sent)] = "H", chunk[1] = "T"
                    PROVE  FALSE
        OBVIOUS
      <4>1. Len(sent) \in cuts' /\ Len(sent) < Len(sent') /\ Len(sent) \in 1..Len(sent)
        BY <1>2, <1>4 DEF ReaderInv
      <4>. QED
        BY <1>4, <2>5, <4>1 DEF CutsACharacter
    <3>3. Decode(sent') = Decode(sent) \o Decode(chunk)
      BY <1>1, <1>2, <1>3, <3>2, DecodeConcat
    <3>4. Joined(lines) \o pending = Decode(sent)
      BY <1>2, <3>1 DEF ReaderInv, Reassembled
    <3>5. Joined(lines') = Joined(lines) \o Joined(wl)
      BY <1>3, <1>7, <2>2, JoinedConcat DEF wl
    <3>6. Joined(lines) \in Texts /\ Joined(wl) \in Texts /\ Rest(text) \in Texts
      BY <1>3, <2>2, JoinedType DEF Unbroken
    <3>7. (Joined(lines) \o Joined(wl)) \o Rest(text) = Joined(lines) \o text
      <4>1. (Joined(lines) \o Joined(wl)) \o Rest(text) = Joined(lines) \o (Joined(wl) \o Rest(text))
        BY <3>6, ConcatAssociative DEF Texts
      <4>. QED
        BY <2>2, <4>1
    <3>8. Joined(lines) \o text = (Joined(lines) \o pending) \o Decode(chunk)
      <4>1. \A a, b, c \in Texts : (a \o b) \o c = a \o (b \o c)
        BY ConcatAssociative DEF Texts
      <4>2. pending \in Texts /\ Decode(chunk) \in Texts /\ Joined(lines) \in Texts
        BY <1>3, <2>1, <3>6
      <4>3. (Joined(lines) \o pending) \o Decode(chunk) = Joined(lines) \o (pending \o Decode(chunk))
        BY <4>1, <4>2, Zenon
      <4>4. text = pending \o Decode(chunk)
        BY DEF text
      <4>. QED
        BY <4>3, <4>4, Zenon
    <3>9. Joined(lines') \o pending' = Decode(sent')
      BY <1>7, <3>3, <3>4, <3>5, <3>7, <3>8
    <3>. QED
      BY <1>2, <1>7, <3>9 DEF Reassembled
  <2>. QED
    BY <1>2, <1>4, <1>5, <1>7, <2>3, <2>4, <2>5 DEF ReaderInv
<1>. QED
  BY <1>2, <1>6, <1>7

LEMMA InvEnd ==
  ASSUME ReaderInv, EndOfBody
  PROVE  ReaderInv'
<1>1. /\ status = "reading" /\ status' = "ended" /\ UNCHANGED <<sent, cuts, pending>>
      /\ lines' = IF pending = <<>> THEN lines ELSE Append(lines, pending)
  BY DEF EndOfBody
<1>2. /\ pending \in Texts /\ Unbroken(pending)
      /\ lines \in Seq(Texts) /\ \A k \in 1..Len(lines) : Unbroken(lines[k])
      /\ Joined(lines) \in Texts
      /\ ~CutsACharacter => Joined(lines) \o pending = Decode(sent)
  BY <1>1, JoinedType DEF ReaderInv, Unbroken, Reassembled
<1>3. CutsACharacter' <=> CutsACharacter
  BY <1>1 DEF CutsACharacter
<1>4. CASE pending = <<>>
  <2>1. Joined(lines) \o pending = Joined(lines)
    BY <1>2, <1>4, ConcatEmptySeq DEF Texts
  <2>2. ~CutsACharacter' => Reassembled' = Decode(sent')
    BY <1>1, <1>2, <1>3, <1>4, <2>1 DEF Reassembled
  <2>. QED
    BY <1>1, <1>4, <2>2 DEF ReaderInv
<1>5. CASE pending # <<>>
  <2>1. /\ lines' \in Seq(Texts) /\ Len(lines') = Len(lines) + 1 /\ Len(lines) \in Nat
        /\ (\A k \in 1..Len(lines) : lines'[k] = lines[k]) /\ lines'[Len(lines) + 1] = pending
    BY <1>1, <1>2, <1>5, AppendProperties, LenProperties
  <2>2. \A k \in 1..Len(lines') : Unbroken(lines'[k])
    <3>1. \A k \in 1..Len(lines') : k \in 1..Len(lines) \/ k = Len(lines) + 1
      BY <2>1
    <3>. QED
      BY <1>2, <2>1, <3>1
  <2>3. Joined(lines') = Append(Joined(lines) \o pending, "nl")
    <3>1. Joined(lines') = Joined(lines) \o Append(pending, "nl")
      BY <1>1, <1>2, <1>5, JoinedAppend
    <3>2. "nl" \in Characters
      BY DEF Characters
    <3>. QED
      BY <1>2, <3>1, <3>2, AppendConcat DEF Texts
  <2>4. \A s \in Texts : Front(Append(s, "nl")) = s
    BY DEF Front, Texts, Characters
  <2>5. Joined(lines) \o pending \in Texts
    BY <1>2, ConcatProperties DEF Texts
  <2>6. Front(Joined(lines')) = Joined(lines) \o pending
    BY <2>3, <2>4, <2>5
  <2>7. ~CutsACharacter' => Reassembled' = Decode(sent')
    BY <1>1, <1>2, <1>3, <1>5, <2>6 DEF Reassembled
  <2>. QED
    BY <1>1, <2>1, <2>2, <2>7 DEF ReaderInv
<1>. QED
  BY <1>4, <1>5

LEMMA InvStep == ReaderInv /\ [Next]_vars => ReaderInv'
<1>. SUFFICES ASSUME ReaderInv, [Next]_vars
              PROVE  ReaderInv'
  OBVIOUS
<1>1. CASE UNCHANGED vars
  BY <1>1 DEF vars, ReaderInv, CutsACharacter, Reassembled
<1>. QED
  BY <1>1, InvReceive, InvEnd DEF Next

(* However the body is cut, line by line and chunk by chunk.               *)
THEOREM ReaderInductive == Spec => []ReaderInv
BY InvInit, InvStep, PTL DEF Spec

(* Wherever the body is cut between two characters, the lines and the held *)
(* part put together are the body, and no line holds another.              *)
THEOREM LinesAreTheBody == Spec => []NothingLostOrMoved
<1>1. ReaderInv => NothingLostOrMoved
  BY LenProperties DEF ReaderInv, NothingLostOrMoved, Unbroken, Newlines, Texts
<1>. QED
  BY <1>1, ReaderInductive, PTL

(* The reader never holds more than the cap, nor a line that is complete.  *)
THEOREM HeldPartBounded == Spec => []PendingBounded
<1>1. ReaderInv => PendingBounded
  BY LenProperties DEF ReaderInv, PendingBounded, Unbroken, Newlines, Texts
<1>. QED
  BY <1>1, ReaderInductive, PTL
=============================================================================
