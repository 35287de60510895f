--------------------------- MODULE RedactorProofs ---------------------------
(***************************************************************************)
(* Theorems about Redactor, for every length of its patterns.  No match is *)
(* longer than the hold, which bounds the buffer.  A character at which a  *)
(* run ends is in no match and is seen by no lookaround, so a text falls   *)
(* apart there: the scan finds in the whole what it finds in the parts.    *)
(***************************************************************************)
EXTENDS Redactor, FoldTheorems, TLAPS

Characters == {"l", "d", "@", ".", "-", " ", "!"}
Texts == Seq(Characters)

LEMMA Lengths ==
  /\ MaxLocal \in Nat \ {0} /\ MaxLabel \in Nat \ {0} /\ MaxSubdomains \in Nat
  /\ MinTld \in Nat \ {0} /\ MaxTld \in Nat \ {0}
  /\ CardHead \in Nat \ {0} /\ CardMin \in Nat \ {0} /\ CardMax \in Nat \ {0}
  /\ Ssn[1] \in Nat \ {0} /\ Ssn[2] \in Nat \ {0} /\ Ssn[3] \in Nat \ {0}
<1>1. 1 \in 1..3 /\ 2 \in 1..3 /\ 3 \in 1..3
  OBVIOUS
<1>. QED
  BY <1>1, RedactorAssumption DEF RedactorAssumption

-----------------------------------------------------------------------------
(* The length of a match. *)

(* Every position of a domain up to its last dot has a dot within reach.   *)
LEMMA DotsAhead ==
  ASSUME NEW s, NEW at \in Nat, NEW j \in Nat, IsDomain(s, at, j),
         NEW dots, dots = {k \in at..j : s[k] = "."}, NEW x \in (at + 1)..Max(dots)
  PROVE  \E dot \in dots : dot - x \in 0..MaxLabel
<1>1. dots \in SUBSET Nat /\ dots # {} /\ \A k \in dots : k <= j
  <2>1. Cardinality(dots) # 0
    BY DEF IsDomain
  <2>. QED
    BY <2>1, FS_EmptySet
<1>2. Max(dots) \in dots /\ \A k \in dots : k <= Max(dots)
  BY <1>1, MaxNat
<1>. DEFINE K == {k \in {at} \cup (dots \ {Max(dots)}) : k < x}
<1>3. K \in SUBSET Nat /\ at \in K /\ \A k \in K : k <= j
  BY <1>1, <1>2
<1>4. Max(K) \in K /\ \A k \in K : k <= Max(K)
  BY <1>3, MaxNat, Zenon
<1>5. PICK dot \in dots : dot - Max(K) - 1 \in 1..MaxLabel
  BY <1>4 DEF IsDomain
<1>6. x \in Nat /\ dot \in Nat /\ Max(K) \in Nat /\ Max(K) < x /\ MaxLabel \in Nat
  <2>1. Max(K) \in Nat /\ Max(K) < x
    BY <1>3, <1>4
  <2>2. Max(dots) \in Nat /\ dot \in Nat
    BY <1>1, <1>2
  <2>3. MaxLabel \in Nat
    BY RedactorAssumption DEF RedactorAssumption
  <2>. HIDE DEF K
  <2>. QED
    BY <2>1, <2>2, <2>3
<1>7. dot >= x
  <2>. SUFFICES ASSUME dot < x
                PROVE  FALSE
    BY <1>6
  <2>1. dot \in K
    BY <1>2, <1>6
  <2>2. dot <= Max(K)
    BY <1>4, <2>1
  <2>. HIDE DEF K
  <2>. QED
    BY <1>5, <1>6, <2>2
<1>8. dot - x \in 0..MaxLabel
  <2>. HIDE DEF K
  <2>. QED
    BY <1>5, <1>6, <1>7
<1>. QED
  BY <1>8

LEMMA DomainLength ==
  ASSUME NEW s, NEW at \in Nat, NEW j \in Nat, IsDomain(s, at, j)
  PROVE  j - at <= (MaxSubdomains + 1) * (MaxLabel + 1) + MaxTld
<1>. DEFINE dots == {k \in at..j : s[k] = "."}
            last == Max(dots)
            R == 0..MaxLabel
<1>1. MaxLabel \in Nat /\ MaxSubdomains \in Nat /\ MinTld \in Nat /\ MaxTld \in Nat
  BY RedactorAssumption DEF RedactorAssumption
<1>2. dots \in SUBSET Nat /\ dots # {} /\ \A k \in dots : k <= j
  <2>1. Cardinality(dots) # 0
    BY DEF IsDomain
  <2>. QED
    BY <2>1, FS_EmptySet
<1>3. last \in dots /\ last \in Nat /\ at <= last /\ last <= j
  <2>1. last \in dots
    BY <1>2, MaxNat, Zenon
  <2>. HIDE DEF last
  <2>. QED
    BY <2>1
<1>4. j - last <= MaxTld
  BY <1>1, <1>3 DEF IsDomain
<1>5. /\ IsFiniteSet(dots) /\ IsFiniteSet(R) /\ IsFiniteSet((at + 1)..last)
      /\ Cardinality(R) = MaxLabel + 1 /\ Cardinality((at + 1)..last) = last - at
      /\ Cardinality(dots) \in 1..(MaxSubdomains + 1)
  <2>1. IsFiniteSet(at..j)
    BY FS_Interval
  <2>2. IsFiniteSet(dots)
    BY <2>1, FS_Subset
  <2>3. /\ IsFiniteSet(R) /\ IsFiniteSet((at + 1)..last)
        /\ Cardinality(R) = MaxLabel + 1 /\ Cardinality((at + 1)..last) = last - at
    <3>1. 0 \in Int /\ MaxLabel \in Int /\ at + 1 \in Int /\ last \in Int
      BY <1>1, <1>3
    <3>. HIDE DEF last
    <3>2. /\ IsFiniteSet(R) /\ IsFiniteSet((at + 1)..last)
          /\ Cardinality(R) = (IF 0 > MaxLabel THEN 0 ELSE MaxLabel - 0 + 1)
          /\ Cardinality((at + 1)..last) = (IF at + 1 > last THEN 0 ELSE last - (at + 1) + 1)
      BY <3>1, FS_Interval
    <3>. QED
      BY <1>1, <1>3, <3>2
  <2>. QED
    BY <2>2, <2>3 DEF IsDomain
<1>6. \A x \in (at + 1)..last : \E dot \in dots : dot - x \in R
  BY DotsAhead
<1>. HIDE DEF dots, last, R
<1>. DEFINE dotOf == [x \in (at + 1)..last |-> CHOOSE dot \in dots : dot - x \in R]
            f == [x \in (at + 1)..last |-> <<dotOf[x], dotOf[x] - x>>]
<1>7. \A x \in (at + 1)..last : dotOf[x] \in dots /\ dotOf[x] - x \in R
  BY <1>6
<1>8. f \in Injection((at + 1)..last, dots \X R)
  <2>1. f \in [(at + 1)..last -> dots \X R]
    <3>. HIDE DEF dotOf
    <3>. QED
      BY <1>7
  <2>2. ASSUME NEW x \in (at + 1)..last, NEW y \in (at + 1)..last, f[x] = f[y]
        PROVE  x = y
    <3>1. dotOf[x] = dotOf[y] /\ dotOf[x] - x = dotOf[y] - y
      <4>. HIDE DEF dotOf
      <4>. QED
        BY <2>2
    <3>2. dotOf[x] \in Nat /\ x \in Int /\ y \in Int
      <4>1. dotOf[x] \in dots
        BY <1>7
      <4>2. dotOf[x] \in Nat
        BY <1>2, <4>1
      <4>3. x \in Int /\ y \in Int
        BY <1>3
      <4>. QED
        BY <4>2, <4>3
    <3>. HIDE DEF dotOf, f
    <3>. QED
      BY <3>1, <3>2
  <2>. HIDE DEF f
  <2>. QED
    BY <2>1, <2>2 DEF Injection, IsInjective
<1>9. IsFiniteSet(dots \X R) /\ Cardinality(dots \X R) = Cardinality(dots) * (MaxLabel + 1)
  BY <1>5, FS_Product
<1>10. last - at <= Cardinality(dots) * (MaxLabel + 1)
  BY <1>5, <1>8, <1>9, FS_Injection
<1>11. Cardinality(dots) * (MaxLabel + 1) <= (MaxSubdomains + 1) * (MaxLabel + 1)
  <2>1. \A a, b, c \in Nat : a <= b => a * c <= b * c
    OBVIOUS
  <2>2. Cardinality(dots) \in Nat /\ MaxSubdomains + 1 \in Nat /\ MaxLabel + 1 \in Nat
        /\ Cardinality(dots) <= MaxSubdomains + 1
    BY <1>1, <1>5
  <2>. QED
    BY <2>1, <2>2
<1>12. /\ (MaxSubdomains + 1) * (MaxLabel + 1) \in Nat /\ Cardinality(dots) * (MaxLabel + 1) \in Nat
  BY <1>1, <1>5
<1>. QED
  <2>. DEFINE P == (MaxSubdomains + 1) * (MaxLabel + 1)
              Q == Cardinality(dots) * (MaxLabel + 1)
  <2>1. P \in Nat /\ Q \in Nat /\ last - at <= Q /\ Q <= P /\ j - last <= MaxTld
    BY <1>4, <1>10, <1>11, <1>12
  <2>. HIDE DEF P, Q
  <2>2. j - at <= P + MaxTld
    BY <1>1, <1>3, <2>1
  <2>. QED
    BY <2>2 DEF P

LEMMA EmailLength ==
  ASSUME NEW s, NEW i \in Nat, NEW j \in Nat, IsEmail(s, i, j)
  PROVE  j - i + 1 <= MaxLocal + 1 + MaxLabel + MaxSubdomains * (MaxLabel + 1) + 1 + MaxTld
<1>1. PICK at \in (i + 1)..(j - 1) : at - i <= MaxLocal /\ IsDomain(s, at, j)
  BY DEF IsEmail
<1>2. j - at <= (MaxSubdomains + 1) * (MaxLabel + 1) + MaxTld
  BY <1>1, DomainLength
<1>3. {MaxLabel, MaxSubdomains, MaxLocal, MaxTld} \subseteq Nat
  BY RedactorAssumption DEF RedactorAssumption
<1>4. (MaxSubdomains + 1) * (MaxLabel + 1) = MaxSubdomains * (MaxLabel + 1) + (MaxLabel + 1)
      /\ MaxSubdomains * (MaxLabel + 1) \in Nat
  BY <1>3
<1>. DEFINE P == MaxSubdomains * (MaxLabel + 1)
<1>5. j - at <= P + (MaxLabel + 1) + MaxTld /\ P \in Nat
  BY <1>2, <1>4
<1>. HIDE DEF P
<1>6. j - i + 1 <= MaxLocal + 1 + MaxLabel + P + 1 + MaxTld
  BY <1>1, <1>3, <1>5
<1>. QED
  BY <1>6 DEF P

LEMMA CardLength ==
  ASSUME NEW s, NEW i \in Nat, NEW j \in Nat, IsCard(s, i, j)
  PROVE  j - i + 1 <= CardHead + CardMax + CardMax
<1>. DEFINE a == i + CardHead
            digits == Digits(s, a, j)
            others == {k \in a..j : s[k] \in Separators}
<1>1. CardHead \in Nat /\ CardMin \in Nat /\ CardMax \in Nat
  BY RedactorAssumption DEF RedactorAssumption
<1>2. /\ a \in Nat /\ a <= j /\ s[j] = "d"
      /\ \A k \in a..j : s[k] \in {"d"} \cup Separators
      /\ \A k \in a..(j - 1) : ~(s[k] \in Separators /\ s[k + 1] \in Separators)
      /\ Cardinality(digits) \in CardMin..CardMax
  BY <1>1 DEF IsCard, All
<1>3. /\ digits = {k \in a..j : s[k] = "d"}
      /\ a..j = digits \cup others /\ digits \cap others = {}
      /\ digits \in SUBSET (a..j) /\ others \in SUBSET (a..j)
  BY <1>2 DEF Digits, Separators
<1>. HIDE DEF a, digits, others
<1>4. IsFiniteSet(a..j) /\ Cardinality(a..j) = j - a + 1
  <2>1. a \in Int /\ j \in Int /\ ~(a > j)
    BY <1>2
  <2>. QED
    BY <2>1, FS_Interval
<1>5. IsFiniteSet(digits) /\ IsFiniteSet(others)
  BY <1>3, <1>4, FS_Subset
<1>6. Cardinality(others) <= Cardinality(digits)
  <2>. DEFINE f == [k \in others |-> k + 1]
  <2>1. \A k \in others : k + 1 \in digits
    <3>. SUFFICES ASSUME NEW k \in others
                  PROVE  k + 1 \in digits
      OBVIOUS
    <3>1. k \in a..j /\ s[k] \in Separators
      BY DEF others
    <3>2. k # j
      BY <1>2, <3>1 DEF Separators
    <3>3. k \in a..(j - 1) /\ k + 1 \in a..j
      BY <1>2, <3>1, <3>2
    <3>. QED
      BY <1>2, <1>3, <3>1, <3>3
  <2>2. \A k, m \in others : k + 1 = m + 1 => k = m
    BY <1>2, <1>3
  <2>3. f \in Injection(others, digits)
    BY <2>1, <2>2 DEF Injection, IsInjective
  <2>. QED
    BY <1>5, <2>3, FS_Injection
<1>7. Cardinality(a..j) = Cardinality(digits) + Cardinality(others)
  <2>1. Cardinality(digits \cup others)
          = Cardinality(digits) + Cardinality(others) - Cardinality(digits \cap others)
    BY <1>5, FS_Union
  <2>2. Cardinality(digits \cap others) = 0
    BY <1>3, FS_EmptySet
  <2>3. Cardinality(digits) \in Nat /\ Cardinality(others) \in Nat
    BY <1>5, FS_CardinalityType
  <2>4. Cardinality(a..j) = Cardinality(digits \cup others)
    BY <1>3, Zenon
  <2>. QED
    BY <2>1, <2>2, <2>3, <2>4
<1>8. Cardinality(digits) \in Nat /\ Cardinality(others) \in Nat
  BY <1>5, FS_CardinalityType
<1>9. j - a + 1 <= CardMax + CardMax
  BY <1>1, <1>2, <1>4, <1>6, <1>7, <1>8
<1>. QED
  BY <1>1, <1>2, <1>9 DEF a

LEMMA SsnLength ==
  ASSUME NEW s, NEW i \in Nat, NEW j \in Nat, IsSsn(s, i, j)
  PROVE  j - i + 1 <= Ssn[1] + Ssn[2] + Ssn[3] + 2
<1>1. Ssn[1] \in Nat /\ Ssn[2] \in Nat /\ Ssn[3] \in Nat
  BY Lengths
<1>. QED
  BY <1>1 DEF IsSsn

LEMMA HoldIsLongest ==
  /\ Hold \in Nat \ {0}
  /\ MaxLocal + 1 + MaxLabel + MaxSubdomains * (MaxLabel + 1) + 1 + MaxTld <= Hold
  /\ CardHead + CardMax + CardMax <= Hold
  /\ Ssn[1] + Ssn[2] + Ssn[3] + 2 <= Hold
<1>. DEFINE email == MaxLocal + 1 + MaxLabel + MaxSubdomains * (MaxLabel + 1) + 1 + MaxTld
            card == CardHead + CardMax + CardMax
            ssn == Ssn[1] + Ssn[2] + Ssn[3] + 2
<1>1. {MaxLocal, MaxLabel, MaxTld, CardHead, CardMax} \subseteq Nat \ {0}
      /\ MaxSubdomains \in Nat /\ Ssn[1] \in Nat /\ Ssn[2] \in Nat /\ Ssn[3] \in Nat
  BY Lengths
<1>2. email \in Nat
  <2>1. MaxSubdomains * (MaxLabel + 1) \in Nat
    BY <1>1
  <2>. QED
    BY <1>1, <2>1
<1>3. card \in Nat \ {0} /\ ssn \in Nat
  BY <1>1
<1>4. Hold = Max({email, card, ssn})
  BY DEF Hold
<1>. HIDE DEF email, card, ssn
<1>5. email <= email + card + ssn /\ card <= email + card + ssn /\ ssn <= email + card + ssn
      /\ email + card + ssn \in Nat
  BY <1>2, <1>3
<1>6. {email, card, ssn} \in SUBSET Nat /\ {email, card, ssn} # {}
      /\ \A x \in {email, card, ssn} : x <= email + card + ssn
  BY <1>2, <1>3, <1>5
<1>7. Hold \in {email, card, ssn} /\ \A x \in {email, card, ssn} : x <= Hold
  BY <1>4, <1>5, <1>6, MaxNat
<1>. QED
  BY <1>2, <1>3, <1>7 DEF email, card, ssn

(* What ends at j when it starts at i is a stretch of one pattern.          *)
LEMMA EndsAreMatches ==
  ASSUME NEW s \in Texts, NEW i \in 1..Len(s), NEW j \in MatchEnds(s, i)
  PROVE  /\ j \in i..Len(s)
         /\ IsEmail(s, i, j) \/ IsCard(s, i, j) \/ IsSsn(s, i, j)
         /\ j - i + 1 <= Hold
<1>1. /\ j \in i..Len(s)
      /\ IsEmail(s, i, j) \/ IsCard(s, i, j) \/ IsSsn(s, i, j)
  <2>1. j \in EmailEnds(s, i) \/ j \in CardEnds(s, i) \/ j \in SsnEnds(s, i)
    BY DEF MatchEnds
  <2>. QED
    BY <2>1 DEF EmailEnds, CardEnds, SsnEnds
<1>2. Len(s) \in Nat
  BY LenProperties DEF Texts
<1>3. i \in Nat /\ j \in Nat
  BY <1>1, <1>2
<1>. DEFINE email == MaxLocal + 1 + MaxLabel + MaxSubdomains * (MaxLabel + 1) + 1 + MaxTld
            card == CardHead + CardMax + CardMax
            ssn == Ssn[1] + Ssn[2] + Ssn[3] + 2
<1>4. j - i + 1 <= email \/ j - i + 1 <= card \/ j - i + 1 <= ssn
  BY <1>1, <1>3, EmailLength, CardLength, SsnLength
<1>5. email \in Int /\ card \in Int /\ ssn \in Int
  <2>. DEFINE P == MaxSubdomains * (MaxLabel + 1)
  <2>1. P \in Int
    BY Lengths
  <2>. HIDE DEF P
  <2>2. MaxLocal + 1 + MaxLabel + P + 1 + MaxTld \in Int
    BY <2>1, Lengths
  <2>3. card \in Int
    <3>1. CardHead \in Int /\ CardMax \in Int
      BY Lengths
    <3>. QED
      BY <3>1
  <2>4. ssn \in Int
    <3>1. Ssn[1] \in Int /\ Ssn[2] \in Int /\ Ssn[3] \in Int
      BY Lengths
    <3>. QED
      BY <3>1
  <2>. QED
    BY <2>2, <2>3, <2>4 DEF P
<1>6. email <= Hold /\ card <= Hold /\ ssn <= Hold /\ Hold \in Nat
  BY HoldIsLongest
<1>. HIDE DEF email, card, ssn
<1>7. j - i + 1 <= Hold
  BY <1>3, <1>4, <1>5, <1>6
<1>. QED
  BY <1>1, <1>7

-----------------------------------------------------------------------------
(* The scan. *)

(* scan[i] is what the scan of s has found at the first i positions.        *)
Scanning(s, scan, n) ==
  /\ scan[0] = {}
  /\ \A i \in 1..n : scan[i] = scan[i - 1] \cup FoundAt(s, scan[i - 1], i)

ScansAs(s, n, scan) ==
  scan = [i \in 0..n |-> IF i = 0 THEN {} ELSE scan[i - 1] \cup FoundAt(s, scan[i - 1], i)]

LEMMA ScansExist ==
  ASSUME NEW s, NEW n \in Nat
  PROVE  \E scan : ScansAs(s, n, scan)
<1>. DEFINE G == {m \in Nat : \E f : ScansAs(s, m, f)}
<1>1. 0 \in G
  <2>. DEFINE f == [i \in 0..0 |-> {}]
  <2>1. \A i \in 0..0 : i = 0
    OBVIOUS
  <2>2. ScansAs(s, 0, f)
    BY <2>1, Zenon DEF ScansAs
  <2>. QED
    BY <2>2
<1>2. ASSUME NEW m \in G
      PROVE  m + 1 \in G
  <2>1. PICK f : ScansAs(s, m, f)
    OBVIOUS
  <2>. DEFINE g == [i \in 0..(m + 1) |->
                      IF i = 0 THEN {} ELSE f[i - 1] \cup FoundAt(s, f[i - 1], i)]
  <2>2. ASSUME NEW i \in 0..m
        PROVE  g[i] = f[i]
    <3>1. i \in 0..(m + 1)
      OBVIOUS
    <3>2. g[i] = IF i = 0 THEN {} ELSE f[i - 1] \cup FoundAt(s, f[i - 1], i)
      BY <3>1, Zenon
    <3>. HIDE DEF g
    <3>3. f[i] = IF i = 0 THEN {} ELSE f[i - 1] \cup FoundAt(s, f[i - 1], i)
      BY <2>1, Zenon DEF ScansAs
    <3>. QED
      BY <3>2, <3>3
  <2>3. \A i \in 0..(m + 1) : i # 0 => i - 1 \in 0..m
    OBVIOUS
  <2>4. g = [i \in 0..(m + 1) |->
               IF i = 0 THEN {} ELSE g[i - 1] \cup FoundAt(s, g[i - 1], i)]
    BY <2>2, <2>3, Zenon
  <2>. HIDE DEF g
  <2>5. ScansAs(s, m + 1, g)
    BY <2>4 DEF ScansAs
  <2>. QED
    BY <2>5
<1>. HIDE DEF G
<1>3. G \in SUBSET Nat
  BY DEF G
<1>4. G = Nat
  BY <1>1, <1>2, <1>3, NatSetInduction
<1>. QED
  BY <1>4 DEF G

LEMMA MatchesAreScanned ==
  ASSUME NEW s \in Texts
  PROVE  \E scan : Scanning(s, scan, Len(s)) /\ Matches(s) = scan[Len(s)]
<1>1. Len(s) \in Nat
  BY LenProperties DEF Texts
<1>. DEFINE f == CHOOSE scan : ScansAs(s, Len(s), scan)
<1>2. ScansAs(s, Len(s), f)
  BY <1>1, ScansExist
<1>3. Matches(s) = f[Len(s)]
  BY Zenon DEF Matches, ScansAs
<1>. HIDE DEF f
<1>4. Scanning(s, f, Len(s))
  <2>1. f[0] = {}
    <3>1. 0 \in 0..Len(s)
      BY <1>1
    <3>. QED
      BY <1>2, <3>1, Zenon DEF ScansAs
  <2>2. ASSUME NEW i \in 1..Len(s)
        PROVE  f[i] = f[i - 1] \cup FoundAt(s, f[i - 1], i)
    <3>1. i \in 0..Len(s) /\ i # 0
      BY <1>1
    <3>. QED
      BY <1>2, <3>1, Zenon DEF ScansAs
  <2>. QED
    BY <2>1, <2>2 DEF Scanning
<1>. QED
  BY <1>3, <1>4

(* Each thing found is a longest match, and none before it reaches it.      *)
LEMMA FoundIs ==
  ASSUME NEW s \in Texts, NEW found, NEW i \in 1..Len(s), NEW m \in FoundAt(s, found, i)
  PROVE  m.start = i /\ m.end \in MatchEnds(s, i) /\ m = [start |-> i, end |-> m.end]
<1>1. MatchEnds(s, i) # {} /\ m = [start |-> i, end |-> Max(MatchEnds(s, i))]
  BY DEF FoundAt
<1>2. MatchEnds(s, i) \in SUBSET Nat /\ \A j \in MatchEnds(s, i) : j <= Len(s)
  BY EndsAreMatches
<1>3. Len(s) \in Nat
  BY LenProperties DEF Texts
<1>4. Max(MatchEnds(s, i)) \in MatchEnds(s, i)
  BY <1>1, <1>2, <1>3, MaxNat
<1>. QED
  BY <1>1, <1>4

LEMMA ScanHolds ==
  ASSUME NEW s \in Texts, NEW scan, Scanning(s, scan, Len(s)), NEW n \in 0..Len(s)
  PROVE  \A m \in scan[n] : /\ m.start \in 1..n /\ m.end \in MatchEnds(s, m.start)
                            /\ m = [start |-> m.start, end |-> m.end]
<1>. DEFINE G == {k \in Nat : k <= Len(s) =>
                    \A m \in scan[k] : /\ m.start \in 1..k /\ m.end \in MatchEnds(s, m.start)
                                       /\ m = [start |-> m.start, end |-> m.end]}
<1>1. 0 \in G
  BY DEF Scanning
<1>2. ASSUME NEW k \in G
      PROVE  k + 1 \in G
  <2>. SUFFICES ASSUME k + 1 <= Len(s), NEW m \in scan[k + 1]
                PROVE  /\ m.start \in 1..(k + 1) /\ m.end \in MatchEnds(s, m.start)
                       /\ m = [start |-> m.start, end |-> m.end]
    OBVIOUS
  <2>1. Len(s) \in Nat /\ k \in Nat
    BY LenProperties DEF Texts
  <2>2. k + 1 \in 1..Len(s) /\ (k + 1) - 1 = k /\ k <= Len(s)
    BY <2>1
  <2>3. m \in scan[k] \/ m \in FoundAt(s, scan[k], k + 1)
    BY <2>2 DEF Scanning
  <2>4. CASE m \in scan[k]
    BY <2>1, <2>2, <2>4
  <2>5. CASE m \in FoundAt(s, scan[k], k + 1)
    BY <2>1, <2>2, <2>5, FoundIs
  <2>. QED
    BY <2>3, <2>4, <2>5
<1>. HIDE DEF G
<1>3. G \in SUBSET Nat
  BY DEF G
<1>4. G = Nat
  BY <1>1, <1>2, <1>3, NatSetInduction
<1>5. n \in Nat /\ n <= Len(s)
  BY LenProperties DEF Texts
<1>. QED
  BY <1>4, <1>5 DEF G

LEMMA MatchesFit ==
  ASSUME NEW s \in Texts, NEW m \in Matches(s)
  PROVE  /\ m.start \in 1..Len(s) /\ m.end \in MatchEnds(s, m.start)
         /\ m.end \in m.start..Len(s) /\ m.end - m.start + 1 <= Hold
         /\ m = [start |-> m.start, end |-> m.end]
<1>1. PICK scan : Scanning(s, scan, Len(s)) /\ Matches(s) = scan[Len(s)]
  BY MatchesAreScanned
<1>2. Len(s) \in 0..Len(s)
  BY LenProperties DEF Texts
<1>3. /\ m.start \in 1..Len(s) /\ m.end \in MatchEnds(s, m.start)
      /\ m = [start |-> m.start, end |-> m.end]
  BY <1>1, <1>2, ScanHolds
<1>. QED
  BY <1>3, EndsAreMatches

-----------------------------------------------------------------------------
(* What is held. *)

LEMMA RunStartIs ==
  ASSUME NEW s \in Texts
  PROVE  /\ RunStart(s) \in 0..Len(s)
         /\ RunStart(s) # 0 => ~CanContinueAMatch(s, RunStart(s))
         /\ \A i \in 1..Len(s) : i > RunStart(s) => CanContinueAMatch(s, i)
<1>. DEFINE S == {0} \cup {i \in DOMAIN s : ~CanContinueAMatch(s, i)}
<1>1. Len(s) \in Nat /\ DOMAIN s = 1..Len(s)
  BY LenProperties DEF Texts
<1>2. S \in SUBSET Nat /\ S # {} /\ \A i \in S : i <= Len(s)
  BY <1>1
<1>3. RunStart(s) \in S /\ \A i \in S : i <= RunStart(s)
  <2>1. Max(S) \in S /\ \A i \in S : i <= Max(S)
    <3>. HIDE DEF S
    <3>. QED
      BY <1>1, <1>2, MaxNat
  <2>. QED
    BY <2>1, Zenon DEF RunStart
<1>4. RunStart(s) \in 0..Len(s)
  BY <1>1, <1>2, <1>3
<1>5. ASSUME NEW i \in 1..Len(s), i > RunStart(s)
      PROVE  CanContinueAMatch(s, i)
  BY <1>1, <1>3, <1>4, <1>5
<1>. QED
  BY <1>3, <1>4, <1>5

LEMMA UnsafeStartIs ==
  ASSUME NEW s \in Texts
  PROVE  /\ UnsafeStart(s) \in 0..Len(s) /\ Len(s) - UnsafeStart(s) <= Hold
         /\ Len(s) - RunStart(s) <= Hold => UnsafeStart(s) = RunStart(s)
<1>1. Len(s) \in Nat /\ Hold \in Nat /\ RunStart(s) \in 0..Len(s)
  BY LenProperties, HoldIsLongest, RunStartIs DEF Texts
<1>. DEFINE floor == Len(s) - Hold
<1>2. floor \in Int /\ floor <= Len(s) /\ RunStart(s) \in Int
  BY <1>1
<1>3. UnsafeStart(s) \in {RunStart(s), floor} /\ UnsafeStart(s) >= RunStart(s)
      /\ UnsafeStart(s) >= floor
  <2>. HIDE DEF floor
  <2>1. /\ Max({RunStart(s), floor}) \in {RunStart(s), floor}
        /\ Max({RunStart(s), floor}) >= RunStart(s) /\ Max({RunStart(s), floor}) >= floor
    BY <1>2, MaxOfTwo
  <2>. QED
    BY <2>1, Zenon DEF UnsafeStart, floor
<1>. QED
  BY <1>1, <1>2, <1>3

(* A match that straddles the cut is held, and no match is longer than the  *)
(* hold.                                                                    *)
LEMMA SafePrefixIs ==
  ASSUME NEW s \in Texts
  PROVE  SafePrefix(s) \in 0..Len(s) /\ Len(s) - SafePrefix(s) < 2 * Hold
<1>1. Len(s) \in Nat /\ Hold \in Nat \ {0}
      /\ UnsafeStart(s) \in 0..Len(s) /\ Len(s) - UnsafeStart(s) <= Hold
  BY LenProperties, HoldIsLongest, UnsafeStartIs DEF Texts
<1>. DEFINE straddling == {m \in Matches(s) : m.start <= UnsafeStart(s) /\ UnsafeStart(s) < m.end}
<1>2. CASE straddling = {}
  <2>1. SafePrefix(s) = UnsafeStart(s)
    BY <1>2, Zenon DEF SafePrefix
  <2>. QED
    BY <1>1, <2>1
<1>3. CASE straddling # {}
  <2>. DEFINE m == CHOOSE x \in straddling : TRUE
  <2>1. SafePrefix(s) = m.start - 1
    BY <1>3, Zenon DEF SafePrefix
  <2>2. m \in straddling
    BY <1>3
  <2>. HIDE DEF m
  <2>3. /\ m.start \in 1..Len(s) /\ m.end \in m.start..Len(s) /\ m.end - m.start + 1 <= Hold
        /\ UnsafeStart(s) < m.end
    BY <2>2, MatchesFit
  <2>. HIDE DEF straddling
  <2>. QED
    BY <1>1, <2>1, <2>3
<1>. QED
  BY <1>2, <1>3

BufferInv ==
  /\ text \in Texts /\ buffer \in Texts
  /\ BufferBounded

LEMMA Deltas ==
  ASSUME Next
  PROVE  \E delta \in Texts : delta # <<>> /\ Feed(delta)
<1>1. PICK alphabet \in DOMAIN MaxText : \E n \in 1..MaxDelta[alphabet] :
        \E delta \in [1..n -> alphabet] : Feed(delta)
  BY DEF Next
<1>2. alphabet \subseteq Characters /\ MaxDelta[alphabet] \in Nat
  BY RedactorAssumption DEF RedactorAssumption, Characters
<1>. PICK n \in 1..MaxDelta[alphabet] : \E delta \in [1..n -> alphabet] : Feed(delta)
  BY <1>1
<1>. PICK delta \in [1..n -> alphabet] : Feed(delta)
  OBVIOUS
<1>3. n \in Nat /\ n # 0
  BY <1>2
<1>4. delta \in [1..n -> Characters]
  BY <1>2
<1>5. delta \in Seq(Characters) /\ Len(delta) = n
  BY <1>3, <1>4
<1>6. delta # <<>>
  BY <1>3, <1>5
<1>. QED
  BY <1>5, <1>6 DEF Texts

LEMMA Cut ==
  ASSUME NEW s \in Texts, NEW n \in 0..Len(s)
  PROVE  /\ SubSeq(s, n + 1, Len(s)) \in Texts
         /\ Len(SubSeq(s, n + 1, Len(s))) = Len(s) - n
         /\ \A i \in 1..(Len(s) - n) : SubSeq(s, n + 1, Len(s))[i] = s[n + i]
         /\ SubSeq(s, 1, n) \in Texts
         /\ Len(SubSeq(s, 1, n)) = n
         /\ \A i \in 1..n : SubSeq(s, 1, n)[i] = s[i]
<1>1. Len(s) \in Nat /\ \A i \in 1..Len(s) : s[i] \in Characters
  BY LenProperties DEF Texts
<1>2. n \in Int /\ n + 1 \in Int /\ Len(s) \in Int /\ 1 \in Int
      /\ (\A i \in (n + 1)..Len(s) : s[i] \in Characters)
      /\ (\A i \in 1..n : s[i] \in Characters)
  BY <1>1
<1>3. /\ SubSeq(s, n + 1, Len(s)) \in Texts
      /\ Len(SubSeq(s, n + 1, Len(s))) = IF n + 1 <= Len(s) THEN Len(s) - (n + 1) + 1 ELSE 0
      /\ \A i \in 1..(Len(s) - (n + 1) + 1) :
            SubSeq(s, n + 1, Len(s))[i] = s[(n + 1) + i - 1]
  BY <1>2, SubSeqProperties DEF Texts
<1>4. /\ SubSeq(s, 1, n) \in Texts
      /\ Len(SubSeq(s, 1, n)) = IF 1 <= n THEN n - 1 + 1 ELSE 0
      /\ \A i \in 1..(n - 1 + 1) : SubSeq(s, 1, n)[i] = s[1 + i - 1]
  BY <1>2, SubSeqProperties DEF Texts
<1>5. Len(s) - (n + 1) + 1 = Len(s) - n /\ n - 1 + 1 = n
      /\ \A i \in Int : (n + 1) + i - 1 = n + i /\ 1 + i - 1 = i
  BY <1>2
<1>6. Len(SubSeq(s, n + 1, Len(s))) = Len(s) - n /\ Len(SubSeq(s, 1, n)) = n
  BY <1>1, <1>3, <1>4
<1>7. \A i \in 1..(Len(s) - n) : SubSeq(s, n + 1, Len(s))[i] = s[n + i]
  BY <1>3, <1>5
<1>8. \A i \in 1..n : SubSeq(s, 1, n)[i] = s[i]
  BY <1>4, <1>5
<1>. QED
  BY <1>3, <1>4, <1>6, <1>7, <1>8

LEMMA BufferInvStep == BufferInv /\ [Next]_vars => BufferInv'
<1>. SUFFICES ASSUME BufferInv, [Next]_vars
              PROVE  BufferInv'
  OBVIOUS
<1>1. CASE Next
  <2>1. PICK delta \in Texts : Feed(delta)
    BY <1>1, Deltas
  <2>. DEFINE fed == buffer \o delta
  <2>2. fed \in Texts /\ text \o delta \in Texts
    BY ConcatProperties DEF BufferInv, Texts
  <2>3. text' = text \o delta /\ buffer' = SubSeq(fed, SafePrefix(fed) + 1, Len(fed))
    BY <2>1 DEF Feed
  <2>. HIDE DEF fed
  <2>4. SafePrefix(fed) \in 0..Len(fed) /\ Len(fed) - SafePrefix(fed) < 2 * Hold
    BY <2>2, SafePrefixIs
  <2>5. buffer' \in Texts /\ Len(buffer') = Len(fed) - SafePrefix(fed)
    BY <2>2, <2>3, <2>4, Cut
  <2>. QED
    BY <2>2, <2>3, <2>4, <2>5 DEF BufferInv, BufferBounded
<1>2. CASE UNCHANGED vars
  BY <1>2 DEF vars, BufferInv, BufferBounded
<1>. QED
  BY <1>1, <1>2

(* Whatever comes, in deltas of any length, less than twice the hold stays  *)
(* in the buffer after a feed.                                              *)
THEOREM BufferStaysSmall == Spec => []BufferBounded
<1>1. Init => BufferInv
  <2>1. <<>> \in Texts /\ Len(<<>>) = 0
    BY EmptySeq DEF Texts
  <2>. QED
    BY <2>1, HoldIsLongest DEF Init, BufferInv, BufferBounded
<1>2. BufferInv => BufferBounded
  BY DEF BufferInv
<1>. QED
  BY <1>1, <1>2, BufferInvStep, PTL DEF Spec

-----------------------------------------------------------------------------
(* A stretch of text matches or not wherever it stands: the stretch from i *)
(* to j of t is the one d further on in s.                                 *)
Agree(s, t, d, i, j) == \A k \in i..j : s[d + k] = t[k]

LEMMA SameSize ==
  ASSUME NEW d \in Int, NEW S \in SUBSET Int, NEW T \in SUBSET Int, IsFiniteSet(S),
         \A k \in S : k - d \in T, \A k \in T : d + k \in S
  PROVE  Cardinality(T) = Cardinality(S)
<1>. DEFINE f == [k \in S |-> k - d]
<1>1. f \in [S -> T]
  OBVIOUS
<1>2. ASSUME NEW a \in S, NEW b \in S, f[a] = f[b]
      PROVE  a = b
  <2>1. a - d = b - d
    BY <1>2
  <2>. HIDE DEF f
  <2>. QED
    BY <2>1
<1>3. ASSUME NEW k \in T
      PROVE  \E a \in S : f[a] = k
  <2>1. d + k \in S /\ (d + k) - d = k
    OBVIOUS
  <2>. QED
    BY <2>1
<1>. HIDE DEF f
<1>4. f \in Bijection(S, T)
  BY <1>1, <1>2, <1>3 DEF Bijection, Injection, IsInjective, Surjection
<1>5. ExistsBijection(S, T)
  BY <1>4 DEF ExistsBijection
<1>. QED
  BY <1>5, FS_Bijection

LEMMA AllMoves ==
  ASSUME NEW s, NEW t, NEW d \in Int, NEW i \in Int, NEW j \in Int, NEW class,
         Agree(s, t, d, i, j), All(s, d + i, d + j, class)
  PROVE  All(t, i, j, class)
<1>. SUFFICES ASSUME NEW k \in i..j
              PROVE  t[k] \in class
  BY DEF All
<1>1. d + k \in (d + i)..(d + j) /\ s[d + k] = t[k]
  BY DEF Agree
<1>. QED
  BY <1>1 DEF All

LEMMA DomainMoves ==
  ASSUME NEW s, NEW t, NEW d \in Int, NEW at \in Nat, NEW j \in Nat,
         d + at \in Nat, d + j \in Nat,
         Agree(s, t, d, at, j), IsDomain(s, d + at, d + j)
  PROVE  IsDomain(t, at, j)
<1>. DEFINE S == {k \in (d + at)..(d + j) : s[k] = "."}
            T == {k \in at..j : t[k] = "."}
<1>1. /\ All(s, d + at + 1, d + j, Alnum \cup {".", "-"})
      /\ Cardinality(S) \in 1..(MaxSubdomains + 1)
      /\ \A k \in {d + at} \cup S : s[k + 1] # "."
      /\ \A k \in {d + at} \cup (S \ {Max(S)}) : \E dot \in S : dot - k - 1 \in 1..MaxLabel
      /\ (d + j) - Max(S) \in MinTld..MaxTld
      /\ All(s, Max(S) + 1, d + j, {"l"})
  BY DEF IsDomain
<1>2. /\ S \in SUBSET Nat /\ T \in SUBSET Nat /\ S \in SUBSET Int /\ T \in SUBSET Int
      /\ (\A k \in S : k <= d + j) /\ (\A k \in T : at <= k /\ k <= j)
  OBVIOUS
<1>3. /\ \A k \in S : k - d \in T
      /\ \A k \in T : d + k \in S
  <2>1. ASSUME NEW k \in S
        PROVE  k - d \in T
    <3>1. k - d \in at..j /\ d + (k - d) = k
      OBVIOUS
    <3>. QED
      BY <3>1 DEF Agree
  <2>2. ASSUME NEW k \in T
        PROVE  d + k \in S
    <3>1. k \in at..j /\ d + k \in (d + at)..(d + j)
      OBVIOUS
    <3>. QED
      BY <3>1 DEF Agree
  <2>. QED
    BY <2>1, <2>2
<1>4. IsFiniteSet(S)
  <2>1. IsFiniteSet((d + at)..(d + j))
    BY FS_Interval
  <2>. QED
    BY <2>1, FS_Subset
<1>5. (d + at) + 1 = d + (at + 1)
  OBVIOUS
<1>. HIDE DEF S, T
<1>6. Cardinality(T) = Cardinality(S)
  BY <1>2, <1>3, <1>4, SameSize
<1>7. S # {} /\ T # {}
  <2>1. S # {}
    BY <1>1, FS_EmptySet
  <2>. QED
    BY <1>3, <2>1
<1>8. Max(S) \in S /\ (\A k \in S : k <= Max(S)) /\ Max(T) \in T /\ (\A k \in T : k <= Max(T))
  BY <1>2, <1>7, MaxNat
<1>9. Max(S) = d + Max(T)
  <2>1. Max(S) - d <= Max(T) /\ d + Max(T) <= Max(S)
    BY <1>3, <1>8
  <2>2. Max(S) \in Int /\ Max(T) \in Int
    BY <1>2, <1>8
  <2>. QED
    BY <2>1, <2>2
<1>10. Max(T) \in Nat /\ at <= Max(T) /\ j - Max(T) \in MinTld..MaxTld /\ Max(T) < j
  <2>1. Max(T) \in Nat /\ at <= Max(T)
    BY <1>2, <1>8
  <2>2. j - Max(T) = (d + j) - Max(S)
    BY <1>9, <2>1
  <2>3. MinTld \in Nat \ {0} /\ MaxTld \in Nat
    BY Lengths
  <2>. QED
    BY <1>1, <2>1, <2>2, <2>3
<1>11. ASSUME NEW k \in {at} \cup T
       PROVE  t[k + 1] # "."
  <2>1. k \in Nat /\ at <= k /\ k <= Max(T)
    BY <1>2, <1>8, <1>10
  <2>2. d + k \in {d + at} \cup S
    BY <1>3
  <2>3. k + 1 \in at..j /\ d + (k + 1) = (d + k) + 1
    BY <1>10, <2>1
  <2>. QED
    BY <1>1, <2>2, <2>3 DEF Agree
<1>12. ASSUME NEW k \in {at} \cup (T \ {Max(T)})
       PROVE  \E dot \in T : dot - k - 1 \in 1..MaxLabel
  <2>1. k \in Nat
    BY <1>2
  <2>2. d + k \in {d + at} \cup (S \ {Max(S)})
    <3>1. CASE k \in T \ {Max(T)}
      <4>1. d + k \in S /\ d + k # Max(S)
        BY <1>3, <1>9, <1>10, <2>1, <3>1
      <4>. QED
        BY <4>1
    <3>. QED
      BY <3>1
  <2>3. PICK dot \in S : dot - (d + k) - 1 \in 1..MaxLabel
    BY <1>1, <2>2
  <2>4. dot - d \in T /\ (dot - d) - k - 1 = dot - (d + k) - 1
    BY <1>2, <1>3, <2>1
  <2>. QED
    BY <2>3, <2>4
<1>13. All(t, at + 1, j, Alnum \cup {".", "-"})
  <2>1. Agree(s, t, d, at + 1, j)
    BY DEF Agree
  <2>. QED
    BY <1>1, <1>5, <2>1, AllMoves
<1>14. All(t, Max(T) + 1, j, {"l"})
  <2>1. Agree(s, t, d, Max(T) + 1, j)
    BY <1>10 DEF Agree
  <2>2. Max(S) + 1 = d + (Max(T) + 1)
    BY <1>9, <1>10
  <2>. QED
    BY <1>1, <1>10, <2>1, <2>2, AllMoves
<1>. QED
  BY <1>1, <1>6, <1>10, <1>11, <1>12, <1>13, <1>14 DEF IsDomain, T

LEMMA EmailMoves ==
  ASSUME NEW s, NEW t, NEW d \in Int, NEW i \in Nat, NEW j \in Nat,
         i <= j, d + i \in Nat, d + j \in Nat,
         Agree(s, t, d, i, j), IsEmail(s, d + i, d + j)
  PROVE  IsEmail(t, i, j)
<1>1. PICK a \in (d + i + 1)..(d + j - 1) :
        /\ s[a] = "@" /\ a - (d + i) <= MaxLocal
        /\ All(s, d + i, a - 1, Alnum \cup {".", "-"})
        /\ IsDomain(s, a, d + j)
  BY DEF IsEmail
<1>. DEFINE at == a - d
<1>2. /\ at \in (i + 1)..(j - 1) /\ at \in Nat /\ at - 1 \in Nat
      /\ d + at = a /\ at - i = a - (d + i) /\ a - 1 = d + (at - 1) /\ a \in Nat
  BY <1>1
<1>. HIDE DEF at
<1>3. t[at] = "@" /\ t[j] = "l"
  BY <1>1, <1>2 DEF Agree, IsEmail
<1>4. All(t, i, at - 1, Alnum \cup {".", "-"})
  <2>1. Agree(s, t, d, i, at - 1)
    BY <1>2 DEF Agree
  <2>. QED
    BY <1>1, <1>2, <2>1, AllMoves
<1>5. IsDomain(t, at, j)
  <2>1. Agree(s, t, d, at, j)
    BY <1>2 DEF Agree
  <2>. QED
    BY <1>1, <1>2, <2>1, DomainMoves
<1>. QED
  BY <1>1, <1>2, <1>3, <1>4, <1>5 DEF IsEmail

LEMMA CardParts ==
  ASSUME NEW s, NEW i, NEW j,
         i + CardHead <= j,
         All(s, i, i + CardHead - 1, {"d"}),
         All(s, i + CardHead, j, {"d"} \cup Separators),
         s[j] = "d",
         \A k \in (i + CardHead)..(j - 1) : ~(s[k] \in Separators /\ s[k + 1] \in Separators),
         Cardinality(Digits(s, i + CardHead, j)) \in CardMin..CardMax
  PROVE  IsCard(s, i, j)
BY Zenon DEF IsCard

LEMMA CardMoves ==
  ASSUME NEW s, NEW t, NEW d \in Int, NEW i \in Nat, NEW j \in Nat,
         i <= j, d + i \in Nat, d + j \in Nat,
         Agree(s, t, d, i, j), IsCard(s, d + i, d + j)
  PROVE  IsCard(t, i, j)
<1>. DEFINE a == i + CardHead
            S == {k \in (d + a)..(d + j) : s[k] = "d"}
            T == {k \in a..j : t[k] = "d"}
<1>1. a \in Nat /\ i < a /\ (d + i) + CardHead = d + a
  BY Lengths
<1>2. d + a <= d + j /\ s[d + j] = "d"
  BY <1>1 DEF IsCard
<1>3. ASSUME NEW k \in (d + i)..(d + a - 1)
      PROVE  s[k] \in {"d"}
  <2>1. All(s, d + i, (d + i) + CardHead - 1, {"d"})
    BY Zenon DEF IsCard
  <2>2. k \in (d + i)..((d + i) + CardHead - 1)
    <3>1. CardHead \in Nat
      BY Lengths
    <3>. QED
      BY <3>1
  <2>. QED
    BY <2>1, <2>2, Zenon DEF All
<1>4. \A k \in (d + a)..(d + j) : s[k] \in {"d"} \cup Separators
  BY <1>1 DEF IsCard, All
<1>5. \A k \in (d + a)..(d + j - 1) : ~(s[k] \in Separators /\ s[k + 1] \in Separators)
  BY <1>1 DEF IsCard
<1>6. Cardinality(S) \in CardMin..CardMax
  BY <1>1 DEF IsCard, Digits
<1>. HIDE DEF a
<1>7. a <= j /\ \A k \in i..j : d + k \in (d + i)..(d + j) /\ s[d + k] = t[k]
  BY <1>1, <1>2 DEF Agree
<1>8. t[j] = "d"
  BY <1>2, <1>7
<1>9. \A k \in i..(a - 1) : t[k] \in {"d"}
  BY <1>1, <1>3, <1>7
<1>10. \A k \in a..j : t[k] \in {"d"} \cup Separators
  BY <1>1, <1>4, <1>7
<1>11. ASSUME NEW k \in a..(j - 1)
       PROVE  ~(t[k] \in Separators /\ t[k + 1] \in Separators)
  <2>1. d + k \in (d + a)..(d + j - 1) /\ k \in i..j /\ k + 1 \in i..j /\ (d + k) + 1 = d + (k + 1)
    BY <1>1
  <2>. QED
    BY <1>5, <1>7, <2>1
<1>12. Cardinality(T) = Cardinality(S)
  <2>1. S \in SUBSET Int /\ T \in SUBSET Int
    BY <1>1
  <2>2. IsFiniteSet(S)
    <3>1. IsFiniteSet((d + a)..(d + j)) /\ S \in SUBSET ((d + a)..(d + j))
      BY <1>1, FS_Interval
    <3>. QED
      BY <3>1, FS_Subset
  <2>3. ASSUME NEW k \in S
        PROVE  k - d \in T
    <3>1. k - d \in a..j /\ k - d \in i..j /\ d + (k - d) = k /\ s[k] = "d"
      BY <1>1
    <3>. QED
      BY <1>7, <3>1
  <2>4. ASSUME NEW k \in T
        PROVE  d + k \in S
    <3>1. k \in i..j /\ d + k \in (d + a)..(d + j) /\ t[k] = "d"
      BY <1>1
    <3>. QED
      BY <1>7, <3>1
  <2>. HIDE DEF S, T
  <2>. QED
    BY <2>1, <2>2, <2>3, <2>4, SameSize
<1>13. Cardinality(T) \in CardMin..CardMax
  <2>. HIDE DEF S, T
  <2>. QED
    BY <1>6, <1>12
<1>15. Cardinality(Digits(t, a, j)) \in CardMin..CardMax
  BY <1>13 DEF Digits
<1>16. a <= j /\ \A k \in a..(j - 1) : ~(t[k] \in Separators /\ t[k + 1] \in Separators)
  BY <1>7, <1>11
<1>. QED
  <2>1. All(t, i, i + CardHead - 1, {"d"})
    <3>1. i + CardHead - 1 = a - 1
      BY Lengths DEF a
    <3>2. All(t, i, a - 1, {"d"})
      BY <1>9, Zenon DEF All
    <3>. QED
      BY <3>1, <3>2, Zenon
  <2>4. All(t, i + CardHead, j, {"d"} \cup Separators)
    BY <1>10, Zenon DEF All, a
  <2>2. /\ \A k \in (i + CardHead)..(j - 1) : ~(t[k] \in Separators /\ t[k + 1] \in Separators)
        /\ Cardinality(Digits(t, i + CardHead, j)) \in CardMin..CardMax
    BY <1>15, <1>16, Zenon DEF a
  <2>3. i + CardHead <= j
    BY <1>16 DEF a
  <2>. QED
    BY <1>8, <2>1, <2>2, <2>3, <2>4, CardParts, Zenon

LEMMA SsnMoves ==
  ASSUME NEW s, NEW t, NEW d \in Int, NEW i \in Nat, NEW j \in Nat,
         i <= j, d + i \in Nat, d + j \in Nat,
         Agree(s, t, d, i, j), IsSsn(s, d + i, d + j)
  PROVE  IsSsn(t, i, j)
<1>. DEFINE first == i + Ssn[1]
            second == first + Ssn[2] + 1
<1>1. /\ first \in Nat /\ second \in Nat /\ Ssn[3] \in Nat
      /\ (d + i) + Ssn[1] = d + first /\ ((d + i) + Ssn[1]) + Ssn[2] + 1 = d + second
  BY Lengths
<1>2. /\ d + j = (d + second) + Ssn[3]
      /\ \A k \in (d + i)..(d + j) :
           s[k] \in (IF k \in {d + first, d + second} THEN Separators ELSE {"d"})
  BY <1>1, Zenon DEF IsSsn
<1>. HIDE DEF first, second
<1>3. j = second + Ssn[3]
  BY <1>1, <1>2
<1>4. ASSUME NEW k \in i..j
      PROVE  t[k] \in (IF k \in {first, second} THEN Separators ELSE {"d"})
  <2>1. d + k \in (d + i)..(d + j) /\ s[d + k] = t[k]
    BY DEF Agree
  <2>2. (d + k = d + first <=> k = first) /\ (d + k = d + second <=> k = second)
    BY <1>1
  <2>. QED
    BY <1>2, <2>1, <2>2
<1>. QED
  BY <1>3, <1>4, Zenon DEF IsSsn, first, second

-----------------------------------------------------------------------------
(* A text falls apart at its start and at a character that ends a run.     *)
Break(s, n) == n = 0 \/ (n \in 1..Len(s) /\ ~CanContinueAMatch(s, n))

Matched(s, i, j) == IsEmail(s, i, j) \/ IsCard(s, i, j) \/ IsSsn(s, i, j)

LEMMA BreakUnseen ==
  ASSUME NEW s \in Texts, NEW n \in 0..Len(s), Break(s, n)
  PROVE  /\ ~At(s, n, Alnum \cup {".", "@", "-"}) /\ ~At(s, n, {"d"})
         /\ n # 0 => n \in 1..Len(s) /\ ~CanContinueAMatch(s, n) /\ s[n] \in {" ", "!"}
<1>1. DOMAIN s = 1..Len(s) /\ \A i \in 1..Len(s) : s[i] \in Characters
  BY LenProperties DEF Texts
<1>2. CASE n = 0
  BY <1>1, <1>2 DEF At
<1>3. CASE n # 0
  <2>1. n \in 1..Len(s) /\ ~CanContinueAMatch(s, n)
    BY <1>3 DEF Break
  <2>2. s[n] \in Characters /\ s[n] \notin Alnum \cup {".", "-", "@"}
    BY <1>1, <2>1 DEF CanContinueAMatch
  <2>3. s[n] \in {" ", "!"}
    BY <2>2 DEF Characters, Alnum
  <2>. QED
    BY <2>1, <2>3 DEF At, Alnum
<1>. QED
  BY <1>2, <1>3

(* A space between two digits does not end a run. *)
LEMMA DigitsAround ==
  ASSUME NEW s \in Texts, NEW n \in 1..Len(s), s[n] = " ",
         n - 1 \in 1..Len(s), s[n - 1] = "d", s[n + 1] = "d"
  PROVE  CanContinueAMatch(s, n)
<1>1. DOMAIN s = 1..Len(s)
  BY LenProperties DEF Texts
<1>. QED
  BY <1>1 DEF CanContinueAMatch, At

LEMMA EmailLetters ==
  ASSUME NEW s, NEW i \in Nat, NEW j \in Nat, IsEmail(s, i, j), NEW n \in i..j
  PROVE  s[n] \in Alnum \cup {".", "-", "@"}
<1>1. PICK at \in (i + 1)..(j - 1) :
        /\ s[at] = "@"
        /\ All(s, i, at - 1, Alnum \cup {".", "-"})
        /\ IsDomain(s, at, j)
  BY DEF IsEmail
<1>2. All(s, at + 1, j, Alnum \cup {".", "-"})
  BY <1>1 DEF IsDomain
<1>3. n \in i..(at - 1) \/ n = at \/ n \in (at + 1)..j
  OBVIOUS
<1>. QED
  BY <1>1, <1>2, <1>3 DEF All

(* No match holds the character at which a run ends. *)
LEMMA NoMatchAcross ==
  ASSUME NEW s \in Texts, NEW n \in 1..Len(s), Break(s, n), NEW i \in 1..n, NEW j \in n..Len(s)
  PROVE  ~Matched(s, i, j)
<1>1. /\ Len(s) \in Nat /\ n \in Nat /\ n # 0 /\ i \in Nat /\ j \in Nat /\ n \in i..j
      /\ 0 < i /\ j <= Len(s)
  BY LenProperties DEF Texts
<1>2. ~CanContinueAMatch(s, n) /\ s[n] \in {" ", "!"}
  <2>1. n \in 0..Len(s)
    BY <1>1
  <2>. QED
    BY <1>1, <2>1, BreakUnseen
<1>3. ~IsEmail(s, i, j)
  BY <1>1, <1>2, EmailLetters DEF Alnum
<1>4. ~IsCard(s, i, j)
  <2>. SUFFICES ASSUME IsCard(s, i, j)
                PROVE  FALSE
    OBVIOUS
  <2>. DEFINE a == i + CardHead
  <2>0. CardHead \in Nat \ {0}
    BY Lengths
  <2>1. CardHead \in Nat \ {0} /\ a \in Nat /\ i < a
    BY <1>1, <2>0
  <2>2. /\ \A k \in i..(a - 1) : s[k] = "d"
        /\ \A k \in a..j : s[k] \in {"d"} \cup Separators
    BY <2>1 DEF IsCard, All
  <2>3. /\ s[j] = "d"
        /\ \A k \in a..(j - 1) : ~(s[k] \in Separators /\ s[k + 1] \in Separators)
    BY DEF IsCard
  <2>. HIDE DEF a
  <2>4. n \in a..(j - 1) /\ n + 1 \in a..j
    <3>1. n \notin i..(a - 1)
      BY <1>2, <2>2
    <3>2. n # j
      BY <1>2, <2>3
    <3>. QED
      BY <1>1, <2>1, <3>1, <3>2
  <2>5. s[n] = " "
    <3>1. n \in a..j
      BY <1>1, <2>1, <2>4
    <3>2. s[n] \in {"d", " ", "-"}
      BY <2>2, <3>1 DEF Separators
    <3>. QED
      BY <1>2, <3>2
  <2>6. s[n + 1] = "d"
    <3>1. s[n] \in Separators
      BY <2>5 DEF Separators
    <3>. QED
      BY <2>2, <2>3, <2>4, <3>1
  <2>7. s[n - 1] = "d"
    <3>1. CASE n = a
      <4>1. n - 1 \in i..(a - 1)
        BY <1>1, <2>1, <3>1
      <4>. QED
        BY <2>2, <4>1
    <3>2. CASE n # a
      <4>1. n - 1 \in a..(j - 1) /\ n - 1 \in a..j /\ (n - 1) + 1 = n
        BY <1>1, <2>1, <2>4, <3>2
      <4>2. s[(n - 1) + 1] \in Separators
        BY <2>5, <4>1 DEF Separators
      <4>. QED
        BY <2>2, <2>3, <4>1, <4>2
    <3>. QED
      BY <3>1, <3>2
  <2>8. n - 1 \in 1..Len(s)
    BY <1>1, <2>1, <2>4
  <2>. QED
    BY <1>2, <2>5, <2>6, <2>7, <2>8, DigitsAround
<1>5. ~IsSsn(s, i, j)
  <2>. SUFFICES ASSUME IsSsn(s, i, j)
                PROVE  FALSE
    OBVIOUS
  <2>. DEFINE first == i + Ssn[1]
              second == first + Ssn[2] + 1
  <2>1. /\ Ssn[1] \in Nat \ {0} /\ Ssn[2] \in Nat \ {0} /\ Ssn[3] \in Nat \ {0}
        /\ first \in Nat /\ second \in Nat
        /\ i < first /\ first + 1 < second /\ second < second + Ssn[3]
    <3>1. Ssn[1] \in Nat \ {0} /\ Ssn[2] \in Nat \ {0} /\ Ssn[3] \in Nat \ {0}
      BY Lengths
    <3>2. first \in Nat /\ i < first
      BY <1>1, <3>1
    <3>. HIDE DEF first
    <3>. DEFINE b == Ssn[2]
                c == Ssn[3]
    <3>3. b \in Nat \ {0} /\ c \in Nat \ {0} /\ second = first + b + 1
      BY <3>1
    <3>. HIDE DEF second, b, c
    <3>4. second \in Nat /\ first + 1 < second /\ second < second + c
      BY <3>2, <3>3
    <3>. QED
      BY <3>1, <3>2, <3>4 DEF c
  <2>2. /\ j = second + Ssn[3]
        /\ \A k \in i..j : s[k] \in (IF k \in {first, second} THEN Separators ELSE {"d"})
    BY Zenon DEF IsSsn
  <2>. HIDE DEF first, second
  <2>3. n \in {first, second} /\ s[n] = " "
    BY <1>1, <1>2, <2>2 DEF Separators
  <2>4. /\ n - 1 \in i..j /\ n - 1 \notin {first, second}
        /\ n + 1 \in i..j /\ n + 1 \notin {first, second}
    <3>1. j = second + Ssn[3] /\ (n = first \/ n = second)
      BY <2>2, <2>3
    <3>. QED
      BY <1>1, <2>1, <3>1
  <2>5. s[n - 1] = "d" /\ s[n + 1] = "d"
    BY <2>2, <2>4
  <2>6. n - 1 \in 1..Len(s)
    BY <1>1, <2>4
  <2>. QED
    BY <1>2, <2>3, <2>5, <2>6, DigitsAround
<1>. QED
  BY <1>3, <1>4, <1>5 DEF Matched

LEMMA MatchedAlike ==
  ASSUME NEW s, NEW t, NEW d \in Int, NEW i \in Nat, NEW j \in Nat,
         i <= j, d + i \in Nat, d + j \in Nat, Agree(s, t, d, i, j)
  PROVE  /\ IsEmail(s, d + i, d + j) <=> IsEmail(t, i, j)
         /\ IsCard(s, d + i, d + j) <=> IsCard(t, i, j)
         /\ IsSsn(s, d + i, d + j) <=> IsSsn(t, i, j)
<1>. DEFINE e == -d
            a == d + i
            b == d + j
<1>1. /\ e \in Int /\ a \in Nat /\ b \in Nat /\ a <= b
      /\ e + a = i /\ e + b = j /\ e + a \in Nat /\ e + b \in Nat
  OBVIOUS
<1>2. Agree(t, s, e, a, b)
  <2>. SUFFICES ASSUME NEW k \in a..b
                PROVE  t[e + k] = s[k]
    BY DEF Agree
  <2>1. e + k \in i..j /\ d + (e + k) = k
    OBVIOUS
  <2>. QED
    BY <2>1 DEF Agree
<1>3. /\ IsEmail(s, d + i, d + j) => IsEmail(t, i, j)
      /\ IsCard(s, d + i, d + j) => IsCard(t, i, j)
      /\ IsSsn(s, d + i, d + j) => IsSsn(t, i, j)
  BY EmailMoves, CardMoves, SsnMoves
<1>. HIDE DEF e
<1>4. /\ IsEmail(t, e + a, e + b) => IsEmail(s, a, b)
      /\ IsCard(t, e + a, e + b) => IsCard(s, a, b)
      /\ IsSsn(t, e + a, e + b) => IsSsn(s, a, b)
  <2>. HIDE DEF a, b
  <2>. QED
    BY <1>1, <1>2, EmailMoves, CardMoves, SsnMoves
<1>. QED
  BY <1>1, <1>3, <1>4

(* Before a break the text is matched as if it ended there. *)
LEMMA EndsBefore ==
  ASSUME NEW s \in Texts, NEW n \in 0..Len(s), Break(s, n), NEW i \in 1..n,
         NEW p, p = SubSeq(s, 1, n)
  PROVE  MatchEnds(p, i) = MatchEnds(s, i)
<1>1. /\ Len(s) \in Nat /\ n \in Nat /\ n <= Len(s) /\ i \in Nat /\ i # 0 /\ n \in 1..Len(s)
      /\ DOMAIN s = 1..Len(s)
  BY LenProperties DEF Texts
<1>2. p \in Texts /\ Len(p) = n /\ \A k \in 1..n : p[k] = s[k]
  BY Cut
<1>3. DOMAIN p = 1..n
  BY <1>2, LenProperties DEF Texts
<1>4. ASSUME NEW k \in 0..n, NEW class
      PROVE  At(p, k, class) <=> At(s, k, class)
  BY <1>1, <1>2, <1>3 DEF At
<1>5. ASSUME NEW j \in i..n
      PROVE  /\ IsEmail(s, i, j) <=> IsEmail(p, i, j)
             /\ IsCard(s, i, j) <=> IsCard(p, i, j)
             /\ IsSsn(s, i, j) <=> IsSsn(p, i, j)
  <2>1. 0 \in Int /\ j \in Nat /\ i <= j /\ 0 + i = i /\ 0 + j = j /\ 0 + i \in Nat /\ 0 + j \in Nat
    BY <1>1
  <2>2. Agree(s, p, 0, i, j)
    BY <1>1, <1>2 DEF Agree
  <2>3. /\ IsEmail(s, 0 + i, 0 + j) <=> IsEmail(p, i, j)
        /\ IsCard(s, 0 + i, 0 + j) <=> IsCard(p, i, j)
        /\ IsSsn(s, 0 + i, 0 + j) <=> IsSsn(p, i, j)
    BY <2>1, <2>2, <1>1, MatchedAlike, ZenonT(60)
  <2>. QED
    BY <2>1, <2>3, Zenon
<1>6. \A j \in i..Len(s) : Matched(s, i, j) => j \in i..(n - 1)
  BY <1>1, NoMatchAcross
<1>7. \A j \in i..n : Matched(p, i, j) => j \in i..(n - 1)
  BY <1>1, <1>5, <1>6 DEF Matched
<1>8. i - 1 \in 0..n /\ \A j \in i..(n - 1) : j + 1 \in 0..n /\ j \in i..n /\ j \in i..Len(s)
  BY <1>1
<1>9. EmailEnds(p, i) = EmailEnds(s, i)
  <2>1. ASSUME NEW j \in i..(n - 1)
        PROVE  j \in EmailEnds(p, i) <=> j \in EmailEnds(s, i)
    BY <1>2, <1>4, <1>5, <1>8 DEF EmailEnds
  <2>2. EmailEnds(p, i) \subseteq i..(n - 1) /\ EmailEnds(s, i) \subseteq i..(n - 1)
    BY <1>2, <1>6, <1>7 DEF EmailEnds, Matched
  <2>. QED
    BY <2>1, <2>2
<1>10. CardEnds(p, i) = CardEnds(s, i)
  <2>1. ASSUME NEW j \in i..(n - 1)
        PROVE  j \in CardEnds(p, i) <=> j \in CardEnds(s, i)
    BY <1>2, <1>4, <1>5, <1>8 DEF CardEnds
  <2>2. CardEnds(p, i) \subseteq i..(n - 1) /\ CardEnds(s, i) \subseteq i..(n - 1)
    BY <1>2, <1>6, <1>7 DEF CardEnds, Matched
  <2>. QED
    BY <2>1, <2>2
<1>11. SsnEnds(p, i) = SsnEnds(s, i)
  <2>1. ASSUME NEW j \in i..(n - 1)
        PROVE  j \in SsnEnds(p, i) <=> j \in SsnEnds(s, i)
    BY <1>2, <1>4, <1>5, <1>8 DEF SsnEnds
  <2>2. SsnEnds(p, i) \subseteq i..(n - 1) /\ SsnEnds(s, i) \subseteq i..(n - 1)
    BY <1>2, <1>6, <1>7 DEF SsnEnds, Matched
  <2>. QED
    BY <2>1, <2>2
<1>. QED
  BY <1>9, <1>10, <1>11, Zenon DEF MatchEnds

(* After a break it is matched as if it began there. *)
LEMMA EndsAfter ==
  ASSUME NEW s \in Texts, NEW n \in 0..Len(s), Break(s, n),
         NEW q, q = SubSeq(s, n + 1, Len(s)), NEW i \in 1..(Len(s) - n)
  PROVE  /\ \A j \in MatchEnds(q, i) : n + j \in MatchEnds(s, n + i)
         /\ \A j \in MatchEnds(s, n + i) : j - n \in MatchEnds(q, i)
<1>. DEFINE m == Len(s) - n
<1>1. /\ Len(s) \in Nat /\ n \in Nat /\ n <= Len(s) /\ m \in Nat /\ Len(s) = n + m
      /\ i \in Nat /\ i # 0 /\ i <= m /\ DOMAIN s = 1..Len(s)
  BY LenProperties DEF Texts
<1>2. q \in Texts /\ Len(q) = m /\ \A k \in 1..m : q[k] = s[n + k]
  BY Cut
<1>3. DOMAIN q = 1..m
  BY <1>2, LenProperties DEF Texts
<1>. HIDE DEF m
<1>4. ASSUME NEW k \in 1..(m + 1), NEW class
      PROVE  At(q, k, class) <=> At(s, n + k, class)
  <2>1. k \in 1..m <=> n + k \in 1..Len(s)
    BY <1>1
  <2>. QED
    BY <1>1, <1>2, <1>3, <2>1 DEF At
<1>5. ASSUME NEW class, ~At(s, n, class)
      PROVE  At(q, i - 1, class) <=> At(s, n + i - 1, class)
  <2>1. CASE i = 1
    <3>1. n + i - 1 = n /\ i - 1 = 0 /\ 0 \notin 1..m
      BY <1>1, <2>1
    <3>2. ~At(q, 0, class)
      BY <1>3, <3>1 DEF At
    <3>. QED
      BY <1>5, <3>1, <3>2
  <2>2. CASE i # 1
    <3>1. i - 1 \in 1..(m + 1) /\ n + (i - 1) = n + i - 1
      BY <1>1, <2>2
    <3>. QED
      BY <1>4, <3>1
  <2>. QED
    BY <2>1, <2>2
<1>6. ~At(s, n, Alnum \cup {".", "@", "-"}) /\ ~At(s, n, {"d"})
  BY BreakUnseen
<1>7. ASSUME NEW j \in i..m
      PROVE  /\ IsEmail(s, n + i, n + j) <=> IsEmail(q, i, j)
             /\ IsCard(s, n + i, n + j) <=> IsCard(q, i, j)
             /\ IsSsn(s, n + i, n + j) <=> IsSsn(q, i, j)
  <2>1. n \in Int /\ j \in Nat /\ i <= j /\ n + i \in Nat /\ n + j \in Nat
    BY <1>1
  <2>2. Agree(s, q, n, i, j)
    BY <1>1, <1>2 DEF Agree
  <2>3. i \in Nat
    BY <1>1
  <2>. QED
    BY <2>1, <2>2, <2>3, MatchedAlike, ZenonT(60)
<1>8. ASSUME NEW j \in i..m
      PROVE  j + 1 \in 1..(m + 1) /\ n + (j + 1) = (n + j) + 1 /\ n + j \in (n + i)..Len(s)
  BY <1>1
<1>9. ASSUME NEW j \in i..m
      PROVE  /\ j \in EmailEnds(q, i) <=> n + j \in EmailEnds(s, n + i)
             /\ j \in CardEnds(q, i) <=> n + j \in CardEnds(s, n + i)
             /\ j \in SsnEnds(q, i) <=> n + j \in SsnEnds(s, n + i)
  <2>1. \A class : At(q, j + 1, class) <=> At(s, (n + j) + 1, class)
    BY <1>4, <1>8
  <2>2. n + j \in (n + i)..Len(s) /\ j \in i..Len(q)
    BY <1>2, <1>8
  <2>3. j \in EmailEnds(q, i) <=> n + j \in EmailEnds(s, n + i)
    <3>1. /\ At(q, i - 1, Alnum \cup {".", "@", "-"}) <=> At(s, n + i - 1, Alnum \cup {".", "@", "-"})
          /\ At(q, j + 1, Alnum \cup {"-"}) <=> At(s, (n + j) + 1, Alnum \cup {"-"})
          /\ IsEmail(s, n + i, n + j) <=> IsEmail(q, i, j)
      BY <1>5, <1>6, <1>7, <2>1
    <3>2. n + i - 1 = (n + i) - 1
      BY <1>1
    <3>. QED
      BY <2>2, <3>1, <3>2, Zenon DEF EmailEnds
  <2>4. j \in CardEnds(q, i) <=> n + j \in CardEnds(s, n + i)
    BY <1>5, <1>6, <1>7, <2>1, <2>2 DEF CardEnds
  <2>5. j \in SsnEnds(q, i) <=> n + j \in SsnEnds(s, n + i)
    BY <1>5, <1>6, <1>7, <2>1, <2>2 DEF SsnEnds
  <2>. QED
    BY <2>3, <2>4, <2>5
<1>10. /\ EmailEnds(q, i) \subseteq i..m /\ CardEnds(q, i) \subseteq i..m /\ SsnEnds(q, i) \subseteq i..m
  BY <1>2 DEF EmailEnds, CardEnds, SsnEnds
<1>11. \A j \in EmailEnds(s, n + i) \cup CardEnds(s, n + i) \cup SsnEnds(s, n + i) :
         j - n \in i..m /\ n + (j - n) = j
  <2>1. /\ EmailEnds(s, n + i) \subseteq (n + i)..Len(s) /\ CardEnds(s, n + i) \subseteq (n + i)..Len(s)
        /\ SsnEnds(s, n + i) \subseteq (n + i)..Len(s)
    BY DEF EmailEnds, CardEnds, SsnEnds
  <2>2. \A j \in (n + i)..Len(s) : j - n \in i..m /\ n + (j - n) = j
    BY <1>1
  <2>. QED
    BY <2>1, <2>2
<1>12. /\ EmailEnds(q, i) = {} <=> EmailEnds(s, n + i) = {}
       /\ CardEnds(q, i) = {} <=> CardEnds(s, n + i) = {}
  BY <1>9, <1>10, <1>11
<1>. QED
  BY <1>9, <1>10, <1>11, <1>12 DEF MatchEnds

-----------------------------------------------------------------------------
(* The scan of a text that falls apart. *)

Before(s, n) == SubSeq(s, 1, n)
After(s, n) == SubSeq(s, n + 1, Len(s))
Moved(M, n) == {[start |-> n + m.start, end |-> n + m.end] : m \in M}

LEMMA FoundAfter ==
  ASSUME NEW s \in Texts, NEW n \in 0..Len(s), Break(s, n),
         NEW i \in 1..(Len(s) - n),
         NEW G, \A m \in G : m.end \in Nat /\ m.end <= n, NEW H, \A m \in H : m.end \in Nat
  PROVE  FoundAt(s, G \cup Moved(H, n), n + i) = Moved(FoundAt(After(s, n), H, i), n)
<1>. DEFINE q == After(s, n)
            S == MatchEnds(s, n + i)
            Q == MatchEnds(q, i)
            F == G \cup Moved(H, n)
<1>1. /\ Len(s) \in Nat /\ n \in Nat /\ i \in Nat /\ i # 0 /\ i <= Len(s) - n
      /\ n + i \in 1..Len(s)
  BY LenProperties DEF Texts
<1>2. q \in Texts /\ Len(q) = Len(s) - n /\ Len(q) \in Nat /\ i \in 1..Len(q)
  <2>1. q \in Texts /\ Len(q) = Len(s) - n
    BY Cut DEF After
  <2>. QED
    BY <1>1, <2>1
<1>3. (\A j \in Q : n + j \in S) /\ (\A j \in S : j - n \in Q)
  BY EndsAfter DEF After
<1>4. /\ Q \in SUBSET Nat /\ (\A j \in Q : j <= Len(q))
      /\ S \in SUBSET Nat /\ (\A j \in S : j <= Len(s))
  <2>1. (\A j \in Q : j \in i..Len(q)) /\ (\A j \in S : j \in (n + i)..Len(s))
    BY <1>1, <1>2, EndsAreMatches
  <2>. HIDE DEF Q, S
  <2>. QED
    BY <1>1, <1>2, <2>1
<1>5. (\E m \in F : m.end >= n + i) <=> (\E m \in H : m.end >= i)
  <2>1. \A m \in G : ~(m.end >= n + i)
    BY <1>1
  <2>2. \A m \in H : n + m.end >= n + i <=> m.end >= i
    BY <1>1
  <2>3. (\E m \in Moved(H, n) : m.end >= n + i) <=> (\E m \in H : n + m.end >= n + i)
    <3>. DEFINE r(m) == [start |-> n + m.start, end |-> n + m.end]
    <3>1. \A m : r(m).end = n + m.end
      OBVIOUS
    <3>2. Moved(H, n) = {r(m) : m \in H}
      BY DEF Moved
    <3>. HIDE DEF r
    <3>. QED
      BY <3>1, <3>2
  <2>. QED
    BY <2>1, <2>2, <2>3
<1>6. Q = {} <=> S = {}
  BY <1>3
<1>7. CASE (\E m \in H : m.end >= i) \/ Q = {}
  <2>1. FoundAt(q, H, i) = {} /\ FoundAt(s, F, n + i) = {}
    BY <1>5, <1>6, <1>7 DEF FoundAt
  <2>2. Moved({}, n) = {}
    BY DEF Moved
  <2>. QED
    BY <2>1, <2>2
<1>8. CASE ~((\E m \in H : m.end >= i) \/ Q = {})
  <2>1. /\ FoundAt(q, H, i) = {[start |-> i, end |-> Max(Q)]}
        /\ FoundAt(s, F, n + i) = {[start |-> n + i, end |-> Max(S)]}
    BY <1>5, <1>6, <1>8, Zenon DEF FoundAt
  <2>2. Max(S) = n + Max(Q)
    <3>. HIDE DEF S, Q
    <3>1. /\ Max(S) \in S /\ (\A j \in S : j <= Max(S))
          /\ Max(Q) \in Q /\ (\A j \in Q : j <= Max(Q))
      BY <1>1, <1>2, <1>4, <1>6, <1>8, MaxNat
    <3>2. Max(S) - n <= Max(Q) /\ n + Max(Q) <= Max(S) /\ Max(S) \in Nat /\ Max(Q) \in Nat
      BY <1>3, <1>4, <3>1
    <3>. QED
      BY <1>1, <3>2
  <2>. HIDE DEF S, Q
  <2>. DEFINE r == [start |-> i, end |-> Max(Q)]
  <2>3. Moved({r}, n) = {[start |-> n + r.start, end |-> n + r.end]}
    BY DEF Moved
  <2>4. r.start = i /\ r.end = Max(Q)
    OBVIOUS
  <2>. HIDE DEF r
  <2>5. Moved({r}, n) = {[start |-> n + i, end |-> Max(S)]}
    BY <2>2, <2>3, <2>4
  <2>. QED
    BY <2>1, <2>5 DEF r
<1>. QED
  BY <1>7, <1>8

LEMMA ScanBefore ==
  ASSUME NEW s \in Texts, NEW n \in 0..Len(s), Break(s, n),
         NEW f, Scanning(s, f, Len(s)), NEW g, Scanning(Before(s, n), g, n)
  PROVE  f[n] = g[n]
<1>. DEFINE p == Before(s, n)
            N == {k \in Nat : k <= n => f[k] = g[k]}
<1>1. Len(s) \in Nat /\ n \in Nat /\ n <= Len(s)
  BY LenProperties DEF Texts
<1>2. 0 \in N
  BY DEF Scanning
<1>3. ASSUME NEW k \in N
      PROVE  k + 1 \in N
  <2>. SUFFICES ASSUME k + 1 <= n
                PROVE  f[k + 1] = g[k + 1]
    OBVIOUS
  <2>1. k + 1 \in 1..n /\ k + 1 \in 1..Len(s) /\ (k + 1) - 1 = k /\ k <= n
    BY <1>1
  <2>2. f[k] = g[k]
    BY <2>1
  <2>3. MatchEnds(p, k + 1) = MatchEnds(s, k + 1)
    BY <2>1, EndsBefore DEF Before
  <2>4. FoundAt(p, g[k], k + 1) = FoundAt(s, f[k], k + 1)
    BY <2>2, <2>3, Zenon DEF FoundAt
  <2>5. f[k + 1] = f[k] \cup FoundAt(s, f[k], k + 1)
    BY <2>1 DEF Scanning
  <2>6. g[k + 1] = g[k] \cup FoundAt(p, g[k], k + 1)
    BY <2>1 DEF Scanning
  <2>. QED
    BY <2>2, <2>4, <2>5, <2>6
<1>. HIDE DEF N
<1>4. N \in SUBSET Nat
  BY DEF N
<1>5. N = Nat
  BY <1>2, <1>3, <1>4, NatSetInduction
<1>. QED
  <2>1. n \in N /\ n <= n
    BY <1>1, <1>5
  <2>. QED
    BY <2>1 DEF N

LEMMA ScanAfter ==
  ASSUME NEW s \in Texts, NEW n \in 0..Len(s), Break(s, n),
         NEW f, Scanning(s, f, Len(s)), \A m \in f[n] : m.end \in Nat /\ m.end <= n,
         NEW h, Scanning(After(s, n), h, Len(After(s, n)))
  PROVE  f[Len(s)] = f[n] \cup Moved(h[Len(After(s, n))], n)
<1>. DEFINE q == After(s, n)
            N == {k \in Nat : k <= Len(q) => f[n + k] = f[n] \cup Moved(h[k], n)}
<1>1. /\ Len(s) \in Nat /\ n \in Nat /\ n <= Len(s)
      /\ q \in Texts /\ Len(q) = Len(s) - n /\ Len(q) \in Nat /\ Len(s) = n + Len(q)
  <2>1. Len(s) \in Nat /\ q \in Texts /\ Len(q) = Len(s) - n
    BY LenProperties, Cut DEF Texts, After
  <2>. QED
    BY <2>1
<1>2. 0 \in N
  <2>1. h[0] = {} /\ n + 0 = n
    BY <1>1 DEF Scanning
  <2>2. Moved({}, n) = {}
    BY DEF Moved
  <2>. QED
    BY <2>1, <2>2
<1>3. ASSUME NEW k \in N
      PROVE  k + 1 \in N
  <2>. SUFFICES ASSUME k + 1 <= Len(q)
                PROVE  f[n + (k + 1)] = f[n] \cup Moved(h[k + 1], n)
    OBVIOUS
  <2>1. /\ k \in Nat /\ k + 1 \in 1..Len(q) /\ k + 1 \in 1..(Len(s) - n)
        /\ n + (k + 1) \in 1..Len(s) /\ k \in 0..Len(q)
        /\ (k + 1) - 1 = k /\ (n + (k + 1)) - 1 = n + k /\ k <= Len(q)
    BY <1>1
  <2>2. f[n + k] = f[n] \cup Moved(h[k], n)
    BY <2>1
  <2>3. \A m \in h[k] : m.end \in Nat
    <3>1. \A m \in h[k] : m.start \in 1..k /\ m.end \in MatchEnds(q, m.start)
      BY <1>1, <2>1, ScanHolds
    <3>2. \A m \in h[k] : m.start \in 1..Len(q) /\ m.start \in Nat
      BY <1>1, <2>1, <3>1
    <3>3. \A m \in h[k] : m.end \in m.start..Len(q)
      BY <1>1, <3>1, <3>2, EndsAreMatches
    <3>. HIDE DEF q
    <3>. QED
      BY <1>1, <3>2, <3>3
  <2>4. FoundAt(s, f[n] \cup Moved(h[k], n), n + (k + 1)) = Moved(FoundAt(q, h[k], k + 1), n)
    <3>. DEFINE G == f[n]
                H == h[k]
                i == k + 1
    <3>1. i \in 1..(Len(s) - n) /\ (\A m \in G : m.end \in Nat /\ m.end <= n) /\ (\A m \in H : m.end \in Nat)
      BY <2>1, <2>3
    <3>. HIDE DEF G, H, i
    <3>2. FoundAt(s, G \cup Moved(H, n), n + i) = Moved(FoundAt(After(s, n), H, i), n)
      BY <3>1, FoundAfter
    <3>. QED
      BY <3>2 DEF G, H, i
  <2>5. f[n + (k + 1)] = f[n + k] \cup FoundAt(s, f[n + k], n + (k + 1))
    BY <2>1 DEF Scanning
  <2>6. h[k + 1] = h[k] \cup FoundAt(q, h[k], k + 1)
    BY <2>1 DEF Scanning
  <2>7. \A A, B : Moved(A \cup B, n) = Moved(A, n) \cup Moved(B, n)
    BY DEF Moved
  <2>. QED
    BY <2>2, <2>4, <2>5, <2>6, <2>7
<1>. HIDE DEF N
<1>4. N \in SUBSET Nat
  BY DEF N
<1>5. N = Nat
  BY <1>2, <1>3, <1>4, NatSetInduction
<1>. QED
  <2>1. Len(q) \in N /\ Len(q) <= Len(q)
    BY <1>1, <1>5
  <2>2. f[n + Len(q)] = f[n] \cup Moved(h[Len(q)], n)
    BY <2>1 DEF N
  <2>. QED
    BY <1>1, <2>2

(* The scan finds in a text what it finds in the two parts. *)
LEMMA MatchesSplit ==
  ASSUME NEW s \in Texts, NEW n \in 0..Len(s), Break(s, n)
  PROVE  Matches(s) = Matches(Before(s, n)) \cup Moved(Matches(After(s, n)), n)
<1>. DEFINE p == Before(s, n)
            q == After(s, n)
<1>1. p \in Texts /\ q \in Texts /\ Len(p) = n
  BY Cut DEF Before, After
<1>2. PICK f : Scanning(s, f, Len(s)) /\ Matches(s) = f[Len(s)]
  BY MatchesAreScanned
<1>3. PICK g : Scanning(p, g, n) /\ Matches(p) = g[n]
  BY <1>1, MatchesAreScanned
<1>4. PICK h : Scanning(q, h, Len(q)) /\ Matches(q) = h[Len(q)]
  BY <1>1, MatchesAreScanned
<1>5. f[n] = g[n]
  BY <1>2, <1>3, ScanBefore
<1>6. \A m \in f[n] : m.end \in Nat /\ m.end <= n
  <2>1. \A m \in Matches(p) : m.start \in 1..n /\ m.end \in m.start..n
    BY <1>1, MatchesFit
  <2>. QED
    BY <1>3, <1>5, <2>1
<1>7. f[Len(s)] = f[n] \cup Moved(h[Len(q)], n)
  BY <1>2, <1>4, <1>6, ScanAfter
<1>. QED
  BY <1>2, <1>3, <1>4, <1>5, <1>7

-----------------------------------------------------------------------------
(* The rendering of a text that falls apart. *)

Outs == Characters \cup {REDACTED}

Piece(s, found, i) ==
  IF \E m \in found : m.start = i THEN <<REDACTED>>
  ELSE IF \E m \in found : m.start < i /\ i <= m.end THEN <<>> ELSE <<s[i]>>

MatchesTo(s, n) == {m \in Matches(s) : m.end <= n}
Pieces(s, n) == [i \in 1..n |-> Piece(s, MatchesTo(s, n), i)]

LEMMA RenderedIs ==
  ASSUME NEW s, NEW n
  PROVE  Rendered(s, n) = FlattenSeq(Pieces(s, n))
BY Zenon DEF Rendered, Pieces, Piece, MatchesTo

LEMMA PiecesType ==
  ASSUME NEW s \in Texts, NEW n \in 0..Len(s)
  PROVE  /\ Pieces(s, n) \in Seq(Seq(Outs))
         /\ Len(Pieces(s, n)) = n
         /\ \A i \in 1..n : Pieces(s, n)[i] = Piece(s, MatchesTo(s, n), i)
<1>1. Len(s) \in Nat /\ n \in Nat /\ \A i \in 1..n : s[i] \in Characters
  BY LenProperties DEF Texts
<1>2. \A i \in 1..n : Piece(s, MatchesTo(s, n), i) \in Seq(Outs)
  <2>1. \A c \in Outs : <<c>> \in Seq(Outs)
    OBVIOUS
  <2>2. <<>> \in Seq(Outs)
    BY EmptySeq
  <2>3. REDACTED \in Outs /\ Characters \subseteq Outs
    BY DEF Outs
  <2>. QED
    BY <1>1, <2>1, <2>2, <2>3 DEF Piece
<1>. DEFINE E == Seq(Outs)
<1>. HIDE DEF E
<1>3. \A i \in 1..n : Piece(s, MatchesTo(s, n), i) \in E
  BY <1>2 DEF E
<1>4. /\ Pieces(s, n) \in Seq(E)
      /\ Len(Pieces(s, n)) = n
      /\ \A i \in 1..n : Pieces(s, n)[i] = Piece(s, MatchesTo(s, n), i)
  BY <1>1, <1>3 DEF Pieces
<1>. QED
  BY <1>4 DEF E

LEMMA RenderedType ==
  ASSUME NEW s \in Texts, NEW n \in 0..Len(s)
  PROVE  Rendered(s, n) \in Seq(Outs)
BY PiecesType, RenderedIs, FlattenType

LEMMA MatchesToSplit ==
  ASSUME NEW s \in Texts, NEW n \in 0..Len(s), Break(s, n), NEW m \in 0..(Len(s) - n)
  PROVE  MatchesTo(s, n + m) = MatchesTo(Before(s, n), n) \cup Moved(MatchesTo(After(s, n), m), n)
<1>. DEFINE P == Matches(Before(s, n))
            Q == Matches(After(s, n))
            r(x) == [start |-> n + x.start, end |-> n + x.end]
<1>1. Matches(s) = P \cup Moved(Q, n)
  BY MatchesSplit
<1>2. /\ Moved(Q, n) = {r(x) : x \in Q}
      /\ Moved(MatchesTo(After(s, n), m), n) = {r(x) : x \in MatchesTo(After(s, n), m)}
  BY DEF Moved
<1>3. \A x : r(x).end = n + x.end
  OBVIOUS
<1>. HIDE DEF r
<1>4. Len(s) \in Nat /\ n \in Nat /\ m \in Nat
  BY LenProperties DEF Texts
<1>5. \A x \in P : x.end \in Nat /\ x.end <= n
  <2>1. Before(s, n) \in Texts /\ Len(Before(s, n)) = n
    BY Cut DEF Before
  <2>2. \A x \in P : x.start \in 1..n /\ x.end \in x.start..n
    BY <2>1, MatchesFit
  <2>. QED
    BY <2>2
<1>6. \A x \in Q : x.end \in Nat
  <2>1. After(s, n) \in Texts
    BY Cut DEF After
  <2>2. \A x \in Q : x.start \in 1..Len(After(s, n)) /\ x.end \in x.start..Len(After(s, n))
    BY <2>1, MatchesFit
  <2>. QED
    BY <2>2
<1>. HIDE DEF P, Q
<1>7. \A x \in P : x.end <= n + m
  BY <1>4, <1>5
<1>8. \A x \in Q : n + x.end <= n + m <=> x.end <= m
  BY <1>4, <1>6
<1>9. MatchesTo(Before(s, n), n) = P
  BY <1>5 DEF MatchesTo, P
<1>10. MatchesTo(After(s, n), m) = {x \in Q : x.end <= m}
  BY DEF MatchesTo, Q
<1>11. MatchesTo(s, n + m) = P \cup {y \in Moved(Q, n) : y.end <= n + m}
  BY <1>1, <1>7 DEF MatchesTo
<1>12. {y \in Moved(Q, n) : y.end <= n + m} = {r(x) : x \in {z \in Q : z.end <= m}}
  BY <1>2, <1>3, <1>8
<1>. QED
  BY <1>2, <1>9, <1>10, <1>11, <1>12

LEMMA PiecesBefore ==
  ASSUME NEW s \in Texts, NEW n \in 0..Len(s), Break(s, n), NEW m \in 0..(Len(s) - n), NEW i \in 1..n
  PROVE  Piece(s, MatchesTo(s, n + m), i) = Piece(Before(s, n), MatchesTo(Before(s, n), n), i)
<1>. DEFINE B == MatchesTo(Before(s, n), n)
            C == MatchesTo(After(s, n), m)
            r(x) == [start |-> n + x.start, end |-> n + x.end]
<1>1. MatchesTo(s, n + m) = B \cup Moved(C, n)
  BY MatchesToSplit
<1>2. Moved(C, n) = {r(x) : x \in C}
  BY DEF Moved
<1>3. \A x : r(x).start = n + x.start
  OBVIOUS
<1>4. n \in Nat /\ i \in Nat /\ i <= n
  BY LenProperties DEF Texts
<1>5. \A x \in C : x.start \in Nat \ {0}
  <2>1. After(s, n) \in Texts
    BY Cut DEF After
  <2>2. \A x \in C : x.start \in 1..Len(After(s, n))
    BY <2>1, MatchesFit DEF MatchesTo
  <2>. QED
    BY <2>2
<1>. HIDE DEF r, B, C
<1>6. \A x \in C : n + x.start # i /\ ~(n + x.start < i)
  BY <1>4, <1>5
<1>7. \A y \in Moved(C, n) : y.start # i /\ ~(y.start < i)
  BY <1>2, <1>3, <1>6
<1>8. s[i] = Before(s, n)[i]
  BY Cut DEF Before
<1>. QED
  BY <1>1, <1>7, <1>8 DEF Piece, B

LEMMA PiecesAfter ==
  ASSUME NEW s \in Texts, NEW n \in 0..Len(s), Break(s, n), NEW m \in 0..(Len(s) - n), NEW i \in 1..m
  PROVE  Piece(s, MatchesTo(s, n + m), n + i) = Piece(After(s, n), MatchesTo(After(s, n), m), i)
<1>. DEFINE B == MatchesTo(Before(s, n), n)
            C == MatchesTo(After(s, n), m)
            r(x) == [start |-> n + x.start, end |-> n + x.end]
<1>1. MatchesTo(s, n + m) = B \cup Moved(C, n)
  BY MatchesToSplit
<1>2. Moved(C, n) = {r(x) : x \in C}
  BY DEF Moved
<1>3. \A x : r(x).start = n + x.start /\ r(x).end = n + x.end
  OBVIOUS
<1>4. n \in Nat /\ m \in Nat /\ i \in Nat /\ i # 0 /\ i \in 1..(Len(s) - n)
  BY LenProperties DEF Texts
<1>5. \A x \in C : x.start \in Nat /\ x.end \in Nat
  <2>1. After(s, n) \in Texts
    BY Cut DEF After
  <2>2. \A x \in C : x.start \in 1..Len(After(s, n)) /\ x.end \in x.start..Len(After(s, n))
    BY <2>1, MatchesFit DEF MatchesTo
  <2>. QED
    BY <2>2
<1>6. \A x \in B : x.start \in Nat /\ x.start <= n /\ x.end \in Nat /\ x.end <= n
  <2>1. Before(s, n) \in Texts /\ Len(Before(s, n)) = n
    BY Cut DEF Before
  <2>2. \A x \in B : x.start \in 1..n /\ x.end \in x.start..n
    BY <2>1, MatchesFit DEF MatchesTo
  <2>. QED
    BY <2>2, <1>4
<1>. HIDE DEF r, B, C
<1>7. \A x \in B : x.start # n + i /\ ~(n + i <= x.end)
  BY <1>4, <1>6
<1>8. \A x \in C : /\ n + x.start = n + i <=> x.start = i
                   /\ n + x.start < n + i <=> x.start < i
                   /\ n + i <= n + x.end <=> i <= x.end
  BY <1>4, <1>5
<1>9. \A x \in C : /\ r(x).start = n + i <=> x.start = i
                   /\ r(x).start < n + i <=> x.start < i
                   /\ n + i <= r(x).end <=> i <= x.end
  BY <1>3, <1>8
<1>10. s[n + i] = After(s, n)[i]
  BY <1>4, Cut DEF After
<1>11. (\E y \in MatchesTo(s, n + m) : y.start = n + i) <=> (\E x \in C : x.start = i)
  BY <1>1, <1>2, <1>7, <1>9
<1>12. (\E y \in MatchesTo(s, n + m) : y.start < n + i /\ n + i <= y.end)
         <=> (\E x \in C : x.start < i /\ i <= x.end)
  BY <1>1, <1>2, <1>7, <1>9
<1>. QED
  BY <1>10, <1>11, <1>12, Zenon DEF Piece, C

(* A text is rendered in two parts at a break. *)
LEMMA RenderSplit ==
  ASSUME NEW s \in Texts, NEW n \in 0..Len(s), Break(s, n), NEW m \in 0..(Len(s) - n)
  PROVE  Rendered(s, n + m) = Rendered(Before(s, n), n) \o Rendered(After(s, n), m)
<1>. DEFINE t == Pieces(s, n + m)
            u == Pieces(Before(s, n), n)
            v == Pieces(After(s, n), m)
            E == Seq(Outs)
<1>1. Len(s) \in Nat /\ n \in Nat /\ m \in Nat /\ n + m \in 0..Len(s)
  BY LenProperties DEF Texts
<1>2. /\ Before(s, n) \in Texts /\ Len(Before(s, n)) = n
      /\ After(s, n) \in Texts /\ Len(After(s, n)) = Len(s) - n
  BY Cut DEF Before, After
<1>3. /\ t \in Seq(E) /\ Len(t) = n + m
      /\ \A i \in 1..(n + m) : t[i] = Piece(s, MatchesTo(s, n + m), i)
  BY <1>1, PiecesType
<1>4. /\ u \in Seq(E) /\ Len(u) = n
      /\ \A i \in 1..n : u[i] = Piece(Before(s, n), MatchesTo(Before(s, n), n), i)
  <2>1. n \in 0..Len(Before(s, n))
    BY <1>1, <1>2
  <2>. QED
    BY <1>2, <2>1, PiecesType
<1>5. /\ v \in Seq(E) /\ Len(v) = m
      /\ \A i \in 1..m : v[i] = Piece(After(s, n), MatchesTo(After(s, n), m), i)
  <2>1. m \in 0..Len(After(s, n))
    BY <1>1, <1>2
  <2>. QED
    BY <1>2, <2>1, PiecesType
<1>6. \A i \in 1..n : t[i] = u[i]
  <2>1. \A i \in 1..n : i \in 1..(n + m)
    BY <1>1
  <2>. QED
    BY <1>3, <1>4, <2>1, PiecesBefore
<1>7. \A i \in 1..m : t[n + i] = v[i]
  <2>1. \A i \in 1..m : n + i \in 1..(n + m)
    BY <1>1
  <2>. QED
    BY <1>3, <1>5, <2>1, PiecesAfter
<1>8. t = u \o v
  <2>. HIDE DEF t, u, v, E
  <2>1. /\ u \o v \in Seq(E) /\ Len(u \o v) = n + m
        /\ \A i \in 1..(n + m) : (u \o v)[i] = IF i <= n THEN u[i] ELSE v[i - n]
    BY <1>4, <1>5, ConcatProperties
  <2>2. ASSUME NEW i \in 1..(n + m)
        PROVE  t[i] = (u \o v)[i]
    <3>1. CASE i <= n
      <4>1. i \in 1..n
        BY <1>1, <3>1
      <4>. QED
        BY <1>6, <2>1, <3>1, <4>1
    <3>2. CASE ~(i <= n)
      <4>1. i - n \in 1..m /\ n + (i - n) = i
        BY <1>1, <3>2
      <4>2. t[n + (i - n)] = v[i - n]
        BY <1>7, <4>1
      <4>. QED
        BY <2>1, <3>2, <4>1, <4>2
    <3>. QED
      BY <3>1, <3>2
  <2>. QED
    BY <1>3, <2>1, <2>2, SeqEqual
<1>9. FlattenSeq(u \o v) = FlattenSeq(u) \o FlattenSeq(v)
  BY <1>4, <1>5, FlattenConcat
<1>. HIDE DEF t, u, v
<1>. QED
  BY <1>8, <1>9, RenderedIs DEF t, u, v

-----------------------------------------------------------------------------
(* Where runs start, in a text that grows and in what follows a break. *)

LEMMA RunStartBreaks ==
  ASSUME NEW s \in Texts
  PROVE  RunStart(s) \in 0..Len(s) /\ Break(s, RunStart(s))
<1>1. Len(s) \in Nat
  BY LenProperties DEF Texts
<1>. QED
  BY <1>1, RunStartIs DEF Break

LEMMA RunStartUnique ==
  ASSUME NEW s \in Texts, NEW n \in 0..Len(s), Break(s, n),
         \A i \in 1..Len(s) : i > n => CanContinueAMatch(s, i)
  PROVE  RunStart(s) = n
<1>1. Len(s) \in Nat /\ n \in Nat
  BY LenProperties DEF Texts
<1>2. /\ RunStart(s) \in 0..Len(s)
      /\ RunStart(s) # 0 => ~CanContinueAMatch(s, RunStart(s))
      /\ \A i \in 1..Len(s) : i > RunStart(s) => CanContinueAMatch(s, i)
  BY RunStartIs
<1>3. ~(RunStart(s) > n)
  BY <1>1, <1>2
<1>4. ~(n > RunStart(s))
  BY <1>1, <1>2 DEF Break
<1>. QED
  BY <1>1, <1>2, <1>3, <1>4

LEMMA Grown ==
  ASSUME NEW s \in Texts, NEW d \in Texts, NEW t, t = Concatenated(s, d)
  PROVE  /\ t \in Texts /\ Len(s) \in Nat /\ Len(t) \in Nat /\ Len(s) <= Len(t)
         /\ Len(t) = Len(s) + Len(d) /\ DOMAIN s = 1..Len(s) /\ DOMAIN t = 1..Len(t)
         /\ \A i \in 1..Len(s) : t[i] = s[i]
         /\ \A i \in 1..Len(d) : t[Len(s) + i] = d[i]
<1>1. /\ t \in Texts /\ Len(t) = Len(s) + Len(d)
      /\ \A i \in 1..(Len(s) + Len(d)) : t[i] = IF i <= Len(s) THEN s[i] ELSE d[i - Len(s)]
  BY ConcatProperties DEF Texts, Concatenated
<1>2. Len(s) \in Nat /\ Len(d) \in Nat /\ Len(t) \in Nat /\ DOMAIN s = 1..Len(s) /\ DOMAIN t = 1..Len(t)
  BY <1>1, LenProperties DEF Texts
<1>3. ASSUME NEW i \in 1..Len(s)
      PROVE  t[i] = s[i]
  <2>1. i \in 1..(Len(s) + Len(d)) /\ i <= Len(s)
    BY <1>2
  <2>. QED
    BY <1>1, <2>1
<1>4. ASSUME NEW i \in 1..Len(d)
      PROVE  t[Len(s) + i] = d[i]
  <2>1. Len(s) + i \in 1..(Len(s) + Len(d)) /\ ~(Len(s) + i <= Len(s)) /\ (Len(s) + i) - Len(s) = i
    BY <1>2
  <2>. QED
    BY <1>1, <2>1
<1>. QED
  BY <1>1, <1>2, <1>3, <1>4

(* A run that has ended has ended whatever follows. *)
LEMMA BreakRemains ==
  ASSUME NEW s \in Texts, NEW d \in Texts, NEW t, t = Concatenated(s, d), NEW n \in 0..Len(s), Break(s, n)
  PROVE  n \in 0..Len(t) /\ Break(t, n)
<1>1. /\ t \in Texts /\ Len(s) \in Nat /\ Len(t) \in Nat /\ Len(s) <= Len(t)
      /\ DOMAIN s = 1..Len(s) /\ DOMAIN t = 1..Len(t) /\ \A i \in 1..Len(s) : t[i] = s[i]
  BY Grown
<1>2. n \in Nat /\ n \in 0..Len(t)
  BY <1>1
<1>3. CASE n = 0
  BY <1>2, <1>3 DEF Break
<1>4. CASE n # 0
  <2>1. n \in 1..Len(s) /\ n \in 1..Len(t) /\ ~CanContinueAMatch(s, n) /\ t[n] = s[n]
    BY <1>1, <1>2, <1>4 DEF Break
  <2>2. At(t, n - 1, {"d"}) <=> At(s, n - 1, {"d"})
    <3>1. n - 1 \in 1..Len(t) <=> n - 1 \in 1..Len(s)
      BY <1>1, <2>1
    <3>. QED
      BY <1>1, <3>1 DEF At
  <2>3. n # Len(s) => n # Len(t) /\ t[n + 1] = s[n + 1]
    <3>. DEFINE a == Len(s)
                b == Len(t)
    <3>0. a \in Nat /\ b \in Nat /\ a <= b /\ n \in 1..a
      BY <1>1, <2>1
    <3>. HIDE DEF a, b
    <3>1. n # a => n # b /\ n + 1 \in 1..a
      BY <3>0
    <3>. USE DEF a, b
    <3>. QED
      BY <1>1, <3>1
  <2>4. ~CanContinueAMatch(t, n)
    BY <2>1, <2>2, <2>3 DEF CanContinueAMatch
  <2>. QED
    BY <1>2, <2>1, <2>4 DEF Break
<1>. QED
  BY <1>3, <1>4

LEMMA ContinuesAfter ==
  ASSUME NEW s \in Texts, NEW n \in 0..Len(s), Break(s, n), NEW i \in 1..(Len(s) - n)
  PROVE  CanContinueAMatch(After(s, n), i) <=> CanContinueAMatch(s, n + i)
<1>. DEFINE q == After(s, n)
<1>1. Len(s) \in Nat /\ n \in Nat /\ i \in Nat /\ DOMAIN s = 1..Len(s)
  BY LenProperties DEF Texts
<1>2. q \in Texts /\ Len(q) = Len(s) - n /\ \A k \in 1..(Len(s) - n) : q[k] = s[n + k]
  BY Cut DEF After
<1>3. DOMAIN q = 1..(Len(s) - n)
  BY <1>2, LenProperties DEF Texts
<1>. HIDE DEF q
<1>4. q[i] = s[n + i] /\ (i = Len(q) <=> n + i = Len(s))
  <2>. DEFINE a == Len(s)
              b == Len(q)
  <2>1. a \in Nat /\ b = a - n /\ n \in Nat /\ i \in Nat
    BY <1>1, <1>2
  <2>. HIDE DEF a, b
  <2>2. i = b <=> n + i = a
    BY <2>1
  <2>. QED
    BY <1>2, <2>2 DEF a, b
<1>5. i # Len(q) => q[i + 1] = s[(n + i) + 1]
  <2>1. i # Len(q) => i + 1 \in 1..(Len(s) - n)
    <3>. DEFINE a == Len(s) - n
    <3>1. a \in Nat /\ i \in 1..a /\ Len(q) = a
      BY <1>1, <1>2
    <3>. HIDE DEF a
    <3>2. i # a => i + 1 \in 1..a
      BY <3>1
    <3>. QED
      BY <3>1, <3>2 DEF a
  <2>2. n + (i + 1) = (n + i) + 1
    BY <1>1
  <2>. QED
    BY <1>2, <2>1, <2>2
<1>6. At(q, i - 1, {"d"}) <=> At(s, (n + i) - 1, {"d"})
  <2>1. CASE i = 1
    <3>1. (n + i) - 1 = n /\ i - 1 \notin 1..(Len(s) - n)
      BY <1>1, <2>1
    <3>2. ~At(s, n, {"d"})
      BY BreakUnseen
    <3>3. ~At(q, i - 1, {"d"})
      BY <1>3, <3>1 DEF At
    <3>. QED
      BY <3>1, <3>2, <3>3
  <2>2. CASE i # 1
    <3>1. i - 1 \in 1..(Len(s) - n) /\ n + (i - 1) = (n + i) - 1 /\ (n + i) - 1 \in 1..Len(s)
      BY <1>1, <2>2
    <3>2. q[i - 1] = s[(n + i) - 1]
      BY <1>2, <3>1
    <3>. QED
      BY <1>1, <1>3, <3>1, <3>2 DEF At
  <2>. QED
    BY <2>1, <2>2
<1>7. CanContinueAMatch(q, i) <=> CanContinueAMatch(s, n + i)
  BY <1>4, <1>5, <1>6 DEF CanContinueAMatch
<1>. QED
  BY <1>7 DEF q

LEMMA RunStartAfter ==
  ASSUME NEW s \in Texts, NEW n \in 0..Len(s), Break(s, n)
  PROVE  RunStart(After(s, n)) \in Nat /\ RunStart(s) = n + RunStart(After(s, n))
<1>. DEFINE q == After(s, n)
            u == RunStart(q)
<1>1. Len(s) \in Nat /\ n \in Nat
  BY LenProperties DEF Texts
<1>2. q \in Texts /\ Len(q) = Len(s) - n
  BY Cut DEF After
<1>3. /\ u \in 0..(Len(s) - n)
      /\ u # 0 => ~CanContinueAMatch(q, u)
      /\ \A i \in 1..(Len(s) - n) : i > u => CanContinueAMatch(q, i)
  BY <1>2, RunStartIs
<1>4. \A i \in 1..(Len(s) - n) : CanContinueAMatch(q, i) <=> CanContinueAMatch(s, n + i)
  BY ContinuesAfter
<1>0. Len(s) - n \in Nat /\ u \in Nat /\ u <= Len(s) - n /\ n + u <= Len(s) /\ n <= Len(s)
  <2>. DEFINE a == Len(s)
  <2>1. a \in Nat /\ n \in 0..a /\ u \in 0..(a - n)
    BY <1>1, <1>3
  <2>. HIDE DEF a, u
  <2>2. a - n \in Nat /\ u \in Nat /\ u <= a - n /\ n + u <= a /\ n <= a
    BY <2>1
  <2>. QED
    BY <2>2 DEF a
<1>. HIDE DEF q, u
<1>5. n + u \in 0..Len(s) /\ Break(s, n + u)
  <2>1. CASE u = 0
    BY <1>1, <2>1
  <2>2. CASE u # 0
    <3>1. u \in 1..(Len(s) - n) /\ n + u \in 1..Len(s) /\ n + u \in 0..Len(s)
      BY <1>0, <1>1, <2>2
    <3>. QED
      BY <1>3, <1>4, <2>2, <3>1 DEF Break
  <2>. QED
    BY <2>1, <2>2
<1>6. ASSUME NEW i \in 1..Len(s), i > n + u
      PROVE  CanContinueAMatch(s, i)
  <2>1. i - n \in 1..(Len(s) - n) /\ i - n > u /\ n + (i - n) = i
    BY <1>0, <1>1, <1>6
  <2>. QED
    BY <1>3, <1>4, <2>1
<1>7. RunStart(s) = n + u
  BY <1>5, <1>6, RunStartUnique
<1>. QED
  BY <1>0, <1>7 DEF q, u

(* A run that fits is held exactly: no match straddles its start. *)
LEMMA RunIsHeld ==
  ASSUME NEW s \in Texts, Len(s) - RunStart(s) <= Hold
  PROVE  SafePrefix(s) = RunStart(s)
<1>. DEFINE u == RunStart(s)
<1>1. Len(s) \in Nat /\ u \in 0..Len(s) /\ Break(s, u)
  BY LenProperties, RunStartBreaks DEF Texts
<1>2. UnsafeStart(s) = u
  BY UnsafeStartIs
<1>. HIDE DEF u
<1>3. ASSUME NEW m \in Matches(s), m.start <= u, u < m.end
      PROVE  FALSE
  <2>1. m.start \in 1..Len(s) /\ m.end \in m.start..Len(s) /\ m.end \in MatchEnds(s, m.start)
    BY MatchesFit
  <2>2. m.start \in 1..u /\ m.end \in u..Len(s) /\ u \in 1..Len(s)
    BY <1>1, <1>3, <2>1
  <2>3. Matched(s, m.start, m.end)
    BY <2>1, EndsAreMatches DEF Matched
  <2>. QED
    BY <1>1, <2>2, <2>3, NoMatchAcross
<1>4. {m \in Matches(s) : m.start <= u /\ u < m.end} = {}
  BY <1>3
<1>. QED
  BY <1>2, <1>4 DEF SafePrefix, u

(* The replacement of a text is that of its parts. *)
LEMMA SubstituteSplit ==
  ASSUME NEW s \in Texts, NEW n \in 0..Len(s), Break(s, n)
  PROVE  /\ Substitute(s) = Substitute(Before(s, n)) \o Substitute(After(s, n))
         /\ Rendered(s, n) = Substitute(Before(s, n))
<1>1. Len(s) \in Nat /\ n \in Nat
  BY LenProperties DEF Texts
<1>2. /\ Before(s, n) \in Texts /\ Len(Before(s, n)) = n
      /\ After(s, n) \in Texts /\ Len(After(s, n)) = Len(s) - n
  BY Cut DEF Before, After
<1>3. Substitute(s) = Substitute(Before(s, n)) \o Substitute(After(s, n))
  <2>. DEFINE m == Len(s) - n
  <2>1. m \in 0..(Len(s) - n) /\ n + m = Len(s)
    BY <1>1
  <2>. HIDE DEF m
  <2>2. Rendered(s, n + m) = Rendered(Before(s, n), n) \o Rendered(After(s, n), m)
    BY <2>1, RenderSplit
  <2>. QED
    BY <1>2, <2>1, <2>2 DEF Substitute, m
<1>4. Rendered(s, n) = Substitute(Before(s, n))
  <2>. DEFINE z == 0
  <2>1. z \in 0..(Len(s) - n) /\ n + z = n
    BY <1>1
  <2>2. Rendered(After(s, n), z) = <<>>
    <3>1. Pieces(After(s, n), z) = <<>>
      BY DEF Pieces
    <3>. QED
      BY <3>1, RenderedIs, FlattenEmpty
  <2>. HIDE DEF z
  <2>3. Rendered(s, n + z) = Rendered(Before(s, n), n) \o Rendered(After(s, n), z)
    BY <2>1, RenderSplit
  <2>4. Rendered(Before(s, n), n) \in Seq(Outs)
    BY <1>1, <1>2, RenderedType
  <2>5. \A x \in Seq(Outs) : x \o <<>> = x
    OBVIOUS
  <2>. QED
    BY <1>2, <2>1, <2>2, <2>3, <2>4, <2>5 DEF Substitute
<1>. QED
  BY <1>3, <1>4

-----------------------------------------------------------------------------
(* The invariant. *)

(* What has been released is the text up to the start of its last run,     *)
(* scanned alone, and what is held is that run.                            *)
ReleasedAndHeld ==
  /\ text \in Texts /\ buffer \in Texts
  /\ RunsFit => /\ buffer = After(text, RunStart(text))
                /\ out = Substitute(Before(text, RunStart(text)))

FitRuns(s) == \A n \in DOMAIN s : n - RunStart(SubSeq(s, 1, n)) <= Hold

LEMMA LastRunFits ==
  ASSUME NEW s \in Texts, FitRuns(s)
  PROVE  Len(s) - RunStart(s) <= Hold
<1>1. Len(s) \in Nat /\ DOMAIN s = 1..Len(s) /\ RunStart(s) \in 0..Len(s) /\ Hold \in Nat
  BY LenProperties, RunStartIs, HoldIsLongest DEF Texts
<1>2. CASE Len(s) = 0
  BY <1>1, <1>2
<1>3. CASE Len(s) # 0
  <2>1. Len(s) \in DOMAIN s /\ Len(s) \in 0..Len(s)
    BY <1>1, <1>3
  <2>. DEFINE p == SubSeq(s, 1, Len(s))
  <2>2. p = s
    <3>1. p \in Texts /\ Len(p) = Len(s) /\ \A i \in 1..Len(s) : p[i] = s[i]
      BY <2>1, Cut
    <3>. HIDE DEF p
    <3>. QED
      BY <3>1, SeqEqual DEF Texts
  <2>3. Len(s) - RunStart(p) <= Hold
    BY <2>1 DEF FitRuns
  <2>. HIDE DEF p
  <2>. QED
    BY <2>2, <2>3
<1>. QED
  BY <1>2, <1>3

LEMMA PartsOfGrown ==
  ASSUME NEW s \in Texts, NEW d \in Texts, NEW n \in 0..Len(s)
  PROVE  /\ Before(Concatenated(s, d), n) = Before(s, n)
         /\ After(Concatenated(s, d), n) = Concatenated(After(s, n), d)
<1>. DEFINE t == Concatenated(s, d)
<1>1. /\ t \in Texts /\ Len(s) \in Nat /\ Len(t) \in Nat /\ Len(s) <= Len(t)
      /\ Len(t) = Len(s) + Len(d)
      /\ \A i \in 1..Len(s) : t[i] = s[i]
      /\ \A i \in 1..Len(d) : t[Len(s) + i] = d[i]
  BY Grown
<1>2. Len(d) \in Nat /\ n \in Nat /\ n <= Len(s) /\ n \in 0..Len(t)
  BY <1>1, LenProperties DEF Texts
<1>3. /\ Before(s, n) \in Texts /\ Len(Before(s, n)) = n /\ \A i \in 1..n : Before(s, n)[i] = s[i]
      /\ After(s, n) \in Texts /\ Len(After(s, n)) = Len(s) - n
      /\ \A i \in 1..(Len(s) - n) : After(s, n)[i] = s[n + i]
  BY Cut DEF Before, After
<1>4. /\ Before(t, n) \in Texts /\ Len(Before(t, n)) = n /\ \A i \in 1..n : Before(t, n)[i] = t[i]
      /\ After(t, n) \in Texts /\ Len(After(t, n)) = Len(t) - n
      /\ \A i \in 1..(Len(t) - n) : After(t, n)[i] = t[n + i]
  BY <1>1, <1>2, Cut DEF Before, After
<1>5. Before(t, n) = Before(s, n)
  <2>. DEFINE a == Before(t, n)
              b == Before(s, n)
  <2>. HIDE DEF t
  <2>1. \A i \in 1..n : a[i] = b[i]
    <3>1. \A i \in 1..n : i \in 1..Len(s)
      BY <1>1, <1>2
    <3>. QED
      BY <1>1, <1>3, <1>4, <3>1
  <2>2. a \in Texts /\ b \in Texts /\ Len(a) = n /\ Len(b) = n
    BY <1>3, <1>4
  <2>. HIDE DEF a, b
  <2>3. a = b
    BY <2>1, <2>2, SeqEqual DEF Texts
  <2>. QED
    BY <2>3 DEF a, b
<1>6. After(t, n) = Concatenated(After(s, n), d)
  <2>. DEFINE a == After(t, n)
              c == After(s, n)
              b == Concatenated(c, d)
              k == Len(s) - n
  <2>0. k \in Nat /\ Len(s) = n + k
    BY <1>1, <1>2
  <2>1. c \in Texts /\ Len(c) = k /\ \A i \in 1..k : c[i] = s[n + i]
    BY <1>3
  <2>2. a \in Texts /\ Len(a) = Len(t) - n /\ \A i \in 1..(Len(t) - n) : a[i] = t[n + i]
    BY <1>4
  <2>. HIDE DEF a, c, t
  <2>3. b \in Texts /\ Len(b) = Len(c) + Len(d)
        /\ (\A i \in 1..Len(c) : b[i] = c[i]) /\ (\A i \in 1..Len(d) : b[Len(c) + i] = d[i])
    <3>1. c \in Texts
      BY <2>1
    <3>. QED
      BY <3>1, Grown
  <2>. HIDE DEF b, k
  <2>4. Len(a) = k + Len(d) /\ Len(b) = k + Len(d) /\ Len(t) - n = k + Len(d)
    <3>1. Len(t) - n = k + Len(d)
      BY <1>1, <1>2, <2>0
    <3>. QED
      BY <2>1, <2>2, <2>3, <3>1
  <2>5. ASSUME NEW i \in 1..(k + Len(d))
        PROVE  a[i] = b[i]
    <3>0. a[i] = t[n + i]
      BY <2>2, <2>4
    <3>1. CASE i <= k
      <4>1. i \in 1..k /\ n + i \in 1..Len(s)
        BY <1>2, <2>0, <3>1
      <4>2. t[n + i] = s[n + i] /\ c[i] = s[n + i] /\ b[i] = c[i]
        BY <1>1, <2>1, <2>3, <4>1
      <4>. QED
        BY <3>0, <4>2
    <3>2. CASE ~(i <= k)
      <4>1. i - k \in 1..Len(d) /\ k + (i - k) = i /\ Len(s) + (i - k) = n + i
        BY <1>2, <2>0, <3>2
      <4>2. t[Len(s) + (i - k)] = d[i - k] /\ b[k + (i - k)] = d[i - k]
        BY <1>1, <2>1, <2>3, <4>1
      <4>. QED
        BY <3>0, <4>1, <4>2
    <3>. QED
      BY <3>1, <3>2
  <2>6. a = b
    BY <2>2, <2>3, <2>4, <2>5, SeqEqual DEF Texts
  <2>. QED
    BY <2>6 DEF a, b, c
<1>. QED
  BY <1>5, <1>6

LEMMA FitBefore ==
  ASSUME NEW s \in Texts, NEW d \in Texts, FitRuns(Concatenated(s, d))
  PROVE  FitRuns(s)
<1>. DEFINE t == Concatenated(s, d)
<1>1. /\ Len(s) \in Nat /\ Len(t) \in Nat /\ Len(s) <= Len(t)
      /\ DOMAIN s = 1..Len(s) /\ DOMAIN t = 1..Len(t)
  BY Grown
<1>2. \A n \in DOMAIN s : n \in DOMAIN t /\ n \in 0..Len(s)
  <2>. HIDE DEF t
  <2>. QED
    BY <1>1
<1>3. \A n \in DOMAIN s : Before(t, n) = Before(s, n)
  BY <1>2, PartsOfGrown
<1>4. \A n \in DOMAIN t : n - RunStart(Before(t, n)) <= Hold
  BY DEF FitRuns, Before
<1>. HIDE DEF t
<1>5. \A n \in DOMAIN s : n - RunStart(Before(s, n)) <= Hold
  BY <1>2, <1>3, <1>4
<1>. QED
  BY <1>5 DEF FitRuns, Before

(* What one feed releases continues what one scan of the whole text gives. *)
LEMMA FeedContinues ==
  ASSUME NEW s \in Texts, NEW d \in Texts, NEW t \in Texts, t = Concatenated(s, d), FitRuns(t),
         NEW fed, fed = Concatenated(After(s, RunStart(s)), d)
  PROVE  /\ Substitute(Before(t, RunStart(t)))
              = Substitute(Before(s, RunStart(s))) \o Rendered(fed, SafePrefix(fed))
         /\ After(t, RunStart(t)) = SubSeq(fed, SafePrefix(fed) + 1, Len(fed))
<1>. DEFINE n == RunStart(s)
            u == RunStart(fed)
            k == RunStart(t)
<1>1. n \in 0..Len(s) /\ Break(s, n)
  BY RunStartBreaks
<1>2. n \in 0..Len(t) /\ Break(t, n)
  BY <1>1, BreakRemains
<1>3. Before(t, n) = Before(s, n) /\ After(t, n) = fed
  BY <1>1, PartsOfGrown
<1>4. u \in Nat /\ k = n + u
  BY <1>2, <1>3, RunStartAfter
<1>5. fed \in Texts /\ Len(fed) = Len(t) - n /\ \A i \in 1..(Len(t) - n) : fed[i] = t[n + i]
  <2>. DEFINE a == After(t, n)
  <2>1. a \in Texts /\ Len(a) = Len(t) - n /\ \A i \in 1..(Len(t) - n) : a[i] = t[n + i]
    BY <1>2, Cut DEF After
  <2>2. a = fed
    BY <1>3
  <2>. HIDE DEF a, n
  <2>. QED
    BY <2>1, <2>2, Zenon
<1>6. k \in 0..Len(t) /\ Break(t, k) /\ Len(t) - k <= Hold
  BY RunStartBreaks, LastRunFits
<1>. HIDE DEF n, u, k
<1>7. Len(t) \in Nat /\ n \in Nat /\ n <= Len(t)
  BY <1>2, LenProperties DEF Texts
<1>8. /\ Len(fed) - u = Len(t) - k /\ u \in 0..Len(fed) /\ u \in 0..(Len(t) - n)
      /\ Len(fed) \in Nat
  BY <1>4, <1>5, <1>6, <1>7
<1>9. SafePrefix(fed) = u
  BY <1>5, <1>6, <1>8, RunIsHeld DEF u
<1>10. Rendered(t, k) = Substitute(Before(t, k))
  BY <1>6, SubstituteSplit
<1>11. Rendered(t, n + u) = Rendered(Before(t, n), n) \o Rendered(After(t, n), u)
  BY <1>2, <1>8, RenderSplit
<1>12. Rendered(Before(t, n), n) = Substitute(Before(s, n))
  <2>1. Len(Before(t, n)) = n
    BY <1>2, Cut DEF Before
  <2>2. Substitute(Before(t, n)) = Rendered(Before(t, n), n)
    BY <2>1, Zenon DEF Substitute
  <2>. QED
    BY <1>3, <2>2, Zenon
<1>13. Substitute(Before(t, k)) = Substitute(Before(s, n)) \o Rendered(fed, u)
  BY <1>3, <1>4, <1>10, <1>11, <1>12, Zenon
<1>14. After(t, k) = After(fed, u)
  <2>. DEFINE a == After(t, k)
              b == After(fed, u)
  <2>1. a \in Texts /\ Len(a) = Len(t) - k /\ \A i \in 1..(Len(t) - k) : a[i] = t[k + i]
    BY <1>6, Cut DEF After
  <2>2. b \in Texts /\ Len(b) = Len(fed) - u /\ \A i \in 1..(Len(fed) - u) : b[i] = fed[u + i]
    BY <1>5, <1>8, Cut DEF After
  <2>. HIDE DEF a, b
  <2>3. ASSUME NEW i \in 1..(Len(t) - k)
        PROVE  a[i] = b[i]
    <3>1. i \in 1..(Len(fed) - u)
      BY <1>8
    <3>2. u + i \in 1..(Len(t) - n) /\ n + (u + i) = k + i
      BY <1>4, <1>6, <1>7
    <3>3. fed[u + i] = t[n + (u + i)]
      BY <1>5, <3>2
    <3>. QED
      BY <2>1, <2>2, <3>1, <3>2, <3>3
  <2>4. Len(a) = Len(b)
    BY <1>8, <2>1, <2>2
  <2>5. a = b
    BY <2>1, <2>2, <2>3, <2>4, SeqEqual DEF Texts
  <2>. QED
    BY <2>5 DEF a, b
<1>15. After(fed, u) = SubSeq(fed, u + 1, Len(fed))
  BY DEF After
<1>. QED
  BY <1>9, <1>13, <1>14, <1>15, Zenon DEF k, n

LEMMA ReleasedAndHeldStep == ReleasedAndHeld /\ [Next]_vars => ReleasedAndHeld'
<1>. SUFFICES ASSUME ReleasedAndHeld, [Next]_vars
              PROVE  ReleasedAndHeld'
  OBVIOUS
<1>1. CASE Next
  <2>1. PICK delta \in Texts : Feed(delta)
    BY <1>1, Deltas
  <2>. DEFINE fed == Concatenated(buffer, delta)
              grown == Concatenated(text, delta)
  <2>2. /\ text' = grown
        /\ out' = out \o Rendered(fed, SafePrefix(fed))
        /\ buffer' = SubSeq(fed, SafePrefix(fed) + 1, Len(fed))
    BY <2>1, Zenon DEF Feed, Concatenated
  <2>3. text \in Texts /\ buffer \in Texts
    BY DEF ReleasedAndHeld
  <2>4. grown \in Texts /\ fed \in Texts
    BY <2>3, Grown
  <2>5. text' \in Texts /\ buffer' \in Texts
    <3>. HIDE DEF fed, grown
    <3>1. SafePrefix(fed) \in 0..Len(fed)
      BY <2>4, SafePrefixIs
    <3>. QED
      BY <2>2, <2>4, <3>1, Cut
  <2>6. ASSUME RunsFit'
        PROVE  /\ buffer' = After(text', RunStart(text'))
               /\ out' = Substitute(Before(text', RunStart(text')))
    <3>1. FitRuns(grown)
      <4>1. FitRuns(text')
        BY <2>6, Zenon DEF RunsFit, FitRuns
      <4>. QED
        BY <2>2, <4>1, Zenon
    <3>2. RunsFit
      <4>1. FitRuns(text)
        BY <2>3, <3>1, FitBefore
      <4>. QED
        BY <4>1, Zenon DEF RunsFit, FitRuns
    <3>3. buffer = After(text, RunStart(text)) /\ out = Substitute(Before(text, RunStart(text)))
      BY <3>2 DEF ReleasedAndHeld
    <3>. HIDE DEF grown
    <3>4. fed = Concatenated(After(text, RunStart(text)), delta)
      BY <3>3, Zenon
    <3>. HIDE DEF fed
    <3>5. grown = Concatenated(text, delta)
      BY DEF grown
    <3>6. /\ Substitute(Before(grown, RunStart(grown)))
               = Substitute(Before(text, RunStart(text))) \o Rendered(fed, SafePrefix(fed))
          /\ After(grown, RunStart(grown)) = SubSeq(fed, SafePrefix(fed) + 1, Len(fed))
      BY <2>3, <2>4, <3>1, <3>4, <3>5, FeedContinues
    <3>. QED
      BY <2>2, <3>3, <3>6, Zenon
  <2>. QED
    BY <2>5, <2>6 DEF ReleasedAndHeld
<1>2. CASE UNCHANGED vars
  BY <1>2, Zenon DEF vars, ReleasedAndHeld, RunsFit
<1>. QED
  BY <1>1, <1>2

LEMMA ReleasedAndHeldAtFirst == Init => ReleasedAndHeld
<1>. SUFFICES ASSUME Init
              PROVE  ReleasedAndHeld
  OBVIOUS
<1>1. text = <<>> /\ buffer = <<>> /\ out = <<>>
  BY DEF Init
<1>. DEFINE e == <<>>
<1>2. e \in Texts /\ Len(e) = 0
  BY EmptySeq DEF Texts
<1>3. RunStart(e) = 0
  <2>1. RunStart(e) \in 0..0
    BY <1>2, RunStartIs
  <2>. QED
    BY <2>1
<1>4. Before(e, 0) = e /\ After(e, 0) = e
  <2>1. 0 \in 0..Len(e)
    BY <1>2
  <2>2. /\ Before(e, 0) \in Texts /\ Len(Before(e, 0)) = 0
        /\ After(e, 0) \in Texts /\ Len(After(e, 0)) = 0
    BY <1>2, <2>1, Cut DEF Before, After
  <2>3. \A x \in Texts : Len(x) = 0 => x = <<>>
    BY EmptySeq DEF Texts
  <2>. QED
    BY <2>2, <2>3
<1>5. Substitute(e) = <<>>
  <2>1. Pieces(e, 0) = <<>>
    BY DEF Pieces
  <2>. QED
    BY <1>2, <2>1, RenderedIs, FlattenEmpty DEF Substitute
<1>. QED
  BY <1>1, <1>2, <1>3, <1>4, <1>5 DEF ReleasedAndHeld

THEOREM ReleasedAndHeldAlways == Spec => []ReleasedAndHeld
BY ReleasedAndHeldAtFirst, ReleasedAndHeldStep, PTL DEF Spec

(* A buffer holds the run at the end of the text, whatever its cut into    *)
(* deltas, as long as no run outgrows the hold.                            *)
THEOREM HoldsTheRun == Spec => []HoldsOneRun
<1>1. ReleasedAndHeld => HoldsOneRun
  BY Zenon DEF ReleasedAndHeld, HoldsOneRun, After
<1>. QED
  BY <1>1, ReleasedAndHeldAlways, PTL

(* However a text is cut into deltas, what is released and flushed is what *)
(* one scan of the whole text gives, as long as no run outgrows the hold.  *)
THEOREM ChunkingIsInvisible == Spec => []ChunkingInvisible
<1>1. ReleasedAndHeld => ChunkingInvisible
  <2>. SUFFICES ASSUME ReleasedAndHeld, RunsFit
                PROVE  Flushed = Substitute(text)
    BY DEF ChunkingInvisible
  <2>1. text \in Texts
    BY DEF ReleasedAndHeld
  <2>2. RunStart(text) \in 0..Len(text) /\ Break(text, RunStart(text))
    BY <2>1, RunStartBreaks
  <2>3. Substitute(text) = Substitute(Before(text, RunStart(text))) \o Substitute(After(text, RunStart(text)))
    BY <2>1, <2>2, SubstituteSplit
  <2>4. buffer = After(text, RunStart(text)) /\ out = Substitute(Before(text, RunStart(text)))
    BY DEF ReleasedAndHeld
  <2>. QED
    BY <2>3, <2>4, Zenon DEF Flushed
<1>. QED
  BY <1>1, ReleasedAndHeldAlways, PTL
=============================================================================
