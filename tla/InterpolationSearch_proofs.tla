-------------------- MODULE InterpolationSearch_proofs --------------------
(***************************************************************************)
(* Proofs that interpolate_search reads within the array, and that it and  *)
(* the scan after it answer rightly, for arrays, ids and word widths of    *)
(* any size.                                                               *)
(***************************************************************************)
EXTENDS InterpolationSearch, SequenceTheorems, WellFoundedInduction, TLAPS

\* A probe cannot lie beyond the end of its interval: the fraction of the
\* interval is at most 1, and overflow can only make it smaller.
LEMMA FractionOfInterval ==
    ASSUME NEW a \in Nat, NEW b \in Nat, NEW d \in Nat, NEW m \in Nat \ {0},
           b <= d, d > 0
    PROVE  ((a * b) % m) \div d \in 0 .. a
<1> DEFINE x == (a * b) % m
           q == x \div d
<1>1. a * b \in Nat /\ a * d \in Nat /\ a * b <= a * d
    OBVIOUS
<1>2. x \in Nat /\ x <= a * b
    <2> DEFINE p == a * b
    <2>1. p \in Nat
        BY <1>1
    <2> HIDE DEF p
    <2>2. p % m \in Nat /\ p % m <= p
        BY <2>1
    <2> QED
        BY <2>2 DEF p
<1> HIDE DEF x
<1>3. q \in Nat /\ q * d <= x
    BY <1>2
<1> HIDE DEF q
<1>4. q <= a
    <2> SUFFICES ASSUME q >= a + 1
                 PROVE  FALSE
        BY <1>3
    <2>1. q * d >= (a + 1) * d
        BY <1>3
    <2>2. (a + 1) * d = a * d + d
        OBVIOUS
    <2> QED
        BY <1>1, <1>2, <1>3, <2>1, <2>2
<1> QED
    BY <1>3, <1>4 DEF q, x

LEMMA NoWrap ==
    ASSUME NEW m \in Nat \ {0}, NEW x \in Nat, x < m
    PROVE  x % m = x
OBVIOUS

LEMMA NextPlace ==
    /\ \A i, n \in Nat : i < n => i + 1 \in 1 .. n
    /\ \A n \in Nat : \A i \in 0 .. n - 1 : i # -1 /\ i + 1 \in 1 .. n
OBVIOUS
-----------------------------------------------------------------------------
Hit == index + 1 \in DOMAIN data /\ data[index + 1] = msg_id

\* What each phase of remove_element_by_id relies on.
Phases ==
    /\ pc # "done" => data = before
    /\ pc = "start" => low = 0
    /\ pc = "search" => high < Size
    /\ pc = "search" /\ Ascending(data) =>
          \A k \in DOMAIN data : data[k] = msg_id => k \in low + 1 .. high + 1
    /\ pc = "remove" => IF index = -1 THEN ~Holds(data, msg_id) ELSE Hit

Inv == TypeOK /\ Phases /\ ScanOnlyForMissing /\ Answer /\ RemovesOnlyIt

LEMMA DataFacts ==
    ASSUME TypeOK
    PROVE  /\ Size \in Nat /\ DOMAIN data = 1 .. Size
           /\ \A k \in 1 .. Size : data[k] \in Nat
           /\ msg_id \in Nat
<1>1. Values \subseteq Nat
    BY SearchAssumption
<1>2. data \in Seq(Values) /\ msg_id \in Values
    BY DEF TypeOK
<1>3. Size \in Nat /\ DOMAIN data = 1 .. Size /\ \A k \in 1 .. Size : data[k] \in Values
    BY <1>2 DEF Size
<1> QED
    BY <1>1, <1>2, <1>3

LEMMA ProbeIsInside ==
    ASSUME Inv, Probing
    PROVE  Position \in low .. high /\ Position \in Nat /\ Position < Size
<1>1. low \in Nat /\ high \in Nat /\ low <= high /\ high < Size
    BY DEF Inv, TypeOK, Phases, Probing
<1>2. At(low) \in Nat /\ At(high) \in Nat /\ msg_id \in Nat /\ Size \in Nat
    <2>1. low + 1 \in 1 .. Size /\ high + 1 \in 1 .. Size
        BY <1>1, DataFacts DEF Inv
    <2> QED
        BY <2>1, DataFacts DEF Inv, At
<1>3. At(low) <= msg_id /\ msg_id <= At(high) /\ At(low) # At(high)
    BY <1>2 DEF Probing, Outside
<1> DEFINE a == high - low
           b == msg_id - At(low)
           d == At(high) - At(low)
<1>4. a \in Nat /\ b \in Nat /\ d \in Nat /\ b <= d /\ d > 0
    BY <1>1, <1>2, <1>3
<1>5. Position = low + ((a * b) % Modulus) \div d
    BY DEF Position
<1> HIDE DEF a, b, d
<1>6. ((a * b) % Modulus) \div d \in 0 .. a
    BY <1>4, FractionOfInterval, SearchAssumption
<1>7. ((a * b) % Modulus) \div d \in 0 .. high - low
    BY <1>6 DEF a
<1> QED
    BY <1>1, <1>2, <1>5, <1>7

LEMMA InitInv == Init => Inv
<1> SUFFICES ASSUME Init
             PROVE  Inv
    OBVIOUS
<1>1. PICK n \in 0 .. MaxSize : data \in [1 .. n -> Values]
    BY DEF Init
<1>2. data \in Seq(Values) /\ Len(data) = n
    BY <1>1, SearchAssumption
<1>3. TypeOK
    BY <1>2, SearchAssumption DEF Init, TypeOK, Size
<1> QED
    BY <1>3 DEF Init, Inv, Phases, ScanOnlyForMissing, Answer, RemovesOnlyIt

\* Where the array ascends, what is above a smaller element and below a larger
\* one is all that can hold msg_id.
LEMMA ProbeNarrows ==
    ASSUME Inv, Probing, Ascending(data), NEW k \in DOMAIN data, data[k] = msg_id
    PROVE  /\ At(Position) < msg_id => k > Position + 1
           /\ At(Position) > msg_id => k < Position + 1
<1>1. Position + 1 \in DOMAIN data /\ k \in Nat /\ Position \in Nat
    BY ProbeIsInside, DataFacts DEF Inv
<1>2. At(Position) = data[Position + 1] /\ data[Position + 1] \in Nat /\ data[k] \in Nat
    BY <1>1, DataFacts DEF At, Inv
<1>3. /\ k < Position + 1 => data[k] < data[Position + 1]
      /\ Position + 1 < k => data[Position + 1] < data[k]
    BY <1>1 DEF Ascending
<1> QED
    BY <1>1, <1>2, <1>3

\* The loop: one step per way through its body.
LEMMA LoopStep ==
    ASSUME Inv, GiveUp \/ FindLow \/ FindProbe \/ GoUp \/ GoDown
    PROVE  Inv'
<1>0. /\ Size \in Nat /\ DOMAIN data = 1 .. Size /\ low \in Nat /\ high \in Nat
      /\ Size <= MaxSize /\ MaxSize \in Nat /\ MaxSize < Modulus
      /\ \A k \in 1 .. Size : data[k] \in Nat
      /\ msg_id \in Nat
    BY DataFacts, SearchAssumption DEF Inv, TypeOK
<1>1. UNCHANGED <<data, msg_id, remove, before>> /\ pc = "search" /\ data = before
    BY DEF GiveUp, FindLow, FindProbe, GoUp, GoDown, Probing, callVars, Inv, Phases
<1>2. high < Size
    BY <1>1 DEF Inv, Phases
<1>3. CASE GiveUp
    <2>1. ASSUME Ascending(data), NEW k \in DOMAIN data, data[k] = msg_id
          PROVE  FALSE
        <3>1. k \in low + 1 .. high + 1
            BY <1>1, <2>1 DEF Inv, Phases
        <3>2. low <= high /\ low + 1 \in DOMAIN data /\ high + 1 \in DOMAIN data
            BY <1>0, <1>2, <3>1
        <3>3. /\ low + 1 < k => data[low + 1] < data[k]
              /\ k < high + 1 => data[k] < data[high + 1]
            BY <2>1, <3>2 DEF Ascending
        <3>4. At(low) <= msg_id /\ msg_id <= At(high)
            BY <1>0, <2>1, <3>1, <3>2, <3>3 DEF At
        <3>5. ~Outside
            BY <1>0, <3>2, <3>4 DEF At, Outside
        <3>6. ~(low > high)
            BY <1>0, <3>2
        <3>7. At(low) = At(high) /\ At(low) # msg_id
            BY <1>3, <3>5, <3>6, Zenon DEF GiveUp
        <3> QED
            BY <1>0, <3>2, <3>4, <3>7 DEF At
    <2>2. ScanOnlyForMissing'
        BY <1>1, <2>1 DEF ScanOnlyForMissing, Holds, Ascending
    <2> QED
        BY <1>1, <1>3, <2>2 DEF GiveUp, Inv, TypeOK, Phases, Answer, RemovesOnlyIt, Size
<1>4. CASE FindLow \/ FindProbe
    <2>1. index' \in Nat /\ index' < Size /\ At(index') = msg_id
        <3>1. CASE FindLow
            BY <1>0, <1>2, <3>1 DEF FindLow
        <3>2. CASE FindProbe
            BY <3>2, ProbeIsInside DEF FindProbe
        <3> QED
            BY <1>4, <3>1, <3>2
    <2>2. pc' = "remove" /\ UNCHANGED <<low, high>>
        BY <1>4 DEF FindLow, FindProbe
    <2>3. TypeOK'
        BY <1>0, <1>1, <2>1, <2>2 DEF Inv, TypeOK, Size
    <2>4. Hit'
        <3>1. index' + 1 \in DOMAIN data
            <4>1. index' \in Nat /\ index' < Size /\ Size \in Nat
                BY <1>0, <2>1
            <4>2. index' + 1 \in 1 .. Size
                BY <4>1, NextPlace
            <4> QED
                BY <1>0, <4>2
        <3>2. data[index' + 1] = msg_id
            BY <2>1 DEF At
        <3> QED
            BY <1>1, <3>1, <3>2 DEF Hit
    <2>5. index' # -1
        BY <2>1
    <2>6. Phases'
        BY <1>1, <2>2, <2>4, <2>5 DEF Phases
    <2> QED
        BY <2>2, <2>3, <2>6 DEF Inv, ScanOnlyForMissing, Answer, RemovesOnlyIt
<1>5. CASE GoUp
    <2>1. Probing /\ pc' = "search" /\ UNCHANGED <<high, index>> /\ At(Position) < msg_id
        BY <1>1, <1>5 DEF GoUp
    <2>2. low' = Position + 1
        <3>1. Position + 1 \in Nat /\ Position + 1 < Modulus
            BY <1>0, <2>1, ProbeIsInside, SearchAssumption
        <3>2. (Position + 1) % Modulus = Position + 1
            BY <3>1, NoWrap, SearchAssumption
        <3> QED
            BY <1>5, <3>2 DEF GoUp
    <2>3. Position \in low .. high /\ Position \in Nat
        BY <2>1, ProbeIsInside
    <2>4. TypeOK'
        BY <1>1, <2>1, <2>2, <2>3 DEF Inv, TypeOK, Size
    <2>5. ASSUME Ascending(data), NEW k \in DOMAIN data, data[k] = msg_id
          PROVE  k \in low' + 1 .. high' + 1
        <3>1. k \in low + 1 .. high + 1
            BY <1>1, <2>5 DEF Inv, Phases
        <3>2. k > Position + 1
            BY <2>1, <2>5, ProbeNarrows
        <3> QED
            BY <1>0, <2>1, <2>2, <2>3, <3>1, <3>2
    <2>6. Phases'
        BY <1>1, <1>2, <2>1, <2>5 DEF Phases, Size, Ascending
    <2> QED
        BY <2>1, <2>4, <2>6 DEF Inv, ScanOnlyForMissing, Answer, RemovesOnlyIt
<1>6. CASE GoDown
    <2>1. Probing /\ pc' = "search" /\ UNCHANGED <<low, index>> /\ At(Position) > msg_id
        BY <1>1, <1>6 DEF GoDown
    <2>2. Position \in low .. high /\ Position \in Nat
        BY <2>1, ProbeIsInside
    <2>3. Position > low
        <3>1. At(low) <= msg_id
            <4>1. low + 1 \in 1 .. Size
                BY <1>0, <1>2, <2>2
            <4> QED
                BY <1>0, <2>1, <4>1 DEF Probing, Outside, At
        <3>2. low + 1 \in 1 .. Size
            BY <1>0, <1>2, <2>2
        <3>3. At(low) \in Nat
            BY <1>0, <3>2 DEF At
        <3>4. Position # low
            BY <1>0, <2>1, <3>1, <3>3
        <3> QED
            BY <1>0, <2>2, <3>4
    <2>4. high' = Position - 1
        <3>1. Position - 1 \in Nat /\ Position - 1 < Modulus
            BY <1>0, <1>2, <2>2, <2>3, SearchAssumption
        <3>2. Minus(Position, 1) = Position - 1
            BY <3>1, NoWrap, SearchAssumption DEF Minus
        <3> QED
            BY <1>6, <3>2 DEF GoDown
    <2>5. high' \in Nat /\ high' < Size
        BY <1>0, <1>2, <2>2, <2>3, <2>4
    <2>6. TypeOK'
        BY <1>1, <2>1, <2>5 DEF Inv, TypeOK, Size
    <2>7. ASSUME Ascending(data), NEW k \in DOMAIN data, data[k] = msg_id
          PROVE  k \in low' + 1 .. high' + 1
        <3>1. k \in low + 1 .. high + 1
            BY <1>1, <2>7 DEF Inv, Phases
        <3>2. k < Position + 1
            BY <2>1, <2>7, ProbeNarrows
        <3> QED
            BY <1>0, <2>1, <2>2, <2>4, <3>1, <3>2
    <2>8. Phases'
        BY <1>1, <2>1, <2>5, <2>7 DEF Phases, Size, Ascending
    <2> QED
        BY <2>1, <2>6, <2>8 DEF Inv, ScanOnlyForMissing, Answer, RemovesOnlyIt
<1> QED
    BY <1>3, <1>4, <1>5, <1>6

LEMMA StartStep == ASSUME Inv, Start PROVE Inv'
<1>1. /\ Size \in Nat /\ DOMAIN data = 1 .. Size /\ MaxSize \in Nat
      /\ Size <= MaxSize /\ MaxSize < Modulus
    BY DataFacts, SearchAssumption DEF Inv, TypeOK
<1>2. UNCHANGED <<data, msg_id, remove, before, low, index>> /\ data = before /\ low = 0
    BY DEF Start, callVars, Inv, Phases
<1>3. CASE Size = 0
    <2>1. pc' = "scan" /\ UNCHANGED high /\ DOMAIN data = {}
        BY <1>1, <1>3 DEF Start
    <2> QED
        BY <1>2, <2>1 DEF Inv, TypeOK, Phases, ScanOnlyForMissing, Answer, RemovesOnlyIt, Holds, Size
<1>4. CASE Size # 0
    <2>1. Size - 1 \in Nat /\ Size - 1 < Modulus
        BY <1>1, <1>4, SearchAssumption
    <2>2. Minus(Size, 1) = Size - 1
        BY <2>1, NoWrap, SearchAssumption DEF Minus
    <2>3. pc' = "search" /\ high' = Size - 1
        BY <1>4, <2>2 DEF Start
    <2>4. DOMAIN data = low' + 1 .. high' + 1 /\ high' < Size
        BY <1>1, <1>2, <2>3
    <2>5. TypeOK'
        BY <1>2, <2>1, <2>3 DEF Inv, TypeOK, Size
    <2>6. Phases'
        BY <1>2, <2>3, <2>4 DEF Phases, Size
    <2> QED
        BY <2>3, <2>5, <2>6 DEF Inv, ScanOnlyForMissing, Answer, RemovesOnlyIt
<1> QED
    BY <1>3, <1>4

\* The first of the positions that hold the id.
LEMMA FirstHit ==
    ASSUME NEW hits \in SUBSET Nat, hits # {}
    PROVE  \E i \in hits : \A j \in hits : i <= j
<1> DEFINE less == {p \in Nat \X Nat : p[1] < p[2]}
<1>1. IsWellFoundedOn(less, Nat)
    BY NatLessThanWellFounded, Zenon DEF OpToRel
<1> HIDE DEF less
<1>2. PICK i \in hits : \A j \in hits : <<j, i>> \notin less
    BY <1>1, WFMin
<1>3. \A j \in hits : ~(j < i)
    BY <1>2 DEF less
<1> QED
    BY <1>3

LEMMA ScanStep == ASSUME Inv, Scan PROVE Inv'
<1> DEFINE hits == {i \in 0 .. Size - 1 : At(i) = msg_id}
<1>1. /\ Size \in Nat /\ DOMAIN data = 1 .. Size /\ MaxSize \in Nat /\ Size <= MaxSize
    BY DataFacts, SearchAssumption DEF Inv, TypeOK
<1>2. /\ pc' = "remove" /\ data = before
      /\ UNCHANGED <<data, msg_id, remove, before, low, high>>
    BY DEF Scan, callVars, Inv, Phases
<1>3. CASE hits = {}
    <2>1. index' = -1
        BY <1>3 DEF Scan
    <2>2. ~Holds(data, msg_id)
        <3> SUFFICES ASSUME NEW k \in DOMAIN data, data[k] = msg_id
                     PROVE  FALSE
            BY DEF Holds
        <3>1. k - 1 \in 0 .. Size - 1 /\ (k - 1) + 1 = k
            BY <1>1
        <3> QED
            BY <1>3, <3>1 DEF At
    <2>3. TypeOK'
        BY <1>1, <1>2, <2>1 DEF Inv, TypeOK, Size
    <2> QED
        BY <1>2, <2>1, <2>2, <2>3 DEF Inv, Phases, ScanOnlyForMissing, Answer, RemovesOnlyIt, Holds
<1>4. CASE hits # {}
    <2>1. hits \in SUBSET Nat
        BY <1>1
    <2>2. index' = CHOOSE i \in hits : \A j \in hits : i <= j
        BY <1>4 DEF Scan
    <2> HIDE DEF hits
    <2>3. index' \in hits
        BY <1>4, <2>1, <2>2, FirstHit
    <2>4. index' \in 0 .. Size - 1 /\ At(index') = msg_id
        BY <2>3 DEF hits
    <2>5. index' # -1 /\ index' + 1 \in 1 .. Size
        BY <1>1, <2>4, NextPlace
    <2>6. Hit'
        BY <1>1, <1>2, <2>4, <2>5 DEF Hit, At
    <2>7. TypeOK'
        BY <1>1, <1>2, <2>4 DEF Inv, TypeOK, Size
    <2> QED
        BY <1>2, <2>5, <2>6, <2>7 DEF Inv, Phases, ScanOnlyForMissing, Answer, RemovesOnlyIt
<1> QED
    BY <1>3, <1>4

\* What is left of an array when the element at place i is removed.
LEMMA RemoveAtIs ==
    ASSUME NEW S, NEW a \in Seq(S), NEW i \in 1 .. Len(a)
    PROVE  LET b == RemoveAt(a, i)
           IN  /\ b \in Seq(S) /\ Len(b) = Len(a) - 1
               /\ \A k \in 1 .. Len(a) - 1 : b[k] = IF k < i THEN a[k] ELSE a[k + 1]
<1> DEFINE front == SubSeq(a, 1, i - 1)
           rest == SubSeq(a, i + 1, Len(a))
           b == front \o rest
<1>1. /\ front \in Seq(S) /\ Len(front) = i - 1
      /\ \A k \in 1 .. i - 1 : front[k] = a[k]
    OBVIOUS
<1>2. /\ rest \in Seq(S) /\ Len(rest) = Len(a) - i
      /\ \A k \in 1 .. Len(a) - i : rest[k] = a[i + k]
    OBVIOUS
<1> HIDE DEF front, rest
<1>3. /\ b \in Seq(S) /\ Len(b) = Len(a) - 1
      /\ \A k \in 1 .. Len(a) - 1 : b[k] = IF k <= i - 1 THEN front[k] ELSE rest[k - (i - 1)]
    <2>1. /\ b \in Seq(S) /\ Len(b) = Len(front) + Len(rest)
          /\ \A k \in 1 .. Len(front) + Len(rest) :
                 b[k] = IF k <= Len(front) THEN front[k] ELSE rest[k - Len(front)]
        BY <1>1, <1>2, ConcatProperties
    <2>2. Len(a) \in Nat /\ Len(front) + Len(rest) = Len(a) - 1
        BY <1>1, <1>2
    <2> QED
        BY <1>1, <2>1, <2>2
<1> HIDE DEF b
<1>4. ASSUME NEW k \in 1 .. Len(a) - 1
      PROVE  b[k] = IF k < i THEN a[k] ELSE a[k + 1]
    <2>1. CASE k < i
        BY <1>1, <1>3, <2>1
    <2>2. CASE ~(k < i)
        <3>1. k - (i - 1) \in 1 .. Len(a) - i /\ i + (k - (i - 1)) = k + 1
            BY <2>2
        <3> QED
            BY <1>2, <1>3, <2>2, <3>1
    <2> QED
        BY <2>1, <2>2
<1>5. RemoveAt(a, i) = b
    BY DEF RemoveAt, b, front, rest
<1> QED
    BY <1>3, <1>4, <1>5

\* Removed from an ascending array it leaves the others, in order.
LEMMA RemovedFromAscending ==
    ASSUME NEW a \in Seq(Values), Ascending(a), NEW i \in 1 .. Len(a)
    PROVE  LET b == RemoveAt(a, i)
           IN  /\ Ascending(b)
               /\ \A id \in Values : Holds(b, id) <=> Holds(a, id) /\ id # a[i]
<1> DEFINE b == RemoveAt(a, i)
<1>1. /\ b \in Seq(Values) /\ Len(b) = Len(a) - 1
      /\ \A k \in 1 .. Len(a) - 1 : b[k] = IF k < i THEN a[k] ELSE a[k + 1]
    BY RemoveAtIs
<1> HIDE DEF b
<1>2. DOMAIN a = 1 .. Len(a) /\ DOMAIN b = 1 .. Len(a) - 1 /\ Len(a) \in Nat
    BY <1>1
<1>3. \A k \in 1 .. Len(a) : a[k] \in Nat
    <2>1. Values \subseteq Nat
        BY SearchAssumption
    <2>2. \A k \in 1 .. Len(a) : a[k] \in Values
        OBVIOUS
    <2> QED
        BY <2>1, <2>2
<1>4. Ascending(b)
    <2> SUFFICES ASSUME NEW k \in 1 .. Len(a) - 1, NEW l \in 1 .. Len(a) - 1, k < l
                 PROVE  b[k] < b[l]
        BY <1>2 DEF Ascending
    <2>1. /\ k \in DOMAIN a /\ k + 1 \in DOMAIN a /\ l \in DOMAIN a /\ l + 1 \in DOMAIN a
          /\ k < l + 1 /\ k + 1 < l + 1
        BY <1>2
    <2>2. a[k] < a[l] /\ a[k] < a[l + 1] /\ a[k + 1] < a[l + 1]
        BY <2>1 DEF Ascending
    <2>3. CASE k < i /\ l < i
        BY <1>1, <2>2, <2>3
    <2>4. CASE k < i /\ ~(l < i)
        BY <1>1, <2>2, <2>4
    <2>5. CASE ~(k < i)
        <3>1. ~(l < i)
            BY <2>5
        <3> QED
            BY <1>1, <2>2, <2>5, <3>1
    <2> QED
        BY <2>3, <2>4, <2>5
<1>5. ASSUME NEW id \in Values, Holds(b, id)
      PROVE  Holds(a, id) /\ id # a[i]
    <2>1. PICK k \in 1 .. Len(a) - 1 : b[k] = id
        BY <1>2, <1>5 DEF Holds
    <2>2. CASE k < i
        <3>1. k \in DOMAIN a /\ a[k] = id /\ i \in DOMAIN a
            BY <1>1, <1>2, <2>1, <2>2
        <3>2. a[k] < a[i] /\ a[k] \in Nat /\ a[i] \in Nat
            BY <1>2, <1>3, <2>2, <3>1 DEF Ascending
        <3> QED
            BY <3>1, <3>2 DEF Holds
    <2>3. CASE ~(k < i)
        <3>1. k + 1 \in DOMAIN a /\ a[k + 1] = id /\ i \in DOMAIN a /\ i < k + 1
            BY <1>1, <1>2, <2>1, <2>3
        <3>2. a[i] < a[k + 1] /\ a[k + 1] \in Nat /\ a[i] \in Nat
            BY <1>2, <1>3, <3>1 DEF Ascending
        <3> QED
            BY <3>1, <3>2 DEF Holds
    <2> QED
        BY <2>2, <2>3
<1>6. ASSUME NEW id \in Values, Holds(a, id), id # a[i]
      PROVE  Holds(b, id)
    <2>1. PICK k \in 1 .. Len(a) : a[k] = id
        BY <1>2, <1>6 DEF Holds
    <2>2. CASE k < i
        <3>1. k \in DOMAIN b /\ b[k] = id
            BY <1>1, <1>2, <2>1, <2>2
        <3> QED
            BY <3>1 DEF Holds
    <2>3. CASE k > i
        <3>1. k - 1 \in 1 .. Len(a) - 1 /\ ~(k - 1 < i) /\ (k - 1) + 1 = k
            BY <1>2, <2>3
        <3>2. k - 1 \in DOMAIN b /\ b[k - 1] = id
            BY <1>1, <1>2, <2>1, <3>1
        <3> QED
            BY <3>2 DEF Holds
    <2> QED
        BY <1>6, <2>1, <2>2, <2>3
<1> QED
    BY <1>4, <1>5, <1>6 DEF b

LEMMA RemoveStep == ASSUME Inv, RemoveFound PROVE Inv'
<1>1. /\ pc = "remove" /\ pc' = "done" /\ data = before
      /\ UNCHANGED <<msg_id, remove, before, low, high, index>>
    BY DEF RemoveFound, callVars, Inv, Phases
<1>2. Answer'
    BY <1>1 DEF Inv, Phases, Answer, Hit
<1>3. data' \in Seq(Values) /\ Len(data') <= MaxSize
    <2>1. data \in Seq(Values) /\ Len(data) \in Nat /\ Len(data) <= MaxSize /\ MaxSize \in Nat
        BY SearchAssumption DEF Inv, TypeOK, Size
    <2>2. CASE data' = data
        BY <2>1, <2>2
    <2>3. CASE index # -1 /\ data' = RemoveAt(data, index + 1)
        <3>1. index + 1 \in 1 .. Len(data)
            BY <1>1, <2>1, <2>3 DEF Inv, Phases, Hit
        <3> QED
            BY <2>1, <2>3, <3>1 DEF RemoveAt
    <2> QED
        BY <2>2, <2>3 DEF RemoveFound
<1>4. ASSUME remove, Ascending(before)
      PROVE  /\ Ascending(data')
             /\ \A id \in Values : Holds(data', id) <=> Holds(before, id) /\ id # msg_id
    <2>1. data \in Seq(Values) /\ DOMAIN data = 1 .. Len(data)
        BY DEF Inv, TypeOK
    <2>2. CASE index = -1
        <3>1. data' = data /\ ~Holds(data, msg_id)
            BY <1>1, <2>2 DEF RemoveFound, Inv, Phases
        <3> QED
            BY <1>1, <1>4, <3>1
    <2>3. CASE index # -1
        <3>1. /\ index + 1 \in 1 .. Len(data) /\ data[index + 1] = msg_id
              /\ data' = RemoveAt(data, index + 1)
            BY <1>1, <1>4, <2>1, <2>3 DEF RemoveFound, Inv, Phases, Hit
        <3>2. Ascending(data)
            BY <1>1, <1>4
        <3> QED
            BY <1>1, <2>1, <3>1, <3>2, RemovedFromAscending
    <2> QED
        BY <2>2, <2>3
<1>5. RemovesOnlyIt'
    BY <1>1, <1>4 DEF RemovesOnlyIt
<1> QED
    BY <1>1, <1>2, <1>3, <1>5 DEF Inv, TypeOK, Phases, ScanOnlyForMissing, Size
-----------------------------------------------------------------------------
LEMMA Invariant == Spec => []Inv
<1>1. Inv /\ [Next]_vars => Inv'
    <2> SUFFICES ASSUME Inv, [Next]_vars
                 PROVE  Inv'
        OBVIOUS
    <2>1. CASE UNCHANGED vars
        BY <2>1 DEF vars, Inv, TypeOK, Phases, ScanOnlyForMissing, Answer, RemovesOnlyIt, Hit, Size,
           Holds, Ascending
    <2> QED
        BY <2>1, StartStep, LoopStep, ScanStep, RemoveStep DEF Next
<1> QED
    BY <1>1, InitInv, PTL DEF Spec

\* The variables have their types: no index and no bound of the search leaves the
\* range of the array.
THEOREM SearchTypes == Spec => []TypeOK
BY Invariant, PTL DEF Inv

\* The loop reads only elements that exist, in whatever order the ids are, and
\* although the product that places the probe may overflow.
THEOREM SearchReadsInBounds == Spec => []ReadsInBounds
<1>1. Inv => ReadsInBounds
    BY ProbeIsInside DEF Inv, Phases, ReadsInBounds
<1> QED
    BY <1>1, Invariant, PTL

\* On ascending ids interpolation alone finds what is there.
THEOREM InterpolationFinds == Spec => []ScanOnlyForMissing
BY Invariant, PTL DEF Inv

\* The index returned is one of the id's, and -1 only if it has none.
THEOREM AnswerIsRight == Spec => []Answer
BY Invariant, PTL DEF Inv

\* From ascending ids exactly the one asked for is removed, and the others stay
\* in order.
THEOREM RemovesTheOneId == Spec => []RemovesOnlyIt
BY Invariant, PTL DEF Inv
=============================================================================
