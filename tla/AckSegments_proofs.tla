------------------------- MODULE AckSegments_proofs -------------------------
(***************************************************************************)
(* For every size of the segments and every length of the ids: nothing is  *)
(* written out of bounds, and an acknowledgement names every id once, in   *)
(* no more packets than it needs.                                          *)
(***************************************************************************)
EXTENDS AckSegments, TLAPS

\* The segments s and the one after them, c, hold the ids 1..c.last.
Chain(s, c) ==
    /\ \A k \in DOMAIN s : s[k].first <= s[k].last /\ s[k].size <= MaxSegmentSize
    /\ \A k \in 1 .. Len(s) - 1 : Follows(s[k], s[k + 1])
    /\ s = <<>> => c.first = 1
    /\ s # <<>> => s[1].first = 1 /\ Follows(s[Len(s)], c)
    /\ Len(s) < c.first

\* No two neighbours of s fit in one segment, and neither do the last and the id i.
Tight(s, i) ==
    /\ \A k \in 1 .. Len(s) - 1 : s[k].size + 1 + ids[s[k + 1].first] > MaxSegmentSize
    /\ s # <<>> => s[Len(s)].size + 1 + ids[i] > MaxSegmentSize

\* Only the first token may still be missing.
CurFilled ==
    /\ cur.last <= Len(ids)
    /\ cur.size <= MaxSegmentSize
    /\ \/ cur = EmptyFrom(1) /\ segs = <<>>
       \/ cur.first <= cur.last /\ cur.size > 0

\* Where the splitting is.
SplitInvariant ==
    /\ pc = "receive" => segs = <<>> /\ cur = EmptyFrom(1) /\ ~failed /\ ~dangling /\ slots = 0
    /\ pc = "split" =>
           /\ ids # <<>> /\ slots = Len(ids) /\ ~failed /\ ~dangling
           /\ CurFilled
           /\ Chain(segs, cur)
           /\ Tight(segs, cur.first)
    /\ dangling => failed

IInv ==
    /\ TypeOK
    /\ SplitInvariant
    /\ InBounds
    /\ EveryIdOnce
    /\ NoneToSpare

-----------------------------------------------------------------------------
\* One more than its half is added to a capacity of two or more: room for an id.
LEMMA GrowthHasRoom ==
    ASSUME NEW c \in Nat, c >= 2
    PROVE  Grown(c) \in Nat /\ Grown(c) > c
  BY DEF Grown

LEMMA EmptyIsSegment == EmptyFrom(1) \in Segment
  BY DEF EmptyFrom, Segment

LEMMA EmptySequences == <<>> \in Seq(Lengths) /\ <<>> \in Seq(Segment)
  OBVIOUS

\* An id fits in a segment.
LEMMA LengthType ==
    ASSUME NEW l \in Lengths
    PROVE  l \in Nat /\ l > 0 /\ l <= MaxSegmentSize
<1>1. Lengths \subseteq 1 .. MaxSegmentSize /\ MaxSegmentSize \in Nat
  BY SegmentsAssumption
<1>2. l \in 1 .. MaxSegmentSize
  BY <1>1
<1> QED
  BY <1>1, <1>2

LEMMA InitInvariant == Init => IInv
<1> SUFFICES ASSUME Init PROVE IInv
  OBVIOUS
<1>1. Len(ids) = 0 /\ Len(segs) = 0 /\ DOMAIN segs = {} /\ cur.size = 0
  BY DEF Init, EmptyFrom
<1>2. TypeOK
  <2>1. capacity \in Nat /\ capacity >= InitialCapacity
    BY SegmentsAssumption DEF Init
  <2> QED
    BY <2>1, EmptyIsSegment, EmptySequences DEF Init, TypeOK
<1>3. SplitInvariant /\ EveryIdOnce /\ NoneToSpare
  BY DEF Init, SplitInvariant, EveryIdOnce, NoneToSpare
<1>4. InBounds
  BY <1>1, SegmentsAssumption DEF Init, InBounds
<1> QED
  BY <1>2, <1>3, <1>4 DEF IInv

\* What a token is, where there is one.
LEMMA TokenType ==
    ASSUME IInv, HasToken
    PROVE  /\ Token \in 1 .. MaxSegmentSize
           /\ cur.last + 1 \in DOMAIN ids
           /\ cur.first \in Nat \ {0} /\ cur.last \in Nat /\ cur.size \in Nat
           /\ SizeWith(Token) \in Nat
<1>1. ids \in Seq(Lengths) /\ cur \in Segment /\ cur.last < Len(ids)
  BY DEF IInv, TypeOK, HasToken
<1>2. cur.first \in Nat \ {0} /\ cur.last \in Nat /\ cur.size \in Nat
  BY <1>1 DEF Segment
<1>3. cur.last + 1 \in DOMAIN ids
  BY <1>1, <1>2
<1>4. Token \in 1 .. MaxSegmentSize
  <2>1. Token \in Lengths
    BY <1>1, <1>3 DEF Token
  <2> QED
    BY <2>1, LengthType, SegmentsAssumption
<1>5. SizeWith(Token) \in Nat
  BY <1>2, <1>4, SegmentsAssumption DEF SizeWith
<1> QED
  BY <1>2, <1>3, <1>4, <1>5

LEMMA AddPreserves ==
    ASSUME IInv, NEW l \in Lengths, Add(l)
    PROVE  IInv'
<1>1. capacity' \in Nat /\ capacity' >= InitialCapacity /\ Len(ids') <= capacity'
  <2>1. capacity \in Nat /\ capacity >= InitialCapacity /\ capacity >= 2
    BY SegmentsAssumption DEF IInv, TypeOK
  <2>2. Len(ids) \in Nat /\ Len(ids) <= capacity /\ Len(ids') = Len(ids) + 1
    BY DEF IInv, TypeOK, InBounds, Add
  <2>3. Grown(capacity) \in Nat /\ Grown(capacity) > capacity
    BY <2>1, GrowthHasRoom
  <2>4. capacity' = IF Len(ids) = capacity THEN Grown(capacity) ELSE capacity
    BY DEF Add
  <2> QED
    BY <2>1, <2>2, <2>3, <2>4, SegmentsAssumption
<1>2. TypeOK'
  BY <1>1 DEF IInv, TypeOK, Add, splitVars
<1>3. SplitInvariant'
  BY DEF IInv, SplitInvariant, Add, splitVars
<1>4. InBounds' /\ EveryIdOnce' /\ NoneToSpare'
  BY <1>1 DEF IInv, InBounds, EveryIdOnce, NoneToSpare, SplitInvariant, Add, splitVars
<1> QED
  BY <1>2, <1>3, <1>4 DEF IInv

LEMMA NoSegmentsPreserves ==
    ASSUME IInv, NEW outOfMemory \in BOOLEAN, NoSegments(outOfMemory)
    PROVE  IInv'
<1>1. ~TooLong
  <2>1. SUFFICES ASSUME Len(ids) = 1, ids[1] > MaxSegmentSize PROVE FALSE
    BY DEF TooLong
  <2>2. ids[1] \in Lengths
    <3>1. ids \in Seq(Lengths)
      BY DEF IInv, TypeOK
    <3>2. 1 \in 1 .. Len(ids)
      BY <2>1
    <3> QED
      BY <3>1, <3>2
  <2>3. ids[1] \in Nat /\ ids[1] <= MaxSegmentSize
    BY <2>2, LengthType
  <2>4. MaxSegmentSize \in Nat
    BY SegmentsAssumption
  <2> QED
    BY <2>1, <2>3, <2>4
<1>2. /\ pc = "receive" /\ pc' = "send" /\ failed' = outOfMemory
      /\ UNCHANGED <<ids, capacity, dangling, slots, segs, cur>> /\ ~dangling
      /\ segs = <<>> /\ (~outOfMemory => ids = <<>>)
  BY <1>1 DEF NoSegments, IInv, SplitInvariant
<1>3. TypeOK' /\ SplitInvariant' /\ InBounds' /\ NoneToSpare'
  BY <1>2 DEF IInv, TypeOK, SplitInvariant, InBounds, NoneToSpare
<1>4. EveryIdOnce'
  BY <1>2 DEF EveryIdOnce, Cuts
<1> QED
  BY <1>3, <1>4 DEF IInv

LEMMA FirstSegmentFailsPreserves ==
    ASSUME IInv, FirstSegmentFails
    PROVE  IInv'
  BY DEF IInv, TypeOK, SplitInvariant, InBounds, EveryIdOnce, NoneToSpare, FirstSegmentFails

LEMMA BeginSplitPreserves ==
    ASSUME IInv, BeginSplit
    PROVE  IInv'
<1>1. TypeOK' /\ InBounds' /\ EveryIdOnce' /\ NoneToSpare'
  BY DEF IInv, TypeOK, InBounds, EveryIdOnce, NoneToSpare, SplitInvariant, BeginSplit
<1>2. CurFilled'
  BY SegmentsAssumption DEF IInv, TypeOK, CurFilled, SplitInvariant, BeginSplit, EmptyFrom
<1>3. Chain(segs, cur)' /\ Tight(segs, cur.first)'
  BY DEF IInv, SplitInvariant, BeginSplit, Chain, Tight, EmptyFrom
<1>4. SplitInvariant'
  BY <1>2, <1>3 DEF IInv, SplitInvariant, BeginSplit
<1> QED
  BY <1>1, <1>4 DEF IInv

LEMMA AddTokenPreserves ==
    ASSUME IInv, AddToken
    PROVE  IInv'
<1>1. /\ pc = "split" /\ cur.last < Len(ids)
      /\ UNCHANGED <<pc, ids, capacity, failed, dangling, slots, segs>>
      /\ CurFilled /\ Chain(segs, cur) /\ Tight(segs, cur.first)
      /\ ids # <<>> /\ slots = Len(ids) /\ ~failed /\ ~dangling
  BY DEF IInv, SplitInvariant, AddToken, HasToken
<1>2. /\ cur'.first = cur.first /\ cur'.last = cur.last + 1 /\ cur'.size = SizeWith(Token)
      /\ cur' \in Segment
      /\ SizeWith(Token) > 0 /\ SizeWith(Token) <= MaxSegmentSize
  <2>1. /\ HasToken /\ Fits(Token) /\ cur \in Segment
        /\ cur' = [cur EXCEPT !.last = @ + 1, !.size = SizeWith(Token)]
    BY DEF AddToken, IInv, TypeOK
  <2>2. SizeWith(Token) > 0 /\ SizeWith(Token) <= MaxSegmentSize
    BY <2>1, TokenType, SegmentsAssumption DEF SizeWith, Fits
  <2>3. SizeWith(Token) \in Nat
    BY <2>1, TokenType
  <2> QED
    <3>1. cur'.first = cur.first /\ cur'.last = cur.last + 1 /\ cur'.size = SizeWith(Token)
      BY <2>1 DEF Segment
    <3>2. cur' = [first |-> cur.first, last |-> cur.last + 1, size |-> SizeWith(Token)]
      BY <2>1 DEF Segment
    <3>3. cur' \in Segment
      BY <2>1, <2>3, <3>2 DEF Segment
    <3> QED
      BY <2>2, <3>1, <3>3
<1>3. TypeOK' /\ InBounds'
  BY <1>1, <1>2 DEF IInv, TypeOK, InBounds
<1>4. EveryIdOnce' /\ NoneToSpare'
  BY <1>1 DEF EveryIdOnce, NoneToSpare
<1>5. CurFilled'
  BY <1>1, <1>2, TokenType DEF CurFilled, EmptyFrom, AddToken
<1>6. Chain(segs, cur)' /\ Tight(segs, cur.first)'
  BY <1>1, <1>2 DEF Chain, Tight, Follows
<1>7. SplitInvariant'
  BY <1>1, <1>5, <1>6 DEF SplitInvariant
<1> QED
  BY <1>3, <1>4, <1>7 DEF IInv

\* A segment that is finished holds an id, for every id fits in an empty one.
LEMMA FinishedNotEmpty ==
    ASSUME IInv, HasToken, ~Fits(Token)
    PROVE  cur.first <= cur.last /\ cur.size > 0
  BY TokenType DEF IInv, SplitInvariant, HasToken, CurFilled, Fits, SizeWith, EmptyFrom

LEMMA NextSegmentPreserves ==
    ASSUME IInv, NextSegment
    PROVE  IInv'
<1>1. /\ pc = "split" /\ cur.last < Len(ids)
      /\ UNCHANGED <<pc, ids, capacity, failed, dangling, slots>>
      /\ segs' = Append(segs, cur)
      /\ CurFilled /\ Chain(segs, cur) /\ Tight(segs, cur.first)
      /\ ids # <<>> /\ slots = Len(ids) /\ ~failed /\ ~dangling
      /\ ids \in Seq(Lengths) /\ segs \in Seq(Segment) /\ cur \in Segment
  BY DEF IInv, TypeOK, SplitInvariant, NextSegment, HasToken
<1>2. cur.first <= cur.last /\ cur.size > 0
  BY FinishedNotEmpty DEF NextSegment
<1>3. /\ cur'.first = cur.last + 1 /\ cur'.last = cur.last + 1 /\ cur'.size = Token
      /\ cur' \in Segment
      /\ Token \in 1 .. MaxSegmentSize
  BY TokenType DEF NextSegment, Segment
<1>4. cur.size + 1 + ids[cur.last + 1] > MaxSegmentSize
  BY <1>2, TokenType, SegmentsAssumption DEF NextSegment, Fits, SizeWith, Token
<1>5. /\ Len(segs') = Len(segs) + 1
      /\ \A k \in DOMAIN segs : segs'[k] = segs[k]
      /\ segs'[Len(segs) + 1] = cur
      /\ DOMAIN segs' = 1 .. Len(segs) + 1 /\ DOMAIN segs = 1 .. Len(segs)
      /\ segs' # <<>> /\ Len(segs) \in Nat
      /\ segs' \in Seq(Segment)
  BY <1>1
<1>6. Chain(segs, cur)'
  <2>1. \A k \in DOMAIN segs' : segs'[k].first <= segs'[k].last /\ segs'[k].size <= MaxSegmentSize
    BY <1>1, <1>2, <1>5 DEF Chain, CurFilled
  <2>2. \A k \in 1 .. Len(segs') - 1 : Follows(segs'[k], segs'[k + 1])
    BY <1>1, <1>5 DEF Chain, Follows
  <2>3. segs'[1].first = 1
    BY <1>1, <1>5 DEF Chain
  <2>4. Follows(segs'[Len(segs')], cur') /\ Len(segs') < cur'.first
    BY <1>1, <1>2, <1>3, <1>5 DEF Chain, Follows, Segment
  <2> QED
    BY <1>5, <2>1, <2>2, <2>3, <2>4 DEF Chain
<1>7. Tight(segs, cur.first)'
  BY <1>1, <1>3, <1>4, <1>5 DEF Tight
<1>8. CurFilled'
  <2>1. cur'.last <= Len(ids') /\ cur'.first <= cur'.last
    BY <1>1, <1>3 DEF Segment
  <2>2. cur'.size <= MaxSegmentSize /\ cur'.size > 0
    BY <1>3, SegmentsAssumption
  <2> QED
    BY <2>1, <2>2 DEF CurFilled
<1>9. TypeOK'
  BY <1>1, <1>3, <1>5 DEF IInv, TypeOK
<1>10. InBounds'
  <2>1. Len(segs') <= slots
    <3>1. Len(segs) + 1 <= cur.first /\ cur.last <= Len(ids)
      BY <1>1 DEF Chain, Segment
    <3> QED
      BY <1>1, <1>2, <1>5, <3>1 DEF Segment
  <2>2. \A k \in DOMAIN segs' : segs'[k].size <= MaxSegmentSize
    BY <1>1, <1>5 DEF Chain, CurFilled
  <2>3. cur'.size <= MaxSegmentSize
    BY <1>3, SegmentsAssumption
  <2> QED
    BY <1>1, <2>1, <2>2, <2>3 DEF IInv, InBounds
<1>11. EveryIdOnce' /\ NoneToSpare'
  BY <1>1 DEF EveryIdOnce, NoneToSpare
<1>12. SplitInvariant'
  BY <1>1, <1>6, <1>7, <1>8 DEF SplitInvariant
<1> QED
  BY <1>9, <1>10, <1>11, <1>12 DEF IInv

LEMMA NextSegmentFailsPreserves ==
    ASSUME IInv, NextSegmentFails
    PROVE  IInv'
  BY DEF IInv, TypeOK, SplitInvariant, InBounds, EveryIdOnce, NoneToSpare, NextSegmentFails

LEMMA LastSegmentPreserves ==
    ASSUME IInv, LastSegment
    PROVE  IInv'
<1>1. /\ pc = "split" /\ pc' = "send" /\ cur.last = Len(ids)
      /\ UNCHANGED <<ids, capacity, failed, dangling, slots, cur>>
      /\ segs' = Append(segs, cur)
      /\ CurFilled /\ Chain(segs, cur) /\ Tight(segs, cur.first)
      /\ ids # <<>> /\ slots = Len(ids) /\ ~failed /\ ~dangling
      /\ ids \in Seq(Lengths) /\ segs \in Seq(Segment) /\ cur \in Segment
  BY DEF IInv, TypeOK, SplitInvariant, LastSegment
<1>2. cur.first <= cur.last /\ cur.first \in Nat /\ Len(ids) > 0
  BY <1>1 DEF CurFilled, EmptyFrom, Segment
<1>3. /\ Len(segs') = Len(segs) + 1
      /\ \A k \in DOMAIN segs : segs'[k] = segs[k]
      /\ segs'[Len(segs) + 1] = cur
      /\ DOMAIN segs' = 1 .. Len(segs) + 1 /\ DOMAIN segs = 1 .. Len(segs)
      /\ segs' # <<>> /\ Len(segs) \in Nat
      /\ segs' \in Seq(Segment)
  BY <1>1
<1>4. TypeOK' /\ SplitInvariant'
  BY <1>1, <1>3 DEF IInv, TypeOK, SplitInvariant
<1>5. InBounds'
  BY <1>1, <1>2, <1>3 DEF IInv, InBounds, Chain, CurFilled
<1>6. Cuts(segs', Len(ids))
  <2>1. \A k \in DOMAIN segs' : segs'[k].first <= segs'[k].last
    BY <1>1, <1>2, <1>3 DEF Chain
  <2>2. \A k \in 1 .. Len(segs') - 1 : Follows(segs'[k], segs'[k + 1])
    BY <1>1, <1>3 DEF Chain, Follows
  <2>3. segs'[1].first = 1 /\ segs'[Len(segs')].last = Len(ids)
    BY <1>1, <1>3 DEF Chain
  <2> QED
    BY <1>2, <1>3, <2>1, <2>2, <2>3 DEF Cuts
<1>7. EveryIdOnce'
  BY <1>1, <1>6 DEF EveryIdOnce
<1>8. NoneToSpare'
  BY <1>1, <1>3 DEF NoneToSpare, Tight
<1> QED
  BY <1>4, <1>5, <1>7, <1>8 DEF IInv

LEMMA AnswerPreserves ==
    ASSUME IInv, Answer
    PROVE  IInv'
<1>1. /\ pc' = "receive" /\ ids' = <<>> /\ segs' = <<>> /\ slots' = 0
      /\ failed' = FALSE /\ dangling' = FALSE /\ cur' = EmptyFrom(1) /\ capacity' = capacity
  BY DEF Answer
<1>2. Len(ids') = 0 /\ Len(segs') = 0 /\ DOMAIN segs' = {} /\ cur'.size = 0
  BY <1>1 DEF EmptyFrom
<1>3. TypeOK'
  BY <1>1, EmptyIsSegment, EmptySequences DEF IInv, TypeOK
<1>4. SplitInvariant' /\ EveryIdOnce' /\ NoneToSpare'
  BY <1>1 DEF SplitInvariant, EveryIdOnce, NoneToSpare
<1>5. InBounds'
  BY <1>1, <1>2, SegmentsAssumption DEF IInv, TypeOK, InBounds
<1> QED
  BY <1>3, <1>4, <1>5 DEF IInv

LEMMA FreeTwicePreserves ==
    ASSUME IInv, FreeTwice
    PROVE  IInv'
  BY DEF IInv, TypeOK, SplitInvariant, InBounds, EveryIdOnce, NoneToSpare, FreeTwice, splitVars

LEMMA StutterPreserves ==
    ASSUME IInv, UNCHANGED vars
    PROVE  IInv'
<1> USE DEF vars
<1>1. TypeOK' /\ InBounds' /\ EveryIdOnce' /\ NoneToSpare'
  BY DEF IInv, TypeOK, InBounds, EveryIdOnce, NoneToSpare
<1>2. SplitInvariant'
  BY DEF IInv, SplitInvariant, CurFilled, Chain, Tight
<1> QED
  BY <1>1, <1>2 DEF IInv

\* The invariant that carries the four theorems.
THEOREM SegmentsInvariant == Spec => []IInv
<1>1. IInv /\ [Next]_vars => IInv'
  BY AddPreserves, NoSegmentsPreserves, FirstSegmentFailsPreserves, FreeTwicePreserves,
     BeginSplitPreserves, AddTokenPreserves,
     NextSegmentPreserves, NextSegmentFailsPreserves, LastSegmentPreserves,
     AnswerPreserves, StutterPreserves DEF Next, SplitSteps
<1> QED
  BY InitInvariant, <1>1, PTL DEF Spec

\* The indices that resize_dynamic_array and split_buffer keep stay within their
\* types, however many ids come and wherever memory runs out.
THEOREM SegmentsTypes == Spec => []TypeOK
<1>1. IInv => TypeOK
  BY DEF IInv
<1> QED
  BY SegmentsInvariant, <1>1, PTL

\* resize_dynamic_array and split_buffer allocate enough for what is written later.
THEOREM SegmentsInBounds == Spec => []InBounds
<1>1. IInv => InBounds
  BY DEF IInv
<1> QED
  BY SegmentsInvariant, <1>1, PTL

\* split_buffer cuts the ids of g_array into segments, none of them lost or doubled,
\* or gives up altogether; only then may it leave free_segment_array a dangling pointer.
THEOREM AcknowledgedOnce == Spec => []EveryIdOnce
<1>1. IInv => EveryIdOnce
  BY DEF IInv
<1> QED
  BY SegmentsInvariant, <1>1, PTL

\* split_buffer fills a segment before it begins another.
THEOREM SegmentsFull == Spec => []NoneToSpare
<1>1. IInv => NoneToSpare
  BY DEF IInv
<1> QED
  BY SegmentsInvariant, <1>1, PTL
=============================================================================
