------------------------- MODULE PhiDetector_proofs -------------------------
(***************************************************************************)
(* Proofs about module PhiDetector, for any number of client threads, any  *)
(* first estimate and any counts of missed messages: types, that one       *)
(* thread at a time stores its copy of the state, and that a heartbeat     *)
(* runs into undefined behaviour only when another wrote to the state or   *)
(* the clock was set back.                                                 *)
(***************************************************************************)
EXTENDS PhiDetector, TLAPS

-----------------------------------------------------------------------------
(***************************************************************************)
(* The operators                                                           *)
(***************************************************************************)

LEMMA ProductIsNat ==
    ASSUME NEW m \in Nat, NEW n \in Nat
    PROVE  m * n \in Nat
OBVIOUS

\* A scaled level does not fall below zero, however many messages are missed.
LEMMA ScaledIsNat ==
    ASSUME NEW level \in Nat, NEW missed \in Nat
    PROVE  Scaled(level, missed) \in Nat
<1> DEFINE percent == IF missed = 0 THEN 105 ELSE IF missed > 20 THEN 0 ELSE 100 - 5 * missed
<1>1. percent \in Nat
    OBVIOUS
<1> HIDE DEF percent
<1>2. level * percent \in Nat
    BY <1>1, ProductIsNat
<1>3. \A n \in Nat : n \div 100 \in Nat
    OBVIOUS
<1>4. (level * percent) \div 100 \in Nat
    BY <1>2, <1>3
<1> QED
    BY <1>4 DEF Scaled, percent
-----------------------------------------------------------------------------
(***************************************************************************)
(* Types                                                                   *)
(***************************************************************************)

LEMMA InitType == Init => TypeOK
<1> SUFFICES ASSUME Init
             PROVE  TypeOK
    OBVIOUS
<1>1. now = 1 /\ timestamp = 0 /\ intervals \in Nat /\ sum \in Nat
    BY DEF Init, First
<1> QED
    BY <1>1, DetectorAssumption DEF Init, TypeOK, NoStamp, NoState, NoCopy, First

LEMMA StateType ==
    ASSUME TypeOK
    PROVE  /\ now \in 0 .. MaxTime
           /\ state \in (0 .. MaxTime) \X Nat \X Nat
           /\ <<timestamp, First, First>> \in (0 .. MaxTime) \X Nat \X Nat
           /\ NoState \in (0 .. MaxTime) \X Nat \X Nat /\ NoStamp \in 0 .. MaxTime
<1>0. 0 \in 0 .. MaxTime
    BY DetectorAssumption
<1>1. timestamp \in 0 .. MaxTime /\ intervals \in Nat /\ sum \in Nat /\ First \in Nat
    BY DEF TypeOK, First
<1>2. now \in 1 .. MaxTime
    BY DEF TypeOK
<1>3. now \in 0 .. MaxTime
    BY <1>2
<1> QED
    BY <1>0, <1>1, <1>3 DEF state, NoState, NoStamp

\* Every place is one of send_heartbeat, and a race is noted or not.
LEMMA GotoType ==
    ASSUME TypeOK, NEW t \in Threads,
           NEW label \in {"idle", "beat", "copy", "copy more", "swap", "store", "store more",
                          "wild"},
           Goto(t, label)
    PROVE  /\ dpc' \in [Threads -> {"start", "idle", "beat", "copy", "copy more", "swap",
                                    "store", "store more", "wild"}]
           /\ dpc'[t] = label
           /\ \A u \in Threads : u # t => dpc'[u] = dpc[u]
<1>1. dpc \in [Threads -> {"start", "idle", "beat", "copy", "copy more", "swap", "store",
                           "store more", "wild"}]
    BY DEF TypeOK
<1> QED
    BY <1>1 DEF Goto

LEMMA RaceType ==
    ASSUME TypeOK
    PROVE  /\ \A t \in Threads : Race(t) => raced' \in [Threads -> BOOLEAN]
           /\ RaceAll => raced' \in [Threads -> BOOLEAN]
<1>1. raced \in [Threads -> BOOLEAN]
    BY DEF TypeOK
<1>2. \A u \in Threads : raced[u] \in BOOLEAN /\ (raced[u] \/ InHeartbeat(u)) \in BOOLEAN
    BY <1>1 DEF InHeartbeat
<1>3. ASSUME NEW t \in Threads, Race(t)
      PROVE  raced' \in [Threads -> BOOLEAN]
    BY <1>2, <1>3 DEF Race
<1>4. ASSUME RaceAll
      PROVE  raced' \in [Threads -> BOOLEAN]
    BY <1>2, <1>4 DEF RaceAll
<1> QED
    BY <1>3, <1>4

LEMMA BeatType ==
    ASSUME TypeOK, NEW t \in Threads, Beating(t)
    PROVE  TypeOK'
<1>1. CASE BeatFirst(t)
    <2>1. dpc' \in [Threads -> {"start", "idle", "beat", "copy", "copy more", "swap", "store",
                                "store more", "wild"}]
        BY <1>1, GotoType DEF BeatFirst
    <2>2. raced' \in [Threads -> BOOLEAN]
        BY <1>1, RaceType DEF BeatFirst
    <2>3. stamp' \in [Threads -> 0 .. MaxTime]
        BY <1>1, StateType DEF BeatFirst, EnterBeat, TypeOK
    <2>4. seen' \in [Threads -> (0 .. MaxTime) \X Nat \X Nat]
        BY <1>1, StateType DEF BeatFirst, TypeOK
    <2>5. intervals' \in Nat /\ sum' \in Nat
        BY <1>1 DEF BeatFirst, First
    <2> QED
        BY <1>1, <2>1, <2>2, <2>3, <2>4, <2>5 DEF BeatFirst, EnterBeat, TypeOK
<1>2. CASE BeatAgain(t) \/ BeatWild(t)
    <2>1. dpc' \in [Threads -> {"start", "idle", "beat", "copy", "copy more", "swap", "store",
                                "store more", "wild"}]
        BY <1>2, GotoType DEF BeatAgain, BeatWild
    <2>2. stamp' \in [Threads -> 0 .. MaxTime]
        BY <1>2, StateType DEF BeatAgain, BeatWild, EnterBeat, TypeOK
    <2>3. seen' = seen \/ seen' = [seen EXCEPT ![t] = state]
        BY <1>2 DEF BeatAgain, BeatWild
    <2>4. seen' \in [Threads -> (0 .. MaxTime) \X Nat \X Nat]
        BY <2>3, StateType DEF TypeOK
    <2> QED
        BY <1>2, <2>1, <2>2, <2>4 DEF BeatAgain, BeatWild, EnterBeat, TypeOK, state
<1> USE DEF TypeOK, Goto, Race, InHeartbeat, state, locals
<1>4. CASE CopySums(t)
    BY <1>4 DEF CopySums
<1>5. CASE CopyIntervals(t)
    BY <1>5 DEF CopyIntervals
<1>6. CASE Swap(t)
    BY <1>6 DEF Swap
<1>7. CASE SwapFails(t)
    BY <1>7 DEF SwapFails
<1>8. CASE StoreSums(t)
    BY <1>8 DEF StoreSums
<1>9. CASE StoreIntervals(t)
    <2>1. stamp' \in [Threads -> 0 .. MaxTime]
        BY <1>9, StateType DEF StoreIntervals, EndBeat
    <2>2. seen' \in [Threads -> (0 .. MaxTime) \X Nat \X Nat]
        BY <1>9, StateType DEF StoreIntervals, EndBeat
    <2>3. copy' \in [Threads -> [sum : Nat, intervals : Nat]] /\ intervals' \in Nat
        BY <1>9 DEF StoreIntervals, EndBeat, NoCopy, First
    <2>4. raced' \in [Threads -> BOOLEAN]
        BY <1>9 DEF StoreIntervals, EndBeat
    <2>5. dpc' \in [Threads -> {"start", "idle", "beat", "copy", "copy more", "swap", "store",
                                "store more", "wild"}]
        BY <1>9 DEF StoreIntervals, EndBeat
    <2> QED
        BY <1>9, <2>1, <2>2, <2>3, <2>4, <2>5 DEF StoreIntervals
<1> QED
    BY <1>1, <1>2, <1>4, <1>5, <1>6, <1>7, <1>8, <1>9 DEF Beating

LEMMA StepType == TypeOK /\ [Next]_vars => TypeOK'
<1> SUFFICES ASSUME TypeOK, [Next]_vars
             PROVE  TypeOK'
    OBVIOUS
<1>1. CASE Tick
    <2>1. now' \in 1 .. MaxTime
        <3>1. now \in 1 .. MaxTime
            BY DEF TypeOK
        <3> QED
            BY <1>1, <3>1, DetectorAssumption DEF Tick
    <2> QED
        BY <1>1, <2>1 DEF Tick, TypeOK, state, locals
<1>0. CASE ClockBack
    <2>1. now' \in 1 .. MaxTime
        <3>1. now \in 1 .. MaxTime
            BY DEF TypeOK
        <3> QED
            BY <1>0, <3>1, DetectorAssumption DEF ClockBack
    <2>2. raced' \in [Threads -> BOOLEAN]
        BY <1>0, RaceType DEF ClockBack
    <2> QED
        BY <1>0, <2>1, <2>2 DEF ClockBack, TypeOK, state, locals
<1>2. ASSUME NEW t \in Threads, StartUp(t) \/ Suspect(t)
      PROVE  TypeOK'
    BY <1>2 DEF StartUp, Suspect, Goto, TypeOK, state, locals
<1>3. ASSUME NEW t \in Threads, Beating(t)
      PROVE  TypeOK'
    BY <1>3, BeatType
<1>4. ASSUME NEW missed \in Missed, ScaleIntervals(missed)
      PROVE  TypeOK'
    <2>1. missed \in Nat
        BY DetectorAssumption
    <2>2. intervals' \in Nat
        BY <1>4, <2>1, ScaledIsNat DEF ScaleIntervals, TypeOK
    <2>3. adjusts' \in 0 .. MaxAdjusts
        <3>1. adjusts \in 0 .. MaxAdjusts
            BY DEF TypeOK
        <3> QED
            BY <1>4, <3>1, DetectorAssumption DEF ScaleIntervals
    <2> QED
        BY <1>4, <2>2, <2>3 DEF ScaleIntervals, TypeOK, locals
<1>5. CASE ClearSums \/ SumUp
    <2>1. raced' \in [Threads -> BOOLEAN]
        BY <1>5, RaceType DEF ClearSums, SumUp
    <2>2. CASE ClearSums
        BY <2>1, <2>2 DEF ClearSums, TypeOK, locals
    <2>3. CASE SumUp
        BY <2>1, <2>3 DEF SumUp, TypeOK, locals
    <2> QED
        BY <1>5, <2>2, <2>3
<1>6. CASE UNCHANGED vars
    BY <1>6 DEF vars, TypeOK, state, locals
<1> QED
    BY <1>0, <1>1, <1>2, <1>3, <1>4, <1>5, <1>6 DEF Next, Adjusting

\* The variables have their types; no level falls below zero.
THEOREM DetectorTypes == Spec => []TypeOK
BY InitType, StepType, PTL DEF Spec
-----------------------------------------------------------------------------
(***************************************************************************)
(* One thread at a time stores its copy: compare_mutex.                    *)
(***************************************************************************)

Storing(t) == dpc[t] \in {"store", "store more"}
LockInv == \A t \in Threads : Storing(t) => lock = t

\* compare_and_set of two threads, which store the two halves of their states,
\* never overlap, so that they cannot mix the halves.
SwapsExclude == \A t, u \in Threads : Storing(t) /\ Storing(u) => t = u

LEMMA LockStep == TypeOK /\ LockInv /\ [Next]_vars => LockInv'
<1> SUFFICES ASSUME TypeOK, LockInv, [Next]_vars, NEW u \in Threads, Storing(u)'
             PROVE  lock' = u
    BY DEF LockInv
<1>0. dpc \in [Threads -> {"start", "idle", "beat", "copy", "copy more", "swap", "store",
                           "store more", "wild"}]
    BY DEF TypeOK
<1> USE DEF LockInv, Storing, Goto
<1>1. CASE Tick \/ ClockBack \/ Adjusting \/ UNCHANGED vars
    BY <1>1 DEF Tick, ClockBack, Adjusting, ScaleIntervals, ClearSums, SumUp, vars
<1>2. ASSUME NEW t \in Threads, StartUp(t) \/ Suspect(t)
      PROVE  lock' = u
    BY <1>0, <1>2 DEF StartUp, Suspect
<1>3. ASSUME NEW t \in Threads, Beating(t)
      PROVE  lock' = u
    <2>1. CASE BeatFirst(t) \/ BeatAgain(t) \/ BeatWild(t) \/ CopySums(t) \/ CopyIntervals(t)
               \/ SwapFails(t) \/ StoreSums(t)
        BY <1>0, <2>1 DEF BeatFirst, BeatAgain, BeatWild, EnterBeat, CopySums, CopyIntervals,
           SwapFails, StoreSums
    <2>2. CASE Swap(t)
        BY <1>0, <2>2, DetectorAssumption DEF Swap
    <2>3. CASE StoreIntervals(t)
        BY <1>0, <2>3 DEF StoreIntervals, EndBeat
    <2> QED
        BY <1>3, <2>1, <2>2, <2>3 DEF Beating
<1> QED
    BY <1>1, <1>2, <1>3 DEF Next

\* However many threads beat at once, the two stores of compare_and_set are one
\* thread's at a time.
THEOREM SwapsDoNotOverlap == Spec => []SwapsExclude
<1>1. Init => LockInv
    BY DEF Init, LockInv, Storing
<1>2. LockInv => SwapsExclude
    BY DEF LockInv, SwapsExclude
<1> QED
    BY <1>1, <1>2, LockStep, DetectorTypes, PTL DEF Spec
-----------------------------------------------------------------------------
(***************************************************************************)
(* The link stays unavailable while a heartbeat is under way, if nobody    *)
(* else writes to the state and the clock goes forward: that only makes it *)
(* less available, and everything else is noted in raced.                  *)
(***************************************************************************)

Deciding(t) == dpc[t] \in {"beat", "copy", "copy more", "swap"}
Unavailable == timestamp = 0 \/ ~Available

WildInv ==
    \A t \in Threads : /\ Deciding(t) /\ ~raced[t] => Unavailable
                       /\ dpc[t] = "wild" => raced[t]

\* As time passes the link does not become available.
LEMMA TickKeepsUnavailable ==
    ASSUME TypeOK, Tick, Unavailable
    PROVE  Unavailable'
<1> DEFINE wide  == Mean * sum + Deviation * sum
           least == Mean * sum + Least * 100
<1>1. wide \in Int /\ least \in Int
    <2>1. sum \in Nat /\ Mean \in Nat /\ Deviation \in Nat /\ Least \in Nat
        BY DetectorAssumption DEF TypeOK
    <2>2. Mean * sum \in Nat /\ Deviation * sum \in Nat /\ Least * 100 \in Nat
        BY <2>1, ProductIsNat
    <2> QED
        BY <2>2
<1>2. now \in Int /\ timestamp \in Int
    <2>1. now \in 1 .. MaxTime /\ timestamp \in 0 .. MaxTime
        BY DEF TypeOK
    <2> QED
        BY <2>1, DetectorAssumption
<1>3. now' = now + 1 /\ timestamp' = timestamp /\ sum' = sum
    BY DEF Tick, state
<1>4. Available <=> (now - timestamp) * 100 < wide \/ (now - timestamp) * 100 < least
    BY DEF Available, Elapsed, First
<1>5. Available' <=> (now' - timestamp) * 100 < wide \/ (now' - timestamp) * 100 < least
    BY <1>3 DEF Available, Elapsed, First
<1> HIDE DEF wide, least
<1>6. CASE timestamp = 0
    BY <1>3, <1>6 DEF Unavailable
<1>7. CASE ~Available
    <2>1. (now' - timestamp) * 100 = (now - timestamp) * 100 + 100
        BY <1>2, <1>3
    <2>2. (now - timestamp) * 100 \in Int
        BY <1>2
    <2> QED
        BY <1>1, <1>4, <1>5, <1>7, <2>1, <2>2 DEF Unavailable
<1> QED
    BY <1>6, <1>7 DEF Unavailable

LEMMA WildStep == TypeOK /\ WildInv /\ [Next]_vars => WildInv'
<1> SUFFICES ASSUME TypeOK, WildInv, [Next]_vars, NEW u \in Threads
             PROVE  /\ Deciding(u)' /\ ~raced'[u] => Unavailable'
                    /\ dpc'[u] = "wild" => raced'[u]
    BY DEF WildInv
<1>0. /\ dpc \in [Threads -> {"start", "idle", "beat", "copy", "copy more", "swap", "store",
                              "store more", "wild"}]
      /\ raced \in [Threads -> BOOLEAN]
    BY DEF TypeOK
<1>1. /\ Deciding(u) /\ ~raced[u] => Unavailable
      /\ dpc[u] = "wild" => raced[u]
    BY DEF WildInv
<1>2. UNCHANGED <<now, timestamp, sum>> => (Unavailable' <=> Unavailable)
    BY DEF Unavailable, Available, Elapsed
<1> USE DEF Deciding, Goto
<1>3. CASE Tick
    BY <1>1, <1>3, TickKeepsUnavailable DEF Tick
<1>4. ASSUME NEW t \in Threads, StartUp(t) \/ Suspect(t)
      PROVE  /\ Deciding(u)' /\ ~raced'[u] => Unavailable'
             /\ dpc'[u] = "wild" => raced'[u]
    <2>1. UNCHANGED <<now, timestamp, sum>>
        BY <1>4 DEF StartUp, Suspect, state
    <2>2. dpc'[t] = "beat" => Unavailable
        BY <1>0, <1>4 DEF StartUp, Suspect, Unavailable
    <2>3. dpc'[t] \in {"beat", "idle"}
        BY <1>0, <1>4 DEF StartUp, Suspect
    <2>4. u # t => dpc'[u] = dpc[u] /\ raced'[u] = raced[u]
        BY <1>0, <1>4 DEF StartUp, Suspect
    <2> QED
        BY <1>1, <1>2, <2>1, <2>2, <2>3, <2>4
<1>5. ASSUME NEW t \in Threads, Beating(t)
      PROVE  /\ Deciding(u)' /\ ~raced'[u] => Unavailable'
             /\ dpc'[u] = "wild" => raced'[u]
    <2>0. u # t => dpc'[u] = dpc[u]
        BY <1>0, <1>5 DEF Beating, BeatFirst, BeatAgain, BeatWild, CopySums, CopyIntervals, Swap,
           SwapFails, StoreSums, StoreIntervals, EndBeat
    <2>1. CASE BeatFirst(t) \/ Swap(t) \/ StoreSums(t) \/ StoreIntervals(t)
        <3>1. u # t => raced'[u] = (raced[u] \/ InHeartbeat(u))
            BY <2>1 DEF BeatFirst, Swap, StoreSums, StoreIntervals, EndBeat, Race
        <3>2. u # t /\ (Deciding(u)' \/ dpc'[u] = "wild") => raced'[u]
            BY <2>0, <3>1 DEF InHeartbeat
        <3>3. Deciding(t)' => timestamp' = 0
            BY <1>0, <2>1 DEF BeatFirst, Swap, StoreSums, StoreIntervals, EndBeat
        <3>4. dpc'[t] # "wild"
            BY <1>0, <2>1 DEF BeatFirst, Swap, StoreSums, StoreIntervals, EndBeat
        <3> QED
            BY <3>2, <3>3, <3>4 DEF Unavailable
    <2>2. CASE BeatAgain(t) \/ BeatWild(t) \/ CopySums(t) \/ CopyIntervals(t) \/ SwapFails(t)
        <3>1. UNCHANGED <<now, timestamp, sum, raced>>
            BY <2>2 DEF BeatAgain, BeatWild, EnterBeat, CopySums, CopyIntervals, SwapFails, state
        <3>2. Deciding(t)
            BY <2>2 DEF BeatAgain, BeatWild, EnterBeat, CopySums, CopyIntervals, SwapFails
        <3>3. dpc'[t] = "wild" => ~Unavailable
            BY <1>0, <2>2 DEF BeatAgain, BeatWild, EnterBeat, CopySums, CopyIntervals, SwapFails,
               Unavailable
        <3> QED
            BY <1>0, <1>1, <1>2, <2>0, <3>1, <3>2, <3>3
    <2> QED
        BY <1>5, <2>1, <2>2 DEF Beating
<1>6. ASSUME NEW missed \in Missed, ScaleIntervals(missed)
      PROVE  /\ Deciding(u)' /\ ~raced'[u] => Unavailable'
             /\ dpc'[u] = "wild" => raced'[u]
    BY <1>1, <1>2, <1>6 DEF ScaleIntervals
<1>7. CASE ClockBack \/ ClearSums \/ SumUp
    BY <1>0, <1>7 DEF ClockBack, ClearSums, SumUp, RaceAll, InHeartbeat
<1>8. CASE UNCHANGED vars
    BY <1>1, <1>2, <1>8 DEF vars
<1> QED
    BY <1>3, <1>4, <1>5, <1>6, <1>7, <1>8 DEF Next, Adjusting

\* A thread that has just found the link unavailable runs into the undefined
\* behaviour of heartbeat only if another wrote to the state, or the clock was
\* set back, in between.
THEOREM WildNeedsARace == Spec => []WildOnlyAfterRace
<1>1. Init => WildInv
    BY DEF Init, WildInv, Deciding
<1>2. WildInv => WildOnlyAfterRace
    BY DEF WildInv, WildOnlyAfterRace
<1> QED
    BY <1>1, <1>2, WildStep, DetectorTypes, PTL DEF Spec
=============================================================================
