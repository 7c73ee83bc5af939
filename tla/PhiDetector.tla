----------------------------- MODULE PhiDetector -----------------------------
(***************************************************************************)
(* The failure detector that all threads of the client share through       *)
(* g_detector: send_heartbeat and heartbeat, which the client threads call *)
(* (their swaps exclude each other by compare_mutex), and adjust_intervals,*)
(* which the responder calls without any mutex.                            *)
(*                                                                         *)
(* The two intervals of the history are scaled together and are kept here  *)
(* as one level, 100 at the first estimate; so are the two sums, which are *)
(* consistent with the intervals when the levels are equal.  phi grows     *)
(* with the time since the last heartbeat, so the link is available up to  *)
(* a reach: the mean and a multiple of the deviation, both in proportion   *)
(* to the sums, but at least that multiple of min_std_deviation_ms.        *)
(* The clock is that of the day, CLOCK_REALTIME, which may be set back.    *)
(***************************************************************************)
EXTENDS Integers, FiniteSets

CONSTANTS Threads,      \* the client threads
          Mean,         \* of the first estimate, in ticks
          Deviation,    \* the first estimate's share in the reach beyond the mean
          Least,        \* the share of min_std_deviation_ms
          Missed,       \* the missed counts that acknowledgements bring
          MaxTime,      \* bound: the clock
          MaxAdjusts    \* bound: the calls of adjust_intervals

Free == "free"

ASSUME DetectorAssumption == /\ Free \notin Threads
                             /\ Mean \in Nat /\ Deviation \in Nat /\ Least \in Nat
                             /\ Missed \subseteq Nat
                             /\ MaxTime \in Nat \ {0}
                             /\ MaxAdjusts \in Nat

VARIABLES now,          \* the clock, from 1
          timestamp,    \* state->timestamp: the last heartbeat, 0 before the first
          intervals,    \* the level of history->intervals
          sum,          \* the level of interval_sum and squared_interval_sum
          lock,         \* the holder of compare_mutex
          dpc,          \* where each client thread is in send_heartbeat
          stamp,        \* its timestamp: when it entered heartbeat
          seen,         \* what old_state was at that time
          copy,         \* its new_state
          raced,        \* history: since it looked at phi, has another written the
                        \* state, or has the clock been set back?
          adj,          \* where the responder is in adjust_intervals
          adjusts       \* the number of its calls

vars == <<now, timestamp, intervals, sum, lock, dpc, stamp, seen, copy, raced, adj, adjusts>>
state == <<timestamp, intervals, sum>>
locals == <<stamp, seen, copy>>

\* The level of the first estimate.
First == 100
NoStamp == 0
NoState == <<0, First, First>>
NoCopy  == [sum |-> First, intervals |-> First]

Init ==
    /\ now = 1
    /\ timestamp = 0
    /\ intervals = First
    /\ sum = First
    /\ lock = Free
    /\ dpc = [t \in Threads |-> "start"]
    /\ stamp = [t \in Threads |-> NoStamp]
    /\ seen = [t \in Threads |-> NoState]
    /\ copy = [t \in Threads |-> NoCopy]
    /\ raced = [t \in Threads |-> FALSE]
    /\ adj = "idle"
    /\ adjusts = 0

Goto(t, label) == dpc' = [dpc EXCEPT ![t] = label]

\* A write to the state by thread t, or by the responder, is a race for the
\* others that are in heartbeat.
InHeartbeat(t) == dpc[t] \notin {"start", "idle"}
Race(t) == raced' = [u \in Threads |-> IF u = t THEN raced[u] ELSE raced[u] \/ InHeartbeat(u)]
RaceAll == raced' = [u \in Threads |-> raced[u] \/ InHeartbeat(u)]

\* is_available: phi is below the threshold, the time within the reach.
Elapsed == (now - timestamp) * First
Available == \/ Elapsed < Mean * sum + Deviation * sum
             \/ Elapsed < Mean * sum + Least * First

\* Mutation: the percentage may be negative.
Scaled_NoFloor(level, missed) ==
    LET percent == IF missed = 0 THEN 105 ELSE 100 - 5 * missed
    IN (level * percent) \div 100

\* adjust_intervals: 5 percent less for every missed message, never below
\* zero, and 5 percent more when none is missed.
Scaled(level, missed) ==
    LET percent == IF missed = 0 THEN 105 ELSE IF missed > 20 THEN 0 ELSE 100 - 5 * missed
    IN (level * percent) \div 100

Tick == /\ now < MaxTime
        /\ now' = now + 1
        /\ UNCHANGED <<state, lock, dpc, locals, raced, adj, adjusts>>

ClockBack ==
    /\ now > 1
    /\ now' = now - 1
    /\ RaceAll
    /\ UNCHANGED <<state, lock, dpc, locals, adj, adjusts>>
-----------------------------------------------------------------------------
(***************************************************************************)
(* send_heartbeat and heartbeat                                            *)
(***************************************************************************)

\* send_heartbeat(NULL, NULL, true), before the loop: the first one sets the
\* timestamp, for the others there is nothing to do.
StartUp(t) ==
    /\ dpc[t] = "start"
    /\ Goto(t, IF timestamp = 0 THEN "beat" ELSE "idle")
    /\ raced' = [raced EXCEPT ![t] = FALSE]
    /\ UNCHANGED <<now, state, lock, locals, adj, adjusts>>

\* Mutation: a heartbeat whatever the detector says.
Suspect_Always(t) ==
    /\ dpc[t] = "idle"
    /\ Goto(t, "beat")
    /\ raced' = [raced EXCEPT ![t] = FALSE]
    /\ UNCHANGED <<now, state, lock, locals, adj, adjusts>>

\* send_heartbeat without force: the detector finds the link unavailable.
Suspect(t) ==
    /\ dpc[t] = "idle"
    /\ timestamp # 0 /\ ~Available
    /\ Goto(t, "beat")
    /\ raced' = [raced EXCEPT ![t] = FALSE]
    /\ UNCHANGED <<now, state, lock, locals, adj, adjusts>>

EnterBeat(t) ==
    /\ dpc[t] = "beat"
    /\ stamp' = [stamp EXCEPT ![t] = now]
    /\ UNCHANGED <<now, lock, copy, adj, adjusts>>

\* The first heartbeat of all starts the history again.
BeatFirst(t) ==
    /\ EnterBeat(t)
    /\ timestamp = 0
    /\ intervals' = First /\ sum' = First
    /\ seen' = [seen EXCEPT ![t] = <<timestamp, First, First>>]
    /\ Goto(t, "copy")
    /\ Race(t)
    /\ UNCHANGED timestamp

\* A later one asks the detector again, with the timestamp it will store; still
\* unavailable, it goes on with the history as it is.
BeatAgain(t) ==
    /\ EnterBeat(t)
    /\ timestamp # 0 /\ ~Available
    /\ seen' = [seen EXCEPT ![t] = state]
    /\ Goto(t, "copy")
    /\ UNCHANGED <<state, raced>>

\* Available by now: `new_history += interval` moves the pointer away from the
\* history, and what state_init copies from there is undefined.
BeatWild(t) ==
    /\ EnterBeat(t)
    /\ timestamp # 0 /\ Available
    /\ Goto(t, "wild")
    /\ UNCHANGED <<state, seen, raced>>

\* state_init copies the history, sums first.
CopySums(t) ==
    /\ dpc[t] = "copy"
    /\ copy' = [copy EXCEPT ![t].sum = sum]
    /\ Goto(t, "copy more")
    /\ UNCHANGED <<now, state, lock, stamp, seen, raced, adj, adjusts>>

CopyIntervals(t) ==
    /\ dpc[t] = "copy more"
    /\ copy' = [copy EXCEPT ![t].intervals = intervals]
    /\ Goto(t, "swap")
    /\ UNCHANGED <<now, state, lock, stamp, seen, raced, adj, adjusts>>

\* compare_and_set: old_state is detector->state itself, so the state is
\* compared with itself and found equal.
Swap(t) ==
    /\ dpc[t] = "swap"
    /\ lock = Free
    /\ lock' = t
    /\ timestamp' = stamp[t]
    /\ Goto(t, "store")
    /\ Race(t)
    /\ UNCHANGED <<now, intervals, sum, locals, adj, adjusts>>

\* The only way it can be found unequal: the responder writes to it between the
\* two reads of a comparison.  heartbeat starts again.
SwapFails(t) ==
    /\ dpc[t] = "swap"
    /\ lock = Free
    /\ adj # "idle"
    /\ Goto(t, "beat")
    /\ UNCHANGED <<now, state, lock, locals, raced, adj, adjusts>>

StoreSums(t) ==
    /\ dpc[t] = "store"
    /\ sum' = copy[t].sum
    /\ Goto(t, "store more")
    /\ Race(t)
    /\ UNCHANGED <<now, timestamp, intervals, lock, locals, adj, adjusts>>

\* heartbeat returns, and its locals are gone.
EndBeat(t) ==
    /\ Goto(t, "idle")
    /\ raced' = [u \in Threads |-> u # t /\ (raced[u] \/ InHeartbeat(u))]
    /\ stamp' = [stamp EXCEPT ![t] = NoStamp]
    /\ seen' = [seen EXCEPT ![t] = NoState]
    /\ copy' = [copy EXCEPT ![t] = NoCopy]

\* Mutation: compare_mutex is kept.
StoreIntervals_KeepLock(t) ==
    /\ dpc[t] = "store more"
    /\ intervals' = copy[t].intervals
    /\ EndBeat(t)
    /\ UNCHANGED <<now, timestamp, sum, lock, adj, adjusts>>

StoreIntervals(t) ==
    /\ dpc[t] = "store more"
    /\ intervals' = copy[t].intervals
    /\ lock' = Free
    /\ EndBeat(t)
    /\ UNCHANGED <<now, timestamp, sum, adj, adjusts>>

Beating(t) ==
    \/ BeatFirst(t) \/ BeatAgain(t) \/ BeatWild(t) \/ CopySums(t) \/ CopyIntervals(t)
    \/ Swap(t) \/ SwapFails(t) \/ StoreSums(t) \/ StoreIntervals(t)
-----------------------------------------------------------------------------
(***************************************************************************)
(* adjust_intervals, which the responder calls after every acknowledgement *)
(***************************************************************************)

ScaleIntervals(missed) ==
    /\ adj = "idle"
    /\ adjusts < MaxAdjusts
    /\ timestamp # 0
    /\ intervals' = Scaled(intervals, missed)
    /\ adj' = "clear"
    /\ adjusts' = adjusts + 1
    /\ UNCHANGED <<now, timestamp, sum, lock, dpc, locals, raced>>

ClearSums ==
    /\ adj = "clear"
    /\ sum' = 0
    /\ adj' = "sum up"
    /\ RaceAll
    /\ UNCHANGED <<now, timestamp, intervals, lock, dpc, locals, adjusts>>

SumUp ==
    /\ adj = "sum up"
    /\ sum' = intervals
    /\ adj' = "idle"
    /\ RaceAll
    /\ UNCHANGED <<now, timestamp, intervals, lock, dpc, locals, adjusts>>

Adjusting == (\E missed \in Missed : ScaleIntervals(missed)) \/ ClearSums \/ SumUp

Next == \/ Tick \/ ClockBack
        \/ \E t \in Threads : StartUp(t) \/ Suspect(t) \/ Beating(t)
        \/ Adjusting

Spec == Init /\ [][Next]_vars

\* Every thread runs on and gets the mutex, which the others take for a moment
\* only.  The comparison of a state with itself is not disturbed every time.
FairSpec == /\ Spec
            /\ \A t \in Threads : SF_vars(Beating(t)) /\ SF_vars(Swap(t))
            /\ WF_vars(ClearSums \/ SumUp)
-----------------------------------------------------------------------------
TypeOK ==
    /\ now \in 1 .. MaxTime
    /\ timestamp \in 0 .. MaxTime
    /\ intervals \in Nat /\ sum \in Nat
    /\ lock \in Threads \cup {Free}
    /\ dpc \in [Threads -> {"start", "idle", "beat", "copy", "copy more", "swap", "store",
                            "store more", "wild"}]
    /\ stamp \in [Threads -> 0 .. MaxTime]
    /\ seen \in [Threads -> (0 .. MaxTime) \X Nat \X Nat]
    /\ copy \in [Threads -> [sum : Nat, intervals : Nat]]
    /\ raced \in [Threads -> BOOLEAN]
    /\ adj \in {"idle", "clear", "sum up"}
    /\ adjusts \in 0 .. MaxAdjusts

\* A thread that has just found the link unavailable finds it so again in
\* heartbeat, where the other answer is undefined behaviour, unless another
\* thread wrote to the state or the clock was set back in between.
WildOnlyAfterRace == \A t \in Threads : dpc[t] = "wild" => raced[t]

\* heartbeat, which calls itself when compare_and_set fails, comes to an end.
BeatEnds == \A t \in Threads : dpc[t] = "beat" ~> dpc[t] \in {"idle", "wild"}

\* The sums are those of the intervals, whenever nobody is at work on them.
SumsTracked ==
    adj = "idle" /\ (\A t \in Threads : dpc[t] \notin {"store", "store more"})
        => sum = intervals

\* compare_and_set succeeds only on the state that heartbeat read.
SwapFindsOldState == [][\A t \in Threads : Swap(t) => state = seen[t]]_vars
=============================================================================
