--------------------------- MODULE HeartbeatHistory ---------------------------
(***************************************************************************)
(* The window of heartbeat intervals that the failure detector estimates   *)
(* from: add_interval, adjust_intervals, compare_history and               *)
(* update_history on two histories, the one of the detector and the one of *)
(* a new state that state_init begins with (a window of one).  The program *)
(* itself adds two intervals to a window, its tests add as many as they    *)
(* like.                                                                   *)
(*                                                                         *)
(* A slot keeps, beside the length of the interval, the number of the      *)
(* sample it came from: a history variable that no operation looks at.     *)
(* Lengths are whole numbers, and so is what scaling makes of them.        *)
(***************************************************************************)
EXTENDS Integers

CONSTANTS WindowSize,   \* max_sample_size of the detector
          Lengths,      \* the intervals that are added
          MissedCounts, \* the missed counts that scale them
          MaxAdds,      \* bound: samples that one history takes
          MaxAdjusts    \* bound: the calls of adjust_intervals

ASSUME HistoryAssumption == /\ WindowSize \in Nat \ {0}
                            /\ Lengths \subseteq Nat
                            /\ MissedCounts \subseteq Nat
                            /\ MaxAdds \in Nat
                            /\ MaxAdjusts \in Nat

VARIABLES history,      \* the two histories
          adds,         \* history: the number of the last sample in each
          adjusts       \* the number of calls of adjust_intervals

vars == <<history, adds, adjusts>>

Histories == {"detector", "state"}

\* A slot after calloc.
NoInterval == [length |-> 0, sample |-> 0]

\* new_heartbeat_history(size, NULL, 0, 0, 0)
NewHistory(size) ==
    [size |-> size, count |-> 0, intervals |-> [i \in 1 .. size |-> NoInterval],
     sum |-> 0, squares |-> 0]

\* The loop that ends add_interval and adjust_intervals, over the first n values.
SumOf(value, n) ==
    LET partial[i \in 0 .. n] == IF i = 0 THEN 0 ELSE partial[i - 1] + value[i]
    IN  partial[n]

Length(h) == [i \in 1 .. h.count |-> h.intervals[i].length]
Square(h) == [i \in 1 .. h.count |-> Length(h)[i] * Length(h)[i]]
Sum(h) == SumOf(Length(h), h.count)
Squares(h) == SumOf(Square(h), h.count)

\* What the loop leaves in the history.
SumUp(h) == [h EXCEPT !.sum = Sum(h), !.squares = Squares(h)]

\* Mutation: the slots are not moved.
DropOldest_NoShift(h) ==
    IF h.count = 0 THEN h ELSE [h EXCEPT !.count = h.count - 1]

\* drop_oldest_interval: all slots move down, the last one stays as it is.
DropOldest(h) ==
    IF h.count = 0 THEN h
    ELSE [h EXCEPT !.intervals = [i \in 1 .. h.size |-> h.intervals[IF i < h.size THEN i + 1 ELSE i]],
                   !.count = h.count - 1]

\* Mutation: a full window takes one more.
AddInterval_PastEnd(h, interval) ==
    SumUp(IF h.count <= h.size
          THEN [h EXCEPT !.intervals = [i \in DOMAIN h.intervals \cup {h.count + 1} |->
                                           IF i = h.count + 1 THEN interval ELSE h.intervals[i]],
                         !.count = h.count + 1]
          ELSE [DropOldest(h) EXCEPT !.intervals[h.size] = interval])

\* add_interval: in a full window the oldest is dropped and the new one goes into
\* the last slot, but the counter stays at one less.
AddInterval(h, interval) ==
    SumUp(IF h.count < h.size
          THEN [h EXCEPT !.intervals[h.count + 1] = interval, !.count = h.count + 1]
          ELSE [DropOldest(h) EXCEPT !.intervals[h.size] = interval])

\* get_scaling_factor, in percent.
Percent(missed) == IF missed = 0 THEN 105 ELSE 100 - 5 * missed

\* MAX(interval * scaling_factor, 0)
Scale(length, missed) ==
    IF Percent(missed) < 0 THEN 0 ELSE (length * Percent(missed)) \div 100

\* Mutation: the sums go on from where they were.
AdjustIntervals_KeepSums(h, missed) ==
    LET scaled == [h EXCEPT !.intervals = [i \in 1 .. h.size |->
                       IF i <= h.count THEN [h.intervals[i] EXCEPT !.length = Scale(@, missed)]
                       ELSE h.intervals[i]]]
    IN  [scaled EXCEPT !.sum = @ + Sum(scaled), !.squares = @ + Squares(scaled)]

\* adjust_intervals: the intervals that count are scaled.
AdjustIntervals(h, missed) ==
    SumUp([h EXCEPT !.intervals = [i \in 1 .. h.size |->
               IF i <= h.count THEN [h.intervals[i] EXCEPT !.length = Scale(@, missed)]
               ELSE h.intervals[i]]])

\* Mutation: the size of the window does not matter.
CompareHistory_AnySize(h1, h2) ==
    /\ h1.count = h2.count
    /\ h1.sum = h2.sum
    /\ h1.squares = h2.squares
    /\ \A i \in 1 .. h1.count : h1.intervals[i].length = h2.intervals[i].length

\* compare_history
CompareHistory(h1, h2) ==
    /\ h1.size = h2.size
    /\ h1.count = h2.count
    /\ h1.sum = h2.sum
    /\ h1.squares = h2.squares
    /\ \A i \in 1 .. h1.count : h1.intervals[i].length = h2.intervals[i].length

\* update_history: of equal size, first keeps its memory and with it whatever
\* it has beyond the counter; otherwise it gets new, zeroed memory.
UpdateHistory(first, second) ==
    [second EXCEPT !.intervals = [i \in 1 .. second.size |->
        IF i <= second.count THEN second.intervals[i]
        ELSE IF first.size = second.size THEN first.intervals[i]
        ELSE NoInterval]]
-----------------------------------------------------------------------------
\* The detector's history, and the one of state_init(NULL, 0).
Init ==
    /\ history = [h \in Histories |-> NewHistory(IF h = "detector" THEN WindowSize ELSE 1)]
    /\ adds = [h \in Histories |-> 0]
    /\ adjusts = 0

Add(h, length) ==
    /\ adds[h] < MaxAdds
    /\ adds' = [adds EXCEPT ![h] = adds[h] + 1]
    /\ history' = [history EXCEPT
           ![h] = AddInterval(history[h], [length |-> length, sample |-> adds[h] + 1])]
    /\ UNCHANGED adjusts

Adjust(h, missed) ==
    /\ adjusts < MaxAdjusts
    /\ adjusts' = adjusts + 1
    /\ history' = [history EXCEPT ![h] = AdjustIntervals(history[h], missed)]
    /\ UNCHANGED adds

\* update_history; the samples of the copy are those of the other.
Update(first, second) ==
    /\ history' = [history EXCEPT ![first] = UpdateHistory(history[first], history[second])]
    /\ adds' = [adds EXCEPT ![first] = adds[second]]
    /\ UNCHANGED adjusts

Next ==
    \/ \E h \in Histories, length \in Lengths : Add(h, length)
    \/ \E h \in Histories, missed \in MissedCounts : Adjust(h, missed)
    \/ \E first, second \in Histories : Update(first, second)

Spec == Init /\ [][Next]_vars
-----------------------------------------------------------------------------
Interval == [length : Nat, sample : Nat]

\* The histories are typed and their counters stay within the memory.
TypeOK ==
    /\ DOMAIN history = Histories
    /\ \A h \in Histories : \E n \in 1 .. WindowSize :
           history[h] \in [size : {n}, count : 0 .. n, intervals : [1 .. n -> Interval],
                           sum : Nat, squares : Nat]
    /\ adds \in [Histories -> 0 .. MaxAdds]
    /\ adjusts \in 0 .. MaxAdjusts

\* The sums are those of the intervals that count, whatever was added, dropped,
\* scaled and copied before, and the variance they give is no negative number.
SumsTracked ==
    \A h \in Histories :
        LET this == history[h]
        IN  /\ this.sum = Sum(this) /\ this.squares = Squares(this)
            /\ this.count * this.squares >= this.sum * this.sum

\* The intervals that count are in the order of the samples, no two samples in
\* a row are missing between them nor at the end, and a full window is at most
\* one short: the window slides and never mixes old with new.
Ordered(this) == \A i \in 1 .. this.count - 1 :
    LET older == this.intervals[i].sample
        newer == this.intervals[i + 1].sample
    IN  older < newer /\ newer <= older + 2
Newest(this, last) == this.count > 0 => last - this.intervals[this.count].sample \in 0 .. 1
Filled(this, last) == \/ this.count = last
                      \/ this.count = this.size
                      \/ this.count = this.size - 1
RecentInOrder ==
    \A h \in Histories : /\ Ordered(history[h])
                         /\ Newest(history[h], adds[h])
                         /\ Filled(history[h], adds[h])

\* Histories that compare equal still do after the same operation on both,
\* although compare_history looks at less than what the operations move around.
EqualStaysEqual ==
    LET one == history["detector"]
        other == history["state"]
        new(length) == [length |-> length, sample |-> 0]
    IN  CompareHistory(one, other) =>
            /\ \A a, b \in Lengths :
                   CompareHistory(AddInterval(AddInterval(one, new(a)), new(b)),
                                  AddInterval(AddInterval(other, new(a)), new(b)))
            /\ \A missed \in MissedCounts :
                   CompareHistory(AdjustIntervals(one, missed), AdjustIntervals(other, missed))

\* README.md, "Heartbeat Sampling": the sums are those of all the samples in the
\* window, so the last sample is one of them.
WindowIsLast ==
    \A h \in Histories : history[h].count > 0 \/ adds[h] > 0 =>
        /\ history[h].count > 0
        /\ history[h].intervals[history[h].count].sample = adds[h]
=============================================================================
