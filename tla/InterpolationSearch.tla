------------------------ MODULE InterpolationSearch ------------------------
(***************************************************************************)
(* remove_element_by_id of dynamic_array.c: interpolate_search first (its  *)
(* two copies, for messages and for bare ids, are the same loop), then a   *)
(* scan from the front if that found nothing, then the removal.  The array *)
(* is data[0 .. size-1] in C and data[1 .. size] here.  Ids, size_t and    *)
(* unsigned long long are numbers modulo Modulus: 2^64 in the program.     *)
(***************************************************************************)
EXTENDS Integers, SequencesExt

CONSTANTS Modulus,      \* arithmetic is modulo this
          Values,       \* the ids in arrays and searches
          MaxSize       \* bound: the elements of an array

ASSUME SearchAssumption == /\ Modulus \in Nat \ {0}
                           /\ MaxSize \in Nat /\ MaxSize < Modulus
                           /\ Values \subseteq 0 .. Modulus - 1

VARIABLES data,         \* the ids of the array
          msg_id,       \* the id searched for
          remove,       \* the parameter remove_element
          pc,           \* "start", "search", "scan", "remove" or "done"
          low, high,    \* the part of the array that is left to search
          index,        \* the position found, or -1
          before        \* history: the array at the call

vars == <<data, msg_id, remove, pc, low, high, index, before>>
callVars == <<msg_id, remove, before>>

Init ==
    /\ data \in UNION {[1 .. n -> Values] : n \in 0 .. MaxSize}
    /\ msg_id \in Values
    /\ remove \in BOOLEAN
    /\ pc = "start"
    /\ low = 0
    /\ high = 0
    /\ index = -1
    /\ before = data

At(i) == data[i + 1]
Size  == Len(data)
Minus(a, b) == (a - b) % Modulus
-----------------------------------------------------------------------------
\* interpolate_search: size - 1 wraps around for an empty array, which is why
\* that case returns first.
Start ==
    /\ pc = "start"
    /\ IF Size = 0
       THEN pc' = "scan" /\ UNCHANGED high
       ELSE pc' = "search" /\ high' = Minus(Size, 1)
    /\ UNCHANGED <<data, callVars, low, index>>

\* Mutation: an id above the range is not given up.
Outside_NoUpper == msg_id < At(low)

\* msg_id cannot be between data[low] and data[high].
Outside == msg_id < At(low) \/ msg_id > At(high)

\* Where msg_id would be if the ids were evenly spaced.  The product is taken
\* modulo Modulus.
Position ==
    low + (((high - low) * (msg_id - At(low))) % Modulus) \div (At(high) - At(low))

\* The loop is over, or breaks: nothing found.
GiveUp ==
    /\ pc = "search"
    /\ \/ low > high
       \/ low <= high /\ Outside
       \/ low <= high /\ ~Outside /\ At(low) = At(high) /\ At(low) # msg_id
    /\ pc' = "scan"
    /\ UNCHANGED <<data, callVars, low, high, index>>

\* The ids at both ends are equal, and the one.
FindLow ==
    /\ pc = "search"
    /\ low <= high /\ ~Outside /\ At(low) = At(high) /\ At(low) = msg_id
    /\ index' = low
    /\ pc' = "remove"
    /\ UNCHANGED <<data, callVars, low, high>>

Probing == pc = "search" /\ low <= high /\ ~Outside /\ At(low) # At(high)

FindProbe ==
    /\ Probing
    /\ At(Position) = msg_id
    /\ index' = Position
    /\ pc' = "remove"
    /\ UNCHANGED <<data, callVars, low, high>>

\* Mutation: the probed element is searched again.
GoUp_Again ==
    /\ Probing
    /\ At(Position) < msg_id
    /\ low' = Position
    /\ UNCHANGED <<data, callVars, pc, high, index>>

\* Mutation: one element too many is left out.
GoUp_TooFar ==
    /\ Probing
    /\ At(Position) < msg_id
    /\ low' = (Position + 2) % Modulus
    /\ UNCHANGED <<data, callVars, pc, high, index>>

GoUp ==
    /\ Probing
    /\ At(Position) < msg_id
    /\ low' = (Position + 1) % Modulus
    /\ UNCHANGED <<data, callVars, pc, high, index>>

GoDown ==
    /\ Probing
    /\ At(Position) > msg_id
    /\ high' = Minus(Position, 1)
    /\ UNCHANGED <<data, callVars, pc, low, index>>

\* Mutation: the scan stops before the last element.
Scan_Short ==
    /\ pc = "scan"
    /\ LET hits == {i \in 0 .. Size - 2 : At(i) = msg_id}
       IN index' = IF hits = {} THEN -1 ELSE CHOOSE i \in hits : \A j \in hits : i <= j
    /\ pc' = "remove"
    /\ UNCHANGED <<data, callVars, low, high>>

\* Mutation: the index after the last one says that nothing was found.
Scan_SizeIfMissing ==
    /\ pc = "scan"
    /\ LET hits == {i \in 0 .. Size - 1 : At(i) = msg_id}
       IN index' = IF hits = {} THEN Size ELSE CHOOSE i \in hits : \A j \in hits : i <= j
    /\ pc' = "remove"
    /\ UNCHANGED <<data, callVars, low, high>>

\* The scan, for the first element with the id.
Scan ==
    /\ pc = "scan"
    /\ LET hits == {i \in 0 .. Size - 1 : At(i) = msg_id}
       IN index' = IF hits = {} THEN -1 ELSE CHOOSE i \in hits : \A j \in hits : i <= j
    /\ pc' = "remove"
    /\ UNCHANGED <<data, callVars, low, high>>

\* Mutation: the elements are shifted from one place too far on.
RemoveFound_OffByOne ==
    /\ pc = "remove"
    /\ data' = IF index # -1 /\ remove
               THEN RemoveAt(data, IF index + 2 <= Size THEN index + 2 ELSE Size) ELSE data
    /\ pc' = "done"
    /\ UNCHANGED <<callVars, low, high, index>>

\* The elements after the one found are shifted down by one.
RemoveFound ==
    /\ pc = "remove"
    /\ data' = IF index # -1 /\ remove THEN RemoveAt(data, index + 1) ELSE data
    /\ pc' = "done"
    /\ UNCHANGED <<callVars, low, high, index>>

Next == Start \/ GiveUp \/ FindLow \/ FindProbe \/ GoUp \/ GoDown \/ Scan \/ RemoveFound

Spec == Init /\ [][Next]_vars
FairSpec == Spec /\ WF_vars(Next)
-----------------------------------------------------------------------------
TypeOK ==
    /\ data \in Seq(Values) /\ Size <= MaxSize
    /\ msg_id \in Values
    /\ remove \in BOOLEAN
    /\ pc \in {"start", "search", "scan", "remove", "done"}
    /\ low \in Nat /\ high \in Nat
    /\ index \in -1 .. MaxSize - 1
    /\ before \in Seq(Values)

\* Every element the loop reads exists, whatever the order of the ids and even
\* when the product in Position overflows: both ends, and the probe between them.
ReadsInBounds ==
    /\ pc = "search" /\ low <= high => high < Size
    /\ Probing => Position \in low .. high

Ascending(a) == \A i, j \in DOMAIN a : i < j => a[i] < a[j]
Holds(a, id) == \E k \in DOMAIN a : a[k] = id

\* On ids in ascending order, as in g_array, interpolation alone finds what is
\* there: the scan, which is linear, only runs for an id that is missing.
ScanOnlyForMissing == pc = "scan" /\ Ascending(data) => ~Holds(data, msg_id)

\* On ids in any order, such as those of an acknowledgement, whose order is the
\* one in which the messages came, the answer is right: the position of
\* the id, or -1 if it is not there.
Answer ==
    pc = "done" => IF index = -1 THEN ~Holds(before, msg_id)
                                 ELSE index + 1 \in DOMAIN before /\ before[index + 1] = msg_id

\* From ids in ascending order exactly the one asked for is removed, and the
\* others stay in order: what the acknowledgement protocol takes for granted
\* (RemoveId in module Client).
RemovesOnlyIt ==
    pc = "done" /\ remove /\ Ascending(before) =>
        /\ Ascending(data)
        /\ \A id \in Values : Holds(data, id) <=> Holds(before, id) /\ id # msg_id

\* The call returns: the part left to search shrinks with every probe.
Returns == <>(pc = "done")
=============================================================================
