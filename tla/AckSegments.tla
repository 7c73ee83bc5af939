---------------------------- MODULE AckSegments ----------------------------
(***************************************************************************)
(* The server's g_array from message to acknowledgement, where Server has  *)
(* it as one step: the storage that grows (dynamic_array.c), and the ids,  *)
(* printed with '|' between them, cut into segments that fit in a packet   *)
(* (buffer_segments.c).  One thread does all of it.                        *)
(*                                                                         *)
(* An id is as many bytes as it has digits.  A segment is the interval of  *)
(* the ids in it and its size.                                             *)
(***************************************************************************)
EXTENDS Integers, Sequences

CONSTANTS InitialCapacity,  \* of g_array: 100000
          MaxSegmentSize,   \* MAX_SEGMENT_SIZE: 1024
          Lengths,          \* the numbers of digits an id may have: 1..20
          MaxIds            \* bound: messages between two acknowledgements

\* A capacity of 1 would grow by 1 \div 2, that is not at all.
ASSUME SegmentsAssumption ==
    /\ InitialCapacity \in Nat /\ InitialCapacity >= 2
    /\ MaxSegmentSize \in Nat
    /\ Lengths \subseteq 1 .. MaxSegmentSize
    /\ MaxIds \in Nat

VARIABLES
    pc,        \* "receive", or "split" and "send" within send_ids, or "aborted"
    ids,       \* g_array: the length of each id
    capacity,  \* its capacity
    failed,    \* did this send_ids run out of memory?
    dangling,  \* does segmentArray.segments point to memory that was freed?
    slots,     \* the length of segmentArray.segments
    segs,      \* the segments finished
    cur        \* currentSegment, with currentSize

vars == <<pc, ids, capacity, failed, dangling, slots, segs, cur>>
splitVars == <<failed, dangling, slots, segs, cur>>

EmptyFrom(i) == [first |-> i, last |-> i - 1, size |-> 0]

Init ==
    /\ pc = "receive"
    /\ ids = <<>>
    /\ capacity = InitialCapacity
    /\ failed = FALSE
    /\ dangling = FALSE
    /\ slots = 0
    /\ segs = <<>>
    /\ cur = EmptyFrom(1)

-----------------------------------------------------------------------------
\* Mutation: half of the capacity, and not half of it more.
Grown_Half(c) == c \div 2

Grown(c) == c + (c \div 2)

\* add_to_dynamic_array, called for each message.
Add(l) ==
    /\ pc = "receive"
    /\ Len(ids) < MaxIds
    /\ ids' = Append(ids, l)
    /\ capacity' = IF Len(ids) = capacity THEN Grown(capacity) ELSE capacity
    /\ UNCHANGED <<pc, splitVars>>

\* The check of the buffer before it is cut, which is of one id only.
TooLong == Len(ids) = 1 /\ ids[1] > MaxSegmentSize

\* marshal_uint64_array or split_buffer have nothing to return, or no memory for the
\* text or for the slots: segments is NULL.
NoSegments(outOfMemory) ==
    /\ pc = "receive"
    /\ IF outOfMemory THEN ids # <<>> ELSE ids = <<>> \/ TooLong
    /\ failed' = outOfMemory
    /\ pc' = "send"
    /\ UNCHANGED <<ids, capacity, dangling, slots, segs, cur>>

\* No memory for the first segment: the slots are freed, and segments, which
\* points to them, is returned.
FirstSegmentFails ==
    /\ pc = "receive"
    /\ ids # <<>> /\ ~TooLong
    /\ failed' = TRUE /\ dangling' = TRUE
    /\ pc' = "send"
    /\ UNCHANGED <<ids, capacity, slots, segs, cur>>

\* Mutation: the delimiters are counted, and the id after the last is forgotten.
BeginSplit_CountBars ==
    /\ pc = "receive"
    /\ ids # <<>> /\ ~TooLong
    /\ slots' = Len(ids) - 1
    /\ pc' = "split"
    /\ UNCHANGED <<ids, capacity, failed, dangling, segs, cur>>

\* As many slots as there are delimiters, and one for the id after the last.
BeginSplit ==
    /\ pc = "receive"
    /\ ids # <<>> /\ ~TooLong
    /\ slots' = Len(ids)
    /\ pc' = "split"
    /\ UNCHANGED <<ids, capacity, failed, dangling, segs, cur>>

\* currentSize with another token behind it.
SizeWith(token) == cur.size + token + (IF cur.size > 0 THEN 1 ELSE 0)

\* Mutation: a segment that would be exactly full is closed before.
Fits_NeverFull(token) == SizeWith(token) < MaxSegmentSize

Fits(token) == SizeWith(token) <= MaxSegmentSize

HasToken == pc = "split" /\ cur.last < Len(ids)
Token == ids[cur.last + 1]

AddToken ==
    /\ HasToken
    /\ Fits(Token)
    /\ cur' = [cur EXCEPT !.last = @ + 1, !.size = SizeWith(Token)]
    /\ UNCHANGED <<pc, ids, capacity, failed, dangling, slots, segs>>

NextSegment ==
    /\ HasToken
    /\ ~Fits(Token)
    /\ segs' = Append(segs, cur)
    /\ cur' = [first |-> cur.last + 1, last |-> cur.last + 1, size |-> Token]
    /\ UNCHANGED <<pc, ids, capacity, failed, dangling, slots>>

\* Mutation: the segments finished so far are sent.
NextSegmentFails_Keep ==
    /\ HasToken
    /\ ~Fits(Token)
    /\ segs' = Append(segs, cur)
    /\ failed' = TRUE /\ UNCHANGED dangling
    /\ pc' = "send"
    /\ UNCHANGED <<ids, capacity, slots, cur>>

\* No memory for the next segment: those before it are freed as well, and so are
\* the slots, to which segments still points.
NextSegmentFails ==
    /\ HasToken
    /\ ~Fits(Token)
    /\ segs' = <<>>
    /\ failed' = TRUE /\ dangling' = TRUE
    /\ pc' = "send"
    /\ UNCHANGED <<ids, capacity, slots, cur>>

LastSegment ==
    /\ pc = "split"
    /\ cur.last = Len(ids)
    /\ segs' = Append(segs, cur)
    /\ pc' = "send"
    /\ UNCHANGED <<ids, capacity, failed, dangling, slots, cur>>

\* The rest of send_ids: the segments, or WAKEUP, go out and are freed, and
\* clean_all_elements empties g_array, which keeps its storage.
Answer ==
    /\ pc = "send"
    /\ ~dangling
    /\ pc' = "receive"
    /\ ids' = <<>>
    /\ failed' = FALSE /\ dangling' = FALSE /\ slots' = 0 /\ segs' = <<>> /\ cur' = EmptyFrom(1)
    /\ UNCHANGED capacity

\* After the WAKEUP, free_segment_array frees the slots a second time, which is
\* undefined: the C library aborts the server, and the model goes no further.
FreeTwice ==
    /\ pc = "send"
    /\ dangling
    /\ pc' = "aborted"
    /\ UNCHANGED <<ids, capacity, splitVars>>

SplitSteps == AddToken \/ NextSegment \/ NextSegmentFails \/ LastSegment

Next ==
    \/ \E l \in Lengths : Add(l)
    \/ \E outOfMemory \in BOOLEAN : NoSegments(outOfMemory)
    \/ FirstSegmentFails \/ BeginSplit \/ SplitSteps
    \/ Answer \/ FreeTwice

Spec == Init /\ [][Next]_vars

-----------------------------------------------------------------------------
Segment == [first : Nat \ {0}, last : Nat, size : Nat]

\* The types.
TypeOK ==
    /\ pc \in {"receive", "split", "send", "aborted"}
    /\ ids \in Seq(Lengths)
    /\ capacity \in Nat /\ capacity >= InitialCapacity
    /\ failed \in BOOLEAN /\ dangling \in BOOLEAN
    /\ slots \in Nat
    /\ segs \in Seq(Segment)
    /\ cur \in Segment

\* No write goes past what was allocated: not the pointer that add_element
\* stores, not the segment that split_buffer enters in its array, not the token
\* that it copies behind the others, with its terminator, into MaxSegmentSize + 1 bytes.
InBounds ==
    /\ Len(ids) <= capacity
    /\ Len(segs) <= slots
    /\ cur.size <= MaxSegmentSize
    /\ \A k \in DOMAIN segs : segs[k].size <= MaxSegmentSize

Follows(s, t) == t.first = s.last + 1

\* s cuts the ids 1..n into neighbouring intervals, none of them empty.
Cuts(s, n) ==
    /\ s = <<>> <=> n = 0
    /\ \A k \in DOMAIN s : s[k].first <= s[k].last
    /\ s # <<>> => s[1].first = 1 /\ s[Len(s)].last = n
    /\ \A k \in 1 .. Len(s) - 1 : Follows(s[k], s[k + 1])

\* What send_ids sends names every id exactly once, or, if it ran out of memory on
\* the way, none: half an acknowledgement would make the client resend the rest.
\* Only a send_ids that sends none ends in the double free.
EveryIdOnce ==
    /\ pc = "send" => IF failed THEN segs = <<>> ELSE Cuts(segs, Len(ids))
    /\ pc = "aborted" => failed /\ segs = <<>>

\* "Clean up and return", says split_buffer where memory runs out, and then its
\* caller frees what was cleaned up.  FreeTwice reaches the opposite.
FreedOnce == pc # "aborted"

\* No packet could have been spared: the first id of a segment did not fit in the
\* segment before it.  (Each packet is one more the network may lose.)
NoneToSpare ==
    pc = "send" => \A k \in 1 .. Len(segs) - 1 :
                       segs[k].size + 1 + ids[segs[k + 1].first] > MaxSegmentSize
=============================================================================
