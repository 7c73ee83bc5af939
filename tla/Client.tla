------------------------------- MODULE Client -------------------------------
(***************************************************************************)
(* realmq_client.c with QOS_ENABLE over UDP: client_thread, one per element *)
(* of Threads, and responder_thread, which share g_array under             *)
(* g_array_mutex.  One action is what a thread does between two points at  *)
(* which another thread can see or disturb it.                             *)
(*                                                                         *)
(* The failure detector decides when a thread sends a heartbeat of its own *)
(* accord; here that decision is nondeterministic.                         *)
(***************************************************************************)
EXTENDS RealMQState, SequencesExt

ClientInit ==
    /\ pc = [t \in Threads |-> "loop"]
    /\ count = [t \in Threads |-> 0]
    /\ newId = [t \in Threads |-> 0]
    /\ stops = [t \in Threads |-> 0]
    /\ interrupted = FALSE
    /\ lock = Free
    /\ array = <<>>
    /\ nextId = 1
    /\ timedOut = 0
    /\ total = 0
    /\ rpc = "receive"
    /\ acked = {}
    /\ ri = 0
    /\ misses = 0
    /\ missed = 0
    /\ submitted = {}
    /\ resent = {}

Created == 1 .. nextId - 1
Goto(t, label) == pc' = [pc EXCEPT ![t] = label]
-----------------------------------------------------------------------------
(***************************************************************************)
(* client_thread                                                           *)
(***************************************************************************)

\* while (!interrupted): the flag is read between two messages only.
LeaveLoop(t) ==
    /\ pc[t] = "loop" /\ interrupted
    /\ Goto(t, "leave")
    /\ UNCHANGED <<count, newId, stops, flagVars, arrayVars, ackVars, netVars,
                   serverVars>>

\* Mutation: straight to STOP, without waiting for g_array to be empty.
BeginDrain_NoWait(t) ==
    /\ pc[t] = "loop" /\ ~interrupted
    /\ count[t] = NumMessages
    /\ Goto(t, "stop")
    /\ UNCHANGED <<count, newId, stops, flagVars, arrayVars, ackVars, netVars,
                   serverVars>>

\* All messages are out: on to the loop that waits for g_array to be empty.
BeginDrain(t) ==
    /\ pc[t] = "loop" /\ ~interrupted
    /\ count[t] = NumMessages
    /\ Goto(t, "drain")
    /\ UNCHANGED <<count, newId, stops, flagVars, arrayVars, ackVars, netVars,
                   serverVars>>

\* pthread_mutex_trylock, then an immediate unlock: the mutex was free at this
\* instant, which is all it tells.  With EBUSY the thread goes round again.
TryLock(t) ==
    /\ pc[t] = "loop" /\ ~interrupted
    /\ count[t] # NumMessages
    /\ lock = Free
    /\ Goto(t, "beat")
    /\ UNCHANGED <<count, newId, stops, flagVars, arrayVars, ackVars, netVars,
                   serverVars>>

\* send_heartbeat without force: an HB only when the detector finds the link
\* unavailable.  A failed send is logged and is like a lost packet.
Beat(t) ==
    /\ pc[t] = "beat"
    /\ \/ UNCHANGED c2s
       \/ c2s' \in Sent(c2s, {Heartbeat})
    /\ Goto(t, "lock")
    /\ UNCHANGED <<count, newId, stops, flagVars, arrayVars, ackVars, s2c,
                   serverVars>>

\* Mutation: the message is created outside g_array_mutex.
LockArray_Unlocked(t) ==
    /\ pc[t] = "lock"
    /\ Goto(t, "create")
    /\ UNCHANGED <<count, newId, stops, flagVars, arrayVars, ackVars, netVars,
                   serverVars>>

LockArray(t) ==
    /\ pc[t] = "lock"
    /\ lock = Free
    /\ lock' = t
    /\ Goto(t, "create")
    /\ UNCHANGED <<count, newId, stops, flagVars, array, idVars, ackVars, netVars,
                   serverVars>>

\* create_element: the id is taken from atomic_msg_id first.
CreateMessage(t) ==
    /\ pc[t] = "create"
    /\ nextId <= MaxId
    /\ newId' = [newId EXCEPT ![t] = nextId]
    /\ nextId' = nextId + 1
    /\ Goto(t, "add")
    /\ UNCHANGED <<count, stops, flagVars, lock, array, timedOut, submitted,
                   ackVars, netVars, serverVars>>

\* create_element out of memory: the id is used up, and `continue` goes back to
\* the head of the loop with g_array_mutex still locked.
CreateFails(t) ==
    /\ pc[t] = "create"
    /\ "create" \in Faults
    /\ nextId <= MaxId
    /\ nextId' = nextId + 1
    /\ Goto(t, "loop")
    /\ UNCHANGED <<count, newId, stops, flagVars, lock, array, timedOut,
                   submitted, ackVars, netVars, serverVars>>

AddMessage(t) ==
    /\ pc[t] = "add"
    /\ array' = Append(array, newId[t])
    /\ submitted' = submitted \cup {newId[t]}
    /\ Goto(t, "send")
    /\ UNCHANGED <<count, newId, stops, flagVars, lock, nextId, timedOut, ackVars,
                   netVars, serverVars>>

SendMessage(t) ==
    /\ pc[t] = "send"
    /\ c2s' \in Sent(c2s, {MessagePacket(newId[t], 0)})
    /\ count' = [count EXCEPT ![t] = @ + 1]
    /\ lock' = Free
    /\ Goto(t, "loop")
    /\ UNCHANGED <<newId, stops, flagVars, array, idVars, ackVars, s2c,
                   serverVars>>

\* marshal_message returns NULL: the message stays in g_array, unsent, and the
\* thread builds another one in its place.
MarshalFails(t) ==
    /\ pc[t] = "send"
    /\ "marshal" \in Faults
    /\ lock' = Free
    /\ Goto(t, "loop")
    /\ UNCHANGED <<count, newId, stops, flagVars, array, idVars, ackVars, netVars,
                   serverVars>>

\* zmq_send_group returns -1: the thread leaves without a STOP to the server.
SendFails(t) ==
    /\ pc[t] = "send"
    /\ "send" \in Faults
    /\ lock' = Free
    /\ Goto(t, "leave")
    /\ UNCHANGED <<count, newId, stops, flagVars, array, idVars, ackVars, netVars,
                   serverVars>>

\* The drain loop: under the mutex, an HB to make the server flush its acks...
DrainBeat(t) ==
    /\ pc[t] = "drain"
    /\ lock = Free
    /\ array # <<>>
    /\ c2s' \in Sent(c2s, {Heartbeat})
    /\ UNCHANGED <<s2c, clientVars, serverVars>>

\* ...until g_array is empty.
DrainDone(t) ==
    /\ pc[t] = "drain"
    /\ lock = Free
    /\ array = <<>>
    /\ Goto(t, "stop")
    /\ UNCHANGED <<count, newId, stops, flagVars, arrayVars, ackVars, netVars,
                   serverVars>>

\* STOP goes out three times, each followed by handle_interrupt.
SendStop(t) ==
    /\ pc[t] = "stop"
    /\ c2s' \in Sent(c2s, {Stop})
    /\ stops' = [stops EXCEPT ![t] = @ + 1]
    /\ Goto(t, "raise")
    /\ UNCHANGED <<count, newId, flagVars, arrayVars, ackVars, s2c, serverVars>>

RaiseInterrupt(t) ==
    /\ pc[t] = "raise"
    /\ interrupted' = TRUE
    /\ Goto(t, IF stops[t] < 3 THEN "stop" ELSE "leave")
    /\ UNCHANGED <<count, newId, stops, total, arrayVars, ackVars, netVars,
                   serverVars>>

\* Mutation: g_count_msg is written from a value read without its mutex.
Leave_Overwrite(t) ==
    /\ pc[t] = "leave"
    /\ total' = count[t]
    /\ Goto(t, "done")
    /\ UNCHANGED <<count, newId, stops, interrupted, arrayVars, ackVars, netVars,
                   serverVars>>

\* Under g_count_msg_mutex, the messages of the thread are added to g_count_msg.
Leave(t) ==
    /\ pc[t] = "leave"
    /\ total' = total + count[t]
    /\ Goto(t, "done")
    /\ UNCHANGED <<count, newId, stops, interrupted, arrayVars, ackVars, netVars,
                   serverVars>>
-----------------------------------------------------------------------------
(***************************************************************************)
(* responder_thread and diff_from_arrays                                   *)
(***************************************************************************)

ReceiveAck(p) ==
    /\ rpc = "receive"
    /\ p \in s2c /\ p.type = "ACK"
    /\ s2c' \in Taken(s2c, p)
    /\ acked' = p.ids
    /\ rpc' = "lock"
    /\ UNCHANGED <<senderVars, flagVars, arrayVars, ri, misses, missed, resent,
                   c2s, serverVars>>

\* The only way out of the responder's loop, which does not look at interrupted.
ReceiveServerStop ==
    /\ rpc = "receive"
    /\ Stop \in s2c
    /\ s2c' \in Taken(s2c, Stop)
    /\ rpc' = "done"
    /\ UNCHANGED <<senderVars, flagVars, arrayVars, acked, ri, misses, missed,
                   resent, c2s, serverVars>>

\* Mutation: missed_count keeps its value from the acknowledgement before.
LockForDiff_NoReset ==
    /\ rpc = "lock"
    /\ lock = Free
    /\ lock' = Responder
    /\ rpc' = "diff"
    /\ ri' = Len(array)
    /\ UNCHANGED <<senderVars, flagVars, array, idVars, acked, misses, missed, resent,
                   netVars, serverVars>>

\* Mutation: the index counted from 0, as in C, where the array starts at 1.
LockForDiff_OffByOne ==
    /\ rpc = "lock"
    /\ lock = Free
    /\ lock' = Responder
    /\ rpc' = "diff"
    /\ ri' = Len(array) - 1
    /\ misses' = 0
    /\ UNCHANGED <<senderVars, flagVars, array, idVars, acked, missed, resent,
                   netVars, serverVars>>

LockForDiff ==
    /\ rpc = "lock"
    /\ lock = Free
    /\ lock' = Responder
    /\ rpc' = "diff"
    /\ ri' = Len(array)
    /\ misses' = 0
    /\ UNCHANGED <<senderVars, flagVars, array, idVars, acked, missed, resent,
                   netVars, serverVars>>

\* Mutation: the search ends one place too far.
RemoveId_OffByOne(a, id) ==
    IF \E k \in DOMAIN a : a[k] = id
    THEN LET k == CHOOSE k \in DOMAIN a : a[k] = id
         IN RemoveAt(a, IF k < Len(a) THEN k + 1 ELSE k)
    ELSE a

\* remove_element_by_id on g_array, whose ids are in ascending order.
RemoveId(a, id) ==
    IF \E k \in DOMAIN a : a[k] = id
    THEN RemoveAt(a, CHOOSE k \in DOMAIN a : a[k] = id)
    ELSE a

\* An acknowledged message is forgotten.
DiffReceived ==
    /\ rpc = "diff" /\ ri > 0
    /\ array[ri] \in acked
    /\ array' = RemoveId(array, array[ri])
    /\ ri' = ri - 1
    /\ UNCHANGED <<senderVars, flagVars, lock, idVars, rpc, acked, misses, missed,
                   resent, netVars, serverVars>>

\* One not acknowledged, but young, is kept for a later acknowledgement.
DiffKept ==
    /\ rpc = "diff" /\ ri > 0
    /\ array[ri] \notin acked
    /\ array[ri] > timedOut
    /\ ri' = ri - 1
    /\ UNCHANGED <<senderVars, flagVars, arrayVars, rpc, acked, misses, missed,
                   resent, netVars, serverVars>>

\* Mutation: the message stays in g_array, to be sent again and again.
DiffMissed_Keep ==
    /\ rpc = "diff" /\ ri > 0
    /\ array[ri] \notin acked
    /\ array[ri] <= timedOut
    /\ misses' = misses + 1
    /\ c2s' \in Sent(c2s, {MessagePacket(array[ri], 1)})
    /\ resent' = resent \cup {array[ri]}
    /\ ri' = ri - 1
    /\ UNCHANGED <<senderVars, flagVars, lock, array, idVars, rpc, acked, missed, s2c,
                   serverVars>>

\* One not acknowledged in time is sent again, once, and forgotten.
DiffMissed ==
    /\ rpc = "diff" /\ ri > 0
    /\ array[ri] \notin acked
    /\ array[ri] <= timedOut
    /\ misses' = misses + 1
    /\ c2s' \in Sent(c2s, {MessagePacket(array[ri], 1)})
    /\ resent' = resent \cup {array[ri]}
    /\ array' = RemoveId(array, array[ri])
    /\ ri' = ri - 1
    /\ UNCHANGED <<senderVars, flagVars, lock, idVars, rpc, acked, missed, s2c,
                   serverVars>>

\* marshal_message returns NULL in there: counted and forgotten, but not sent.
DiffMarshalFails ==
    /\ rpc = "diff" /\ ri > 0
    /\ "marshal" \in Faults
    /\ array[ri] \notin acked
    /\ array[ri] <= timedOut
    /\ misses' = misses + 1
    /\ array' = RemoveId(array, array[ri])
    /\ ri' = ri - 1
    /\ UNCHANGED <<senderVars, flagVars, lock, idVars, rpc, acked, missed, resent,
                   netVars, serverVars>>

\* zmq_send_group returns -1 in there: exit(EXIT_FAILURE) ends every thread.
DiffSendFails ==
    /\ rpc = "diff" /\ ri > 0
    /\ "resend" \in Faults
    /\ array[ri] \notin acked
    /\ array[ri] <= timedOut
    /\ misses' = misses + 1
    /\ rpc' = "exited"
    /\ pc' = [t \in Threads |-> "exited"]
    /\ UNCHANGED <<count, newId, stops, flagVars, arrayVars, acked, ri, missed,
                   resent, netVars, serverVars>>

UnlockAfterDiff ==
    /\ rpc = "diff" /\ ri = 0
    /\ lock' = Free
    /\ rpc' = "count"
    /\ UNCHANGED <<senderVars, flagVars, array, idVars, acked, ri, misses, missed,
                   resent, netVars, serverVars>>

\* Mutation: g_missed_count is overwritten.
CountMissed_Overwrite ==
    /\ rpc = "count"
    /\ missed' = misses
    /\ rpc' = "receive"
    /\ UNCHANGED <<senderVars, flagVars, arrayVars, acked, ri, misses, resent,
                   netVars, serverVars>>

\* adjust_intervals changes the failure detector only; then g_missed_count,
\* under its own mutex.
CountMissed ==
    /\ rpc = "count"
    /\ missed' = missed + misses
    /\ rpc' = "receive"
    /\ UNCHANGED <<senderVars, flagVars, arrayVars, acked, ri, misses, resent,
                   netVars, serverVars>>
-----------------------------------------------------------------------------
\* Time passes: the oldest message that was not yet too old becomes it.
\* Timestamps grow with the ids, both being taken under g_array_mutex.
TimePasses ==
    /\ timedOut + 1 \in Created
    /\ timedOut' = timedOut + 1
    /\ UNCHANGED <<senderVars, flagVars, lock, array, nextId, submitted, ackVars,
                   netVars, serverVars>>

\* Ctrl+C: handle_interrupt as the signal handler.
Interrupt ==
    /\ UserInterrupt
    /\ ~interrupted
    /\ interrupted' = TRUE
    /\ UNCHANGED <<senderVars, total, arrayVars, ackVars, netVars, serverVars>>

\* main joins the client threads and then the responder.
ClientFinished == rpc = "done" /\ \A t \in Threads : pc[t] = "done"

SendSteps(t) ==
    \/ LeaveLoop(t) \/ BeginDrain(t) \/ TryLock(t) \/ Beat(t) \/ LockArray(t)
    \/ CreateMessage(t) \/ CreateFails(t) \/ AddMessage(t)
    \/ SendMessage(t) \/ MarshalFails(t) \/ SendFails(t)
    \/ DrainBeat(t) \/ DrainDone(t) \/ SendStop(t) \/ RaiseInterrupt(t) \/ Leave(t)

DiffSteps ==
    \/ LockForDiff \/ DiffReceived \/ DiffKept \/ DiffMissed \/ DiffMarshalFails
    \/ DiffSendFails \/ UnlockAfterDiff \/ CountMissed

ResponderSteps == (\E p \in s2c : ReceiveAck(p)) \/ ReceiveServerStop \/ DiffSteps

ClientNext ==
    (\E t \in Threads : SendSteps(t)) \/ ResponderSteps \/ TimePasses \/ Interrupt
=============================================================================
