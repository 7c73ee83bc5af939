------------------------------- MODULE Server -------------------------------
(***************************************************************************)
(* realmq_server.c with QOS_ENABLE: server_thread, which receives messages *)
(* and acknowledges them when it is asked to, and the end of main, which   *)
(* tells the client's responder to stop.  g_array belongs to server_thread *)
(* alone, so what it does for one packet is one action.                    *)
(***************************************************************************)
EXTENDS RealMQState

ServerInit ==
    /\ spc = "receive"
    /\ unacked = <<>>
    /\ received = {}
    /\ countMsg = 0
    /\ maxId = 0

\* marshal_and_split: the ids in the order they came, SegmentIds to a segment.
SegmentOf(j) == (j - 1) \div SegmentIds

\* Mutation: a cumulative acknowledgement of all ids up to the largest.
Segments_Cumulative(ids) ==
    {Ack(1 .. ids[k]) : k \in DOMAIN ids}

Segments(ids) ==
    {Ack({ids[j] : j \in {i \in DOMAIN ids : SegmentOf(i) = SegmentOf(k)}}) : k \in DOMAIN ids}

\* send_ids: every segment, or WAKEUP when there is none.  The ids are forgotten
\* whatever became of the segments, and also when there was no memory for their text
\* or their array.
SendIds ==
    /\ \/ /\ unacked # <<>>
          /\ s2c' \in Sent(s2c, Segments(unacked))
       \/ /\ unacked = <<>> \/ "split" \in Faults
          /\ s2c' \in Sent(s2c, {Wakeup})
    /\ unacked' = <<>>

\* unmarshal_message, process_json_message and the bookkeeping.  The original
\* and the resend of a message are told apart by nobody here.
ReceiveMessage(p) ==
    /\ spc = "receive"
    /\ p \in c2s /\ p.type = "MSG"
    /\ countMsg < MaxCount
    /\ c2s' \in Taken(c2s, p)
    /\ unacked' = Append(unacked, p.id)
    /\ received' = received \cup {p.id}
    /\ countMsg' = countMsg + 1
    /\ maxId' = IF p.id > maxId THEN p.id ELSE maxId
    /\ UNCHANGED <<spc, s2c, clientVars>>

\* Mutation: a heartbeat is answered only if there is something to acknowledge.
ReceiveHeartbeat_NoWakeup ==
    /\ spc = "receive"
    /\ Heartbeat \in c2s
    /\ unacked # <<>>
    /\ c2s' \in Taken(c2s, Heartbeat)
    /\ SendIds
    /\ UNCHANGED <<spc, received, countMsg, maxId, clientVars>>

ReceiveHeartbeat ==
    /\ spc = "receive"
    /\ Heartbeat \in c2s
    /\ c2s' \in Taken(c2s, Heartbeat)
    /\ SendIds
    /\ UNCHANGED <<spc, received, countMsg, maxId, clientVars>>

\* The last acknowledgements, then out of the loop.
ReceiveStop ==
    /\ spc = "receive"
    /\ Stop \in c2s
    /\ c2s' \in Taken(c2s, Stop)
    /\ SendIds
    /\ spc' = "leave"
    /\ UNCHANGED <<received, countMsg, maxId, clientVars>>

\* With no memory for the bytes of a segment, split_buffer returns an array that it
\* has freed: WAKEUP goes out, and free_segment_array frees it again, which the C
\* library answers by aborting the server (module AckSegments).
FreeTwice(p) ==
    /\ spc = "receive"
    /\ "segment" \in Faults
    /\ p \in {Heartbeat, Stop} \cap c2s
    /\ unacked # <<>>
    /\ c2s' \in Taken(c2s, p)
    /\ s2c' \in Sent(s2c, {Wakeup})
    /\ spc' = "aborted"
    /\ UNCHANGED <<unacked, received, countMsg, maxId, clientVars>>

\* main, after the join and the last save: STOP to the responder, once.
StopResponder ==
    /\ spc = "leave"
    /\ s2c' \in Sent(s2c, {Stop})
    /\ spc' = "done"
    /\ UNCHANGED <<c2s, unacked, received, countMsg, maxId, clientVars>>

ServerNext ==
    \/ \E p \in c2s : ReceiveMessage(p) \/ FreeTwice(p)
    \/ ReceiveHeartbeat \/ ReceiveStop \/ StopResponder
=============================================================================
