------------------------------- MODULE RealMQ -------------------------------
(***************************************************************************)
(* The client and the server over the network, with the properties of the  *)
(* acknowledgement protocol they run together.                             *)
(***************************************************************************)
EXTENDS Client, Server

Init == c2s = {} /\ s2c = {} /\ ClientInit /\ ServerInit

Next == ClientNext \/ ServerNext

Spec == Init /\ [][Next]_vars
-----------------------------------------------------------------------------
Labels == {"loop", "beat", "lock", "create", "add", "send", "drain", "stop", "raise",
           "leave", "done", "exited"}
Ids == 1 .. MaxId
Messages == {MessagePacket(id, try) : id \in Ids, try \in {0, 1}}
Acks == {Ack(ids) : ids \in SUBSET (Ids \cup {0})}

\* The types of the variables.
TypeOK ==
    /\ c2s \subseteq Messages \cup {Heartbeat, Stop}
    /\ s2c \subseteq Acks \cup {Stop}
    /\ pc \in [Threads -> Labels]
    /\ count \in [Threads -> Nat]
    /\ newId \in [Threads -> Ids \cup {0}]
    /\ stops \in [Threads -> Nat]
    /\ interrupted \in BOOLEAN
    /\ lock \in Threads \cup {Responder, Free}
    /\ array \in Seq(Ids)
    /\ nextId \in Nat \ {0} /\ nextId <= MaxId + 1
    /\ timedOut \in Nat
    /\ total \in Nat
    /\ rpc \in {"receive", "lock", "diff", "count", "done", "exited"}
    /\ acked \subseteq Ids \cup {0}
    /\ ri \in Nat
    /\ misses \in Nat
    /\ missed \in Nat
    /\ submitted \subseteq Ids
    /\ resent \subseteq Ids
    /\ spc \in {"receive", "leave", "done", "aborted"}
    /\ unacked \in Seq(Ids)
    /\ received \subseteq Ids
    /\ countMsg \in Nat
    /\ maxId \in Nat
-----------------------------------------------------------------------------
(***************************************************************************)
(* Safety.                                                                 *)
(***************************************************************************)

Waiting == {array[k] : k \in DOMAIN array}      \* the ids in g_array
Forgotten == submitted \ Waiting

\* The missed_count of the diff in progress, or not yet in g_missed_count.
Uncounted == IF rpc \in {"diff", "count", "exited"} THEN misses ELSE 0

\* Every id the server is about to acknowledge, or acknowledges in a segment
\* in flight or being processed, is one it received (or the 0 of WAKEUP):
\* send_ids and unmarshal_uint64_array invent no id.
AckTruthful ==
    /\ \A p \in s2c : p.type = "ACK" => p.ids \subseteq received \cup {0}
    /\ acked \subseteq received \cup {0}
    /\ \A k \in DOMAIN unacked : unacked[k] \in received

\* diff_from_arrays takes a message out of g_array only if the server has it
\* or it was put on the network a second time.
NoSilentDrop == Forgotten \subseteq received \cup resent

\* "Total messages missed", once the responder has counted, is the number of
\* messages it sent a second time: every resend is counted once.
MissedIsResent == missed + Uncounted = Cardinality(resent)

\* However the calls fail, a message the client forgot and the server never
\* got is in "Total messages missed".
DropsCounted == Cardinality(Forgotten \ received) <= missed + Uncounted

\* The ids in g_array ascend: what interpolate_search, called by
\* remove_element_by_id, needs to find every one of them.
Sorted == \A i, j \in DOMAIN array : i < j => array[i] < array[j]

\* No message is sent more than twice, so the server counts at most one
\* message for each one created and each one missed.
CopiesBound == countMsg <= Cardinality(Created) + Cardinality(resent)

\* The server, which stops at the first STOP, does not stop while a message
\* waits for its acknowledgement.
ServerLeavesLast == spc \in {"leave", "done"} => array = <<>>

\* However the first thread to finish cuts the others short: when the client's main
\* has joined its threads, "Total messages sent" counts every message that went into
\* g_array once, and one thread at least has sent all of its own.
SentCounted == ClientFinished => total = Cardinality(submitted) /\ total >= NumMessages

\* When the client's main has joined its threads, "Total messages sent" is
\* num_messages for each thread.
TotalSent == ClientFinished => total = NumMessages * Cardinality(Threads)

\* A client thread that finds g_array_mutex busy finds it held by the
\* responder.
BusyMeansResponder == \A t \in Threads : pc[t] = "loop" => lock \in {Free, Responder}

\* Retransmission makes delivery reliable: a message the client has forgotten
\* was received, or is still on its way.
ReliableDelivery ==
    \A id \in Forgotten :
        id \in received \/ \E try \in {0, 1} : MessagePacket(id, try) \in c2s

\* A message the server has received is not sent to it a second time.
NotSentTwice == [][\A id \in resent' \ resent : id \notin received]_vars
-----------------------------------------------------------------------------
(***************************************************************************)
(* The abstract promise, with g_array as the messages kept.                *)
(***************************************************************************)
Promise == INSTANCE Delivery WITH Message <- Ids, pending <- Waiting, retried <- resent,
                                  delivered <- received

\* The protocol keeps the promise of module Delivery.
KeepsPromise == Promise!Spec
-----------------------------------------------------------------------------
(***************************************************************************)
(* Liveness.  Strong fairness for the threads: they compete for a mutex    *)
(* that every holder gives up and that the others leave alone while they   *)
(* sleep or wait for a packet.  The server waits for packets only.  The    *)
(* network is fair: what is sent again and again gets through, and what is *)
(* in flight arrives.  Under Lossy, DrainBeat and ReceiveHeartbeat change  *)
(* a variable only if their packet was not lost (or one is in flight),     *)
(* which is what their fairness says.                                      *)
(***************************************************************************)
Fairness ==
    /\ \A t \in Threads : SF_vars(SendSteps(t))
    /\ SF_vars(ResponderSteps)
    /\ WF_vars(TimePasses)
    /\ WF_vars(\E p \in c2s : ReceiveMessage(p))
    /\ SF_vars(ReceiveHeartbeat /\ s2c' # {})
    /\ WF_vars(ReceiveStop \/ StopResponder)

FairSpec == Spec /\ Fairness

\* Whatever packets are lost, the server and the responder come to their end, and
\* every client thread empties g_array and comes to its own, unless another's STOP
\* took the server away from a message that still waits for its acknowledgement.
LeftWaiting(t) == pc[t] = "drain" /\ array # <<>>
Terminates ==
    <>[](/\ spc = "done" /\ rpc = "done"
         /\ \A t \in Threads : pc[t] = "done" \/ LeftWaiting(t))

\* The client and the server both come to the end of their main: they end when all
\* messages are acknowledged.  Of several threads, one can be left waiting.
AllEnd == <>(ClientFinished /\ spc = "done")
=============================================================================
