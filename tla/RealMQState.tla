---------------------------- MODULE RealMQState ----------------------------
(***************************************************************************)
(* The constants and the variables of the client process, of the server    *)
(* process and of the two channels between them.                           *)
(***************************************************************************)
EXTENDS Network, Sequences

CONSTANTS Threads,        \* the client threads: config.num_threads of them
          NumMessages,    \* config.num_messages, for each thread
          MaxId,          \* bound: message ids the atomic counter gives out
          MaxCount,       \* bound: messages the server receives, copies included
          SegmentIds,     \* ids that fit in a segment of MAX_SEGMENT_SIZE bytes
          Faults,         \* the calls that may fail
          UserInterrupt   \* may the user of the client press Ctrl+C?

Responder == "responder"
Free      == "free"

ASSUME RealMQAssumption ==
    /\ Threads \cap {Responder, Free} = {}
    /\ NumMessages \in Nat
    /\ MaxId \in Nat
    /\ MaxCount \in Nat
    /\ SegmentIds \in Nat \ {0}
    /\ Faults \subseteq {"create", "marshal", "send", "resend", "split", "segment"}
    /\ UserInterrupt \in BOOLEAN

\* The channels.
VARIABLES
    c2s,          \* in flight from g_radio and the client threads' radios
    s2c           \* in flight from the server's responder radio

\* The client.
VARIABLES
    pc,           \* where each client thread is
    count,        \* its local count_msg
    newId,        \* the id of the message it is building, 0 before the first
    stops,        \* the STOP packets it has sent
    interrupted,  \* the flag of utils.c that ends the message loops
    lock,         \* the holder of g_array_mutex
    array,        \* g_array: the ids awaiting an acknowledgement, in array order
    nextId,       \* the next value of atomic_msg_id
    timedOut,     \* messages 1..timedOut are older than check_message_timeout allows
    total,        \* g_count_msg
    rpc,          \* where the responder thread is
    acked,        \* the ids of the acknowledgement it is processing
    ri,           \* the index i of diff_from_arrays, from 1
    misses,       \* the missed_count of diff_from_arrays
    missed,       \* g_missed_count
    submitted,    \* history: the ids ever added to g_array
    resent        \* history: the ids sent a second time

senderVars == <<pc, count, newId, stops>>
flagVars   == <<interrupted, total>>
idVars     == <<nextId, timedOut, submitted>>
arrayVars  == <<lock, array, idVars>>
ackVars    == <<rpc, acked, ri, misses, missed, resent>>
clientVars == <<senderVars, flagVars, arrayVars, ackVars>>

\* The server.
VARIABLES
    spc,          \* where the server is
    unacked,      \* its g_array: the ids received since the last send_ids
    received,     \* the ids handed to process_json_message
    countMsg,     \* count_msg: messages received, copies included
    maxId         \* received_messages: the largest id received

serverVars == <<spc, unacked, received, countMsg, maxId>>

netVars == <<c2s, s2c>>
vars == <<netVars, clientVars, serverVars>>
=============================================================================
