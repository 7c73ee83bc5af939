--------------------------- MODULE RealMQ_proofs ---------------------------
(***************************************************************************)
(* Proofs about module RealMQ: its types, that acknowledgements are        *)
(* truthful, that no message is dropped in silence or without being        *)
(* counted, and that the server outlives a client of one thread.           *)
(***************************************************************************)
EXTENDS RealMQ, FiniteSetTheorems, TLAPS

-----------------------------------------------------------------------------
(***************************************************************************)
(* The network adds nothing to what was sent, nor to what was in flight.   *)
(***************************************************************************)

LEMMA SentIsSubset ==
    ASSUME NEW net, NEW pkts, NEW n \in Sent(net, pkts)
    PROVE  n \subseteq net \cup pkts
BY DEF Sent

LEMMA TakenIsSubset ==
    ASSUME NEW net, NEW p, NEW n \in Taken(net, p)
    PROVE  n \subseteq net
BY DEF Taken
-----------------------------------------------------------------------------
(***************************************************************************)
(* What remove_element_by_id leaves of g_array.                            *)
(***************************************************************************)

LEMMA RemoveAtIndex ==
    ASSUME NEW S, NEW a \in Seq(S), NEW k \in 1 .. Len(a)
    PROVE  /\ RemoveAt(a, k) \in Seq(S)
           /\ Len(RemoveAt(a, k)) = Len(a) - 1
           /\ \A j \in 1 .. Len(a) - 1 :
                 RemoveAt(a, k)[j] = IF j < k THEN a[j] ELSE a[j + 1]
<1> DEFINE left  == SubSeq(a, 1, k - 1)
           right == SubSeq(a, k + 1, Len(a))
<1>1. left \in Seq(S) /\ Len(left) = k - 1 /\ \A j \in 1 .. k - 1 : left[j] = a[j]
    OBVIOUS
<1>2. right \in Seq(S) /\ Len(right) = Len(a) - k
      /\ \A j \in 1 .. Len(a) - k : right[j] = a[j + k]
    OBVIOUS
<1>3. RemoveAt(a, k) = left \o right
    BY DEF RemoveAt
<1> HIDE DEF left, right
<1>4. left \o right \in Seq(S) /\ Len(left \o right) = Len(a) - 1
    BY <1>1, <1>2
<1>5. ASSUME NEW j \in 1 .. Len(a) - 1
      PROVE  (left \o right)[j] = IF j < k THEN a[j] ELSE a[j + 1]
    <2>1. CASE j < k
        <3>1. j \in 1 .. Len(left)
            BY <1>1, <2>1
        <3> QED
            BY <1>1, <1>2, <2>1, <3>1
    <2>2. CASE ~(j < k)
        <3>1. j - (k - 1) \in 1 .. Len(a) - k
            BY <2>2
        <3>2. (left \o right)[j] = right[j - (k - 1)]
            BY <1>1, <1>2, <2>2, <3>1
        <3>3. (j - (k - 1)) + k = j + 1
            OBVIOUS
        <3> QED
            BY <1>2, <2>2, <3>1, <3>2, <3>3
    <2> QED
        BY <2>1, <2>2
<1> QED
    BY <1>3, <1>4, <1>5

LEMMA RemoveIdType ==
    ASSUME NEW S, NEW a \in Seq(S), NEW id
    PROVE  /\ RemoveId(a, id) \in Seq(S)
           /\ Len(RemoveId(a, id)) >= Len(a) - 1
           /\ Len(RemoveId(a, id)) <= Len(a)
<1>1. CASE \E k \in DOMAIN a : a[k] = id
    <2> DEFINE k == CHOOSE x \in DOMAIN a : a[x] = id
    <2>1. k \in 1 .. Len(a)
        BY <1>1
    <2>2. RemoveId(a, id) = RemoveAt(a, k)
        BY <1>1 DEF RemoveId
    <2> HIDE DEF k
    <2> QED
        BY <2>1, <2>2, RemoveAtIndex
<1>2. CASE ~\E k \in DOMAIN a : a[k] = id
    BY <1>2 DEF RemoveId
<1> QED
    BY <1>1, <1>2

\* Only the message with this id is gone.
LEMMA RemoveIdKeepsOthers ==
    ASSUME NEW S, NEW a \in Seq(S), NEW id, NEW j \in DOMAIN a, a[j] # id
    PROVE  \E i \in DOMAIN RemoveId(a, id) : RemoveId(a, id)[i] = a[j]
<1>1. CASE \E k \in DOMAIN a : a[k] = id
    <2> DEFINE k == CHOOSE x \in DOMAIN a : a[x] = id
    <2>1. k \in 1 .. Len(a) /\ a[k] = id
        BY <1>1
    <2>2. RemoveId(a, id) = RemoveAt(a, k)
        BY <1>1 DEF RemoveId
    <2> HIDE DEF k
    <2>3. j \in 1 .. Len(a) /\ j # k
        BY <2>1
    <2>4. /\ DOMAIN RemoveAt(a, k) = 1 .. Len(a) - 1
          /\ \A i \in 1 .. Len(a) - 1 :
                RemoveAt(a, k)[i] = IF i < k THEN a[i] ELSE a[i + 1]
        <3>1. /\ RemoveAt(a, k) \in Seq(S)
              /\ Len(RemoveAt(a, k)) = Len(a) - 1
              /\ \A i \in 1 .. Len(a) - 1 :
                    RemoveAt(a, k)[i] = IF i < k THEN a[i] ELSE a[i + 1]
            BY <2>1, RemoveAtIndex
        <3> QED
            BY <3>1
    <2>5. CASE j < k
        <3>1. j \in 1 .. Len(a) - 1 /\ RemoveAt(a, k)[j] = a[j]
            BY <2>1, <2>3, <2>4, <2>5
        <3> QED
            BY <3>1, <2>2, <2>4
    <2>6. CASE j > k
        <3>1. j - 1 \in 1 .. Len(a) - 1 /\ ~(j - 1 < k) /\ (j - 1) + 1 = j
            BY <2>1, <2>3, <2>6
        <3>2. RemoveAt(a, k)[j - 1] = a[j]
            BY <3>1, <2>4
        <3> QED
            BY <3>1, <3>2, <2>2, <2>4
    <2> QED
        BY <2>1, <2>3, <2>5, <2>6
<1>2. CASE ~\E k \in DOMAIN a : a[k] = id
    BY <1>2 DEF RemoveId
<1> QED
    BY <1>1, <1>2
-----------------------------------------------------------------------------
(***************************************************************************)
(* Types.  The id a thread appends to g_array is one it was given, and     *)
(* diff_from_arrays never looks past the end of g_array.                   *)
(***************************************************************************)

HasId == \A t \in Threads : pc[t] \in {"add", "send"} => newId[t] \in Ids
InBounds == rpc = "diff" => ri <= Len(array)
TypeInv == TypeOK /\ HasId /\ InBounds

LEMMA InitType == Init => TypeInv
<1> SUFFICES ASSUME Init
             PROVE  TypeInv
    OBVIOUS
<1> USE DEF Init, ClientInit, ServerInit
<1>1. <<>> \in Seq(Ids)
    OBVIOUS
<1>2. pc \in [Threads -> Labels] /\ newId \in [Threads -> Ids \cup {0}]
    BY DEF Labels
<1>3. HasId /\ InBounds
    BY DEF HasId, InBounds
<1>4. /\ count \in [Threads -> Nat] /\ stops \in [Threads -> Nat]
      /\ lock \in Threads \cup {Responder, Free}
      /\ nextId \in Nat \ {0} /\ nextId <= MaxId + 1
    BY RealMQAssumption
<1>5. /\ c2s \subseteq Messages \cup {Heartbeat, Stop} /\ s2c \subseteq Acks \cup {Stop}
      /\ submitted \subseteq Ids /\ resent \subseteq Ids /\ received \subseteq Ids
      /\ acked \subseteq Ids \cup {0}
    OBVIOUS
<1>6. TypeOK
    BY <1>1, <1>2, <1>4, <1>5 DEF TypeOK
<1> QED
    BY <1>3, <1>6 DEF TypeInv

\* What a client thread does.
LEMMA SenderType ==
    ASSUME TypeInv, NEW t \in Threads, SendSteps(t)
    PROVE  TypeInv'
<1> USE RealMQAssumption
<1> USE DEF TypeInv, TypeOK, HasId, InBounds, Labels, Goto, netVars, arrayVars, idVars,
        ackVars, senderVars, flagVars, serverVars
<1>1. CASE LeaveLoop(t)
    BY <1>1 DEF LeaveLoop
<1>2. CASE BeginDrain(t)
    BY <1>2 DEF BeginDrain
<1>3. CASE TryLock(t)
    BY <1>3 DEF TryLock
<1>4. CASE Beat(t)
    <2>1. c2s' \subseteq Messages \cup {Heartbeat, Stop}
        BY <1>4, SentIsSubset DEF Beat
    <2> QED
        BY <1>4, <2>1 DEF Beat
<1>5. CASE LockArray(t)
    BY <1>5 DEF LockArray
<1>6. CASE CreateMessage(t)
    BY <1>6 DEF CreateMessage, Ids
<1>7. CASE CreateFails(t)
    BY <1>7 DEF CreateFails
<1>8. CASE AddMessage(t)
    <2>1. newId[t] \in Ids
        BY <1>8 DEF AddMessage
    <2>2. array' \in Seq(Ids) /\ Len(array') = Len(array) + 1
        BY <1>8, <2>1 DEF AddMessage
    <2> QED
        BY <1>8, <2>1, <2>2 DEF AddMessage
<1>9. CASE SendMessage(t)
    <2>1. MessagePacket(newId[t], 0) \in Messages
        BY <1>9 DEF SendMessage, Messages
    <2>2. c2s' \subseteq Messages \cup {Heartbeat, Stop}
        BY <1>9, <2>1, SentIsSubset DEF SendMessage
    <2> QED
        BY <1>9, <2>2 DEF SendMessage
<1>10. CASE MarshalFails(t)
    BY <1>10 DEF MarshalFails
<1>11. CASE SendFails(t)
    BY <1>11 DEF SendFails
<1>12. CASE DrainBeat(t)
    <2>1. c2s' \subseteq Messages \cup {Heartbeat, Stop}
        BY <1>12, SentIsSubset DEF DrainBeat
    <2> QED
        BY <1>12, <2>1 DEF DrainBeat, clientVars
<1>13. CASE DrainDone(t)
    BY <1>13 DEF DrainDone
<1>14. CASE SendStop(t)
    <2>1. c2s' \subseteq Messages \cup {Heartbeat, Stop}
        BY <1>14, SentIsSubset DEF SendStop
    <2> QED
        BY <1>14, <2>1 DEF SendStop
<1>15. CASE RaiseInterrupt(t)
    BY <1>15 DEF RaiseInterrupt
<1>16. CASE Leave(t)
    BY <1>16 DEF Leave
<1> QED
    BY <1>1, <1>2, <1>3, <1>4, <1>5, <1>6, <1>7, <1>8, <1>9, <1>10, <1>11, <1>12, <1>13,
       <1>14, <1>15, <1>16 DEF SendSteps

\* What the responder thread, the clock and the user do.
LEMMA ResponderType ==
    ASSUME TypeInv, ResponderSteps \/ TimePasses \/ Interrupt
    PROVE  TypeInv'
<1> USE RealMQAssumption
<1> USE DEF TypeInv, TypeOK, HasId, InBounds, Labels, netVars, arrayVars, idVars,
        ackVars, senderVars, flagVars, serverVars
<1>1. ASSUME NEW p \in s2c, ReceiveAck(p)
      PROVE  TypeInv'
    <2>1. p \in Acks
        BY <1>1 DEF ReceiveAck, Stop
    <2>2. p.ids \subseteq Ids \cup {0}
        BY <2>1 DEF Acks, Ack
    <2>3. s2c' \subseteq Acks \cup {Stop}
        BY <1>1, TakenIsSubset DEF ReceiveAck
    <2> QED
        BY <1>1, <2>2, <2>3 DEF ReceiveAck
<1>2. CASE ReceiveServerStop
    <2>1. s2c' \subseteq Acks \cup {Stop}
        BY <1>2, TakenIsSubset DEF ReceiveServerStop
    <2> QED
        BY <1>2, <2>1 DEF ReceiveServerStop
<1>3. CASE LockForDiff
    BY <1>3 DEF LockForDiff
<1>4. ASSUME rpc = "diff", ri > 0
      PROVE  /\ array[ri] \in Ids
             /\ RemoveId(array, array[ri]) \in Seq(Ids)
             /\ ri - 1 \in Nat
             /\ ri - 1 <= Len(RemoveId(array, array[ri]))
    <2>1. ri \in 1 .. Len(array)
        BY <1>4
    <2> QED
        BY <2>1, RemoveIdType
<1>5. CASE DiffReceived
    BY <1>4, <1>5 DEF DiffReceived
<1>6. CASE DiffKept
    BY <1>6 DEF DiffKept
<1>7. CASE DiffMissed
    <2>1. array[ri] \in Ids
        BY <1>4, <1>7 DEF DiffMissed
    <2>2. MessagePacket(array[ri], 1) \in Messages
        BY <2>1 DEF Messages
    <2>3. c2s' \subseteq Messages \cup {Heartbeat, Stop}
        BY <1>7, <2>2, SentIsSubset DEF DiffMissed
    <2> QED
        BY <1>4, <1>7, <2>1, <2>3 DEF DiffMissed
<1>8. CASE DiffMarshalFails
    BY <1>4, <1>8 DEF DiffMarshalFails
<1>9. CASE DiffSendFails
    BY <1>9 DEF DiffSendFails
<1>10. CASE UnlockAfterDiff
    BY <1>10 DEF UnlockAfterDiff
<1>11. CASE CountMissed
    BY <1>11 DEF CountMissed
<1>12. CASE TimePasses
    BY <1>12 DEF TimePasses
<1>13. CASE Interrupt
    BY <1>13 DEF Interrupt
<1> QED
    BY <1>1, <1>2, <1>3, <1>5, <1>6, <1>7, <1>8, <1>9, <1>10, <1>11, <1>12, <1>13
       DEF ResponderSteps, DiffSteps

\* Every segment names ids of the array it was made from.
LEMMA SegmentsName ==
    ASSUME NEW ids, NEW p \in Segments(ids)
    PROVE  p.type = "ACK" /\ p.ids \subseteq {ids[k] : k \in DOMAIN ids}
           /\ p = Ack(p.ids)
BY DEF Segments, Ack

\* What send_ids puts on the network.
LEMMA SendIdsPackets ==
    ASSUME SendIds, NEW p \in s2c', p \notin s2c
    PROVE  /\ p = Ack(p.ids) /\ p.type = "ACK"
           /\ p.ids \subseteq {unacked[k] : k \in DOMAIN unacked} \cup {0}
<1>1. CASE s2c' \in Sent(s2c, Segments(unacked))
    BY <1>1, SentIsSubset, SegmentsName
<1>2. CASE s2c' \in Sent(s2c, {Wakeup})
    BY <1>2, SentIsSubset DEF Wakeup, Ack
<1> QED
    BY <1>1, <1>2 DEF SendIds

\* What the server does.
LEMMA ServerType ==
    ASSUME TypeInv, ServerNext
    PROVE  TypeInv'
<1> USE RealMQAssumption
<1> USE DEF TypeInv, TypeOK, HasId, InBounds, netVars, arrayVars, idVars, ackVars,
        senderVars, flagVars, clientVars
<1>1. ASSUME NEW p \in c2s, ReceiveMessage(p)
      PROVE  TypeInv'
    <2>0. p.type = "MSG" /\ p \in Messages \cup {Heartbeat, Stop}
        BY <1>1 DEF ReceiveMessage
    <2>1. p.id \in Ids
        BY <2>0 DEF Messages, MessagePacket, Heartbeat, Stop
    <2>2. c2s' \subseteq Messages \cup {Heartbeat, Stop}
        BY <1>1, TakenIsSubset DEF ReceiveMessage
    <2>3. unacked' \in Seq(Ids)
        BY <1>1, <2>1 DEF ReceiveMessage
    <2>4. maxId' \in Nat
        BY <1>1, <2>1 DEF ReceiveMessage, Ids
    <2> QED
        BY <1>1, <2>1, <2>2, <2>3, <2>4 DEF ReceiveMessage
<1>2. ASSUME SendIds
      PROVE  s2c' \subseteq Acks \cup {Stop} /\ unacked' \in Seq(Ids)
    <2>1. ASSUME NEW p \in s2c', p \notin s2c
          PROVE  p \in Acks
        <3>1. p.ids \subseteq Ids \cup {0}
            BY <1>2, <2>1, SendIdsPackets
        <3> QED
            BY <1>2, <2>1, <3>1, SendIdsPackets DEF Acks
    <2> QED
        BY <1>2, <2>1 DEF SendIds
<1>3. CASE ReceiveHeartbeat
    <2>1. c2s' \subseteq Messages \cup {Heartbeat, Stop}
        BY <1>3, TakenIsSubset DEF ReceiveHeartbeat
    <2> QED
        BY <1>2, <1>3, <2>1 DEF ReceiveHeartbeat
<1>4. CASE ReceiveStop
    <2>1. c2s' \subseteq Messages \cup {Heartbeat, Stop}
        BY <1>4, TakenIsSubset DEF ReceiveStop
    <2> QED
        BY <1>2, <1>4, <2>1 DEF ReceiveStop
<1>5. CASE StopResponder
    <2>1. s2c' \subseteq Acks \cup {Stop}
        BY <1>5, SentIsSubset DEF StopResponder
    <2> QED
        BY <1>5, <2>1 DEF StopResponder
<1>6. ASSUME NEW p \in c2s, FreeTwice(p)
      PROVE  TypeInv'
    <2>1. c2s' \subseteq Messages \cup {Heartbeat, Stop}
        BY <1>6, TakenIsSubset DEF FreeTwice
    <2>2. s2c' \subseteq Acks \cup {Stop}
        <3>1. Wakeup \in Acks
            BY DEF Wakeup, Acks
        <3> QED
            BY <1>6, <3>1, SentIsSubset DEF FreeTwice
    <2> QED
        BY <1>6, <2>1, <2>2 DEF FreeTwice
<1> QED
    BY <1>1, <1>3, <1>4, <1>5, <1>6 DEF ServerNext

LEMMA StepType == TypeInv /\ [Next]_vars => TypeInv'
<1> SUFFICES ASSUME TypeInv, [Next]_vars
             PROVE  TypeInv'
    OBVIOUS
<1>1. CASE UNCHANGED vars
    BY <1>1 DEF TypeInv, TypeOK, HasId, InBounds, vars, netVars, clientVars, serverVars,
       arrayVars, idVars, ackVars, senderVars, flagVars
<1>2. CASE Next
    BY <1>2, SenderType, ResponderType, ServerType DEF Next, ClientNext
<1> QED
    BY <1>1, <1>2

LEMMA TypeInvariant == Spec => []TypeInv
BY InitType, StepType, PTL DEF Spec

\* The variables of the client and of the server have their types.
THEOREM TypeCorrect == Spec => []TypeOK
BY TypeInvariant, PTL DEF TypeInv
-----------------------------------------------------------------------------
(***************************************************************************)
(* Acknowledgements are truthful, and a message leaves g_array only when   *)
(* one names it or when it is sent again.                                  *)
(***************************************************************************)

\* A client thread has nothing to do with acknowledgements.
LEMMA SenderFrame ==
    ASSUME NEW t \in Threads, SendSteps(t)
    PROVE  UNCHANGED <<s2c, ackVars, serverVars>>
BY DEF SendSteps, LeaveLoop, BeginDrain, TryLock, Beat, LockArray, CreateMessage,
   CreateFails, AddMessage, SendMessage, MarshalFails, SendFails, DrainBeat, DrainDone,
   SendStop, RaiseInterrupt, Leave, netVars, clientVars

LEMMA DiffFrame ==
    ASSUME DiffSteps \/ TimePasses \/ Interrupt
    PROVE  UNCHANGED <<s2c, acked, submitted, serverVars>>
BY DEF DiffSteps, LockForDiff, DiffReceived, DiffKept, DiffMissed, DiffMarshalFails,
   DiffSendFails, UnlockAfterDiff, CountMissed, TimePasses, Interrupt, netVars,
   arrayVars, idVars, ackVars

\* The server never forgets that it received a message.
LEMMA ReceivedGrows ==
    ASSUME ServerNext
    PROVE  received \subseteq received'
BY DEF ServerNext, ReceiveMessage, ReceiveHeartbeat, ReceiveStop, StopResponder, FreeTwice

LEMMA AckTruthfulStep ==
    ASSUME TypeInv, AckTruthful, [Next]_vars
    PROVE  AckTruthful'
<1> USE DEF AckTruthful
<1>1. CASE UNCHANGED vars
    BY <1>1 DEF vars, netVars, clientVars, ackVars, serverVars
<1>2. ASSUME NEW t \in Threads, SendSteps(t)
      PROVE  AckTruthful'
    BY <1>2, SenderFrame DEF ackVars, serverVars
<1>3. CASE DiffSteps \/ TimePasses \/ Interrupt
    BY <1>3, DiffFrame DEF serverVars
<1>4. ASSUME NEW p \in s2c, ReceiveAck(p)
      PROVE  AckTruthful'
    BY <1>4, TakenIsSubset DEF ReceiveAck, serverVars
<1>5. CASE ReceiveServerStop
    BY <1>5, TakenIsSubset DEF ReceiveServerStop, serverVars
<1>6. ASSUME NEW p \in c2s, ReceiveMessage(p)
      PROVE  AckTruthful'
    <2>1. \A k \in DOMAIN unacked' : unacked'[k] \in received'
        BY <1>6 DEF ReceiveMessage, TypeInv, TypeOK
    <2> QED
        BY <1>6, <2>1 DEF ReceiveMessage, clientVars, ackVars
<1>7. ASSUME SendIds, UNCHANGED <<received, acked>>
      PROVE  AckTruthful'
    <2>1. ASSUME NEW p \in s2c', p.type = "ACK"
          PROVE  p.ids \subseteq received' \cup {0}
        BY <1>7, <2>1, SendIdsPackets
    <2>2. \A k \in DOMAIN unacked' : unacked'[k] \in received'
        BY <1>7 DEF SendIds
    <2> QED
        BY <1>7, <2>1, <2>2
<1>8. CASE ReceiveHeartbeat
    BY <1>7, <1>8 DEF ReceiveHeartbeat, clientVars, ackVars
<1>9. CASE ReceiveStop
    BY <1>7, <1>9 DEF ReceiveStop, clientVars, ackVars
<1>10. CASE StopResponder
    <2>1. ASSUME NEW p \in s2c', p.type = "ACK"
          PROVE  p \in s2c
        BY <1>10, <2>1, SentIsSubset DEF StopResponder, Stop
    <2> QED
        BY <1>10, <2>1 DEF StopResponder, clientVars, ackVars
<1>11. ASSUME NEW p \in c2s, FreeTwice(p)
       PROVE  AckTruthful'
    <2>1. ASSUME NEW q \in s2c', q.type = "ACK"
          PROVE  q.ids \subseteq received \cup {0}
        <3>1. q \in s2c \/ q = Wakeup
            BY <1>11, <2>1, SentIsSubset DEF FreeTwice
        <3> QED
            BY <2>1, <3>1 DEF Wakeup, Ack
    <2> QED
        BY <1>11, <2>1 DEF FreeTwice, clientVars, ackVars
<1> QED
    BY <1>1, <1>2, <1>3, <1>4, <1>5, <1>6, <1>8, <1>9, <1>10, <1>11
       DEF Next, ClientNext, ServerNext, ResponderSteps

\* No acknowledgement names a message that the server did not receive.
THEOREM AcksAreTruthful == Spec => []AckTruthful
<1>1. Init => AckTruthful
    BY DEF Init, ClientInit, ServerInit, AckTruthful
<1>2. TypeInv /\ AckTruthful /\ [Next]_vars => AckTruthful'
    BY AckTruthfulStep
<1> QED
    BY <1>1, <1>2, TypeInvariant, PTL DEF Spec

\* What an acknowledgement takes out of g_array was received, or is resent.
LEMMA DiffDropsNothing ==
    ASSUME TypeInv, AckTruthful, NoSilentDrop, "marshal" \notin Faults, DiffSteps
    PROVE  NoSilentDrop'
<1> USE DEF NoSilentDrop, Forgotten, Waiting
<1>1. CASE UNCHANGED <<array, resent>>
    BY <1>1, DiffFrame DEF serverVars
<1>2. ASSUME array[ri] \in received' \cup resent', resent \subseteq resent',
             array' = RemoveId(array, array[ri])
      PROVE  NoSilentDrop'
    <2>1. ASSUME NEW k \in DOMAIN array, array[k] # array[ri]
          PROVE  array[k] \in Waiting'
        BY <1>2, <2>1, RemoveIdKeepsOthers DEF TypeInv, TypeOK
    <2> QED
        BY <1>2, <2>1, DiffFrame DEF serverVars
<1>3. CASE DiffReceived
    <2>1. ri \in 1 .. Len(array)
        BY <1>3 DEF DiffReceived, TypeInv, TypeOK, InBounds
    <2>2. array[ri] \in Ids
        BY <2>1 DEF TypeInv, TypeOK
    <2>3. array[ri] \in received
        BY <1>3, <2>2 DEF DiffReceived, AckTruthful, Ids
    <2> QED
        BY <1>2, <1>3, <2>3 DEF DiffReceived, serverVars
<1>4. CASE DiffMissed
    BY <1>2, <1>4 DEF DiffMissed
<1>5. CASE LockForDiff \/ DiffKept \/ DiffSendFails \/ UnlockAfterDiff \/ CountMissed
    BY <1>1, <1>5 DEF LockForDiff, DiffKept, DiffSendFails, UnlockAfterDiff, CountMissed,
       arrayVars
<1> QED
    BY <1>3, <1>4, <1>5 DEF DiffSteps, DiffMarshalFails

\* A new message joins those that wait.
LEMMA AddWaits ==
    ASSUME TypeInv, NEW t \in Threads, AddMessage(t)
    PROVE  Waiting' = Waiting \cup {newId[t]}
<1>1. array \in Seq(Ids) /\ newId[t] \in Ids
    BY DEF AddMessage, TypeInv, TypeOK, HasId
<1>2. /\ Len(array') = Len(array) + 1
      /\ array'[Len(array) + 1] = newId[t]
      /\ \A k \in 1 .. Len(array) : array'[k] = array[k]
      /\ DOMAIN array = 1 .. Len(array) /\ DOMAIN array' = 1 .. Len(array) + 1
      /\ Len(array) \in Nat
    BY <1>1 DEF AddMessage
<1> QED
    BY <1>2 DEF Waiting

LEMMA NoSilentDropStep ==
    ASSUME TypeInv, AckTruthful, NoSilentDrop, "marshal" \notin Faults, [Next]_vars
    PROVE  NoSilentDrop'
<1> USE DEF NoSilentDrop, Forgotten, Waiting
<1>1. CASE UNCHANGED <<submitted, array, received, resent>>
    BY <1>1
<1>2. ASSUME NEW t \in Threads, AddMessage(t)
      PROVE  NoSilentDrop'
    <2>2. Waiting' = Waiting \cup {newId[t]}
        BY <1>2, AddWaits
    <2> QED
        BY <1>2, <2>2 DEF AddMessage, ackVars, serverVars
<1>3. ASSUME NEW t \in Threads, SendSteps(t)
      PROVE  NoSilentDrop'
    BY <1>1, <1>2, <1>3 DEF SendSteps, LeaveLoop, BeginDrain, TryLock, Beat, LockArray,
       CreateMessage, CreateFails, SendMessage, MarshalFails, SendFails, DrainBeat,
       DrainDone, SendStop, RaiseInterrupt, Leave, clientVars, arrayVars, idVars,
       ackVars, serverVars
<1>4. CASE DiffSteps
    BY <1>4, DiffDropsNothing
<1>5. CASE (\E p \in s2c : ReceiveAck(p)) \/ ReceiveServerStop \/ TimePasses \/ Interrupt
    BY <1>1, <1>5 DEF ReceiveAck, ReceiveServerStop, TimePasses, Interrupt, arrayVars,
       idVars, ackVars, serverVars
<1>6. CASE ServerNext
    <2>1. UNCHANGED <<submitted, array, resent>>
        BY <1>6 DEF ServerNext, ReceiveMessage, ReceiveHeartbeat, ReceiveStop,
           StopResponder, FreeTwice, clientVars, arrayVars, idVars, ackVars
    <2> QED
        BY <1>6, <2>1, ReceivedGrows
<1>7. CASE UNCHANGED vars
    BY <1>1, <1>7 DEF vars, clientVars, arrayVars, idVars, ackVars, serverVars
<1> QED
    BY <1>3, <1>4, <1>5, <1>6, <1>7 DEF Next, ClientNext, ResponderSteps

\* As long as marshal_message has the memory it asks for, diff_from_arrays
\* takes a message out of g_array only if the server has it or it was sent a
\* second time.
THEOREM NothingDroppedSilently ==
    ASSUME "marshal" \notin Faults
    PROVE  Spec => []NoSilentDrop
<1>1. Init => NoSilentDrop
    BY DEF Init, ClientInit, ServerInit, NoSilentDrop, Forgotten
<1>2. TypeInv /\ AckTruthful /\ NoSilentDrop /\ [Next]_vars => NoSilentDrop'
    BY NoSilentDropStep
<1> QED
    BY <1>1, <1>2, TypeInvariant, AcksAreTruthful, PTL DEF Spec
-----------------------------------------------------------------------------
(***************************************************************************)
(* Every message that is lost for good is counted.  A diff takes one       *)
(* message at a time out of g_array, and with it goes one increment of     *)
(* missed_count or an acknowledgement.                                     *)
(***************************************************************************)

Lost == Forgotten \ received
DropsInv == IsFiniteSet(Lost) /\ DropsCounted

LEMMA GrowsByOne ==
    ASSUME NEW S, IsFiniteSet(S), NEW x, NEW T, T \subseteq S \cup {x}
    PROVE  /\ IsFiniteSet(T) /\ Cardinality(T) \in Nat /\ Cardinality(S) \in Nat
           /\ Cardinality(T) <= Cardinality(S) + 1
<1>1. IsFiniteSet(S \cup {x}) /\ Cardinality(S \cup {x}) <= Cardinality(S) + 1
    <2>1. Cardinality(S) \in Nat
        BY FS_CardinalityType
    <2>2. /\ IsFiniteSet(S \cup {x})
          /\ Cardinality(S \cup {x}) = IF x \in S THEN Cardinality(S) ELSE Cardinality(S) + 1
        BY FS_AddElement
    <2> QED
        BY <2>1, <2>2
<1>2. T \in SUBSET (S \cup {x})
    OBVIOUS
<1>3. IsFiniteSet(T) /\ Cardinality(T) <= Cardinality(S \cup {x})
    BY <1>1, <1>2, FS_Subset
<1>4. /\ Cardinality(S) \in Nat /\ Cardinality(T) \in Nat
      /\ Cardinality(S \cup {x}) \in Nat
    BY <1>1, <1>3, FS_CardinalityType
<1> QED
    BY <1>1, <1>3, <1>4

LEMMA Shrinks ==
    ASSUME NEW S, IsFiniteSet(S), NEW T, T \subseteq S
    PROVE  /\ IsFiniteSet(T) /\ Cardinality(T) \in Nat /\ Cardinality(S) \in Nat
           /\ Cardinality(T) <= Cardinality(S)
<1>1. IsFiniteSet(T) /\ Cardinality(T) <= Cardinality(S)
    BY FS_Subset
<1> QED
    BY <1>1, FS_CardinalityType

\* With a message taken out of g_array, at most that one is newly lost.
LEMMA DropLosesOne ==
    ASSUME TypeInv, rpc = "diff", ri > 0, array' = RemoveId(array, array[ri]),
           UNCHANGED <<submitted, received>>
    PROVE  Lost' \subseteq Lost \cup {array[ri]}
<1>1. ASSUME NEW k \in DOMAIN array, array[k] # array[ri]
      PROVE  array[k] \in Waiting'
    BY <1>1, RemoveIdKeepsOthers DEF TypeInv, TypeOK, Waiting
<1> QED
    BY <1>1 DEF Lost, Forgotten, Waiting

LEMMA UncountedType == TypeInv => missed \in Nat /\ misses \in Nat /\ Uncounted \in Nat
BY DEF TypeInv, TypeOK, Uncounted

\* No step makes the count smaller, and one that loses a message makes it larger.
LEMMA DropsStep ==
    ASSUME TypeInv, AckTruthful, DropsInv, [Next]_vars
    PROVE  DropsInv'
<1> DEFINE Counted == missed + Uncounted
<1>0. missed \in Nat /\ misses \in Nat /\ Counted \in Nat
    BY UncountedType
<1>1. ASSUME Lost' \subseteq Lost, Counted' = Counted
      PROVE  DropsInv'
    <2>1. IsFiniteSet(Lost') /\ Cardinality(Lost') <= Cardinality(Lost)
          /\ Cardinality(Lost') \in Nat /\ Cardinality(Lost) \in Nat
        BY <1>1, Shrinks DEF DropsInv
    <2> QED
        BY <1>0, <1>1, <2>1 DEF DropsInv, DropsCounted, Lost
<1>2. ASSUME NEW x, Lost' \subseteq Lost \cup {x}, Counted' = Counted + 1
      PROVE  DropsInv'
    <2>1. IsFiniteSet(Lost') /\ Cardinality(Lost') <= Cardinality(Lost) + 1
          /\ Cardinality(Lost') \in Nat /\ Cardinality(Lost) \in Nat
        BY <1>2, GrowsByOne DEF DropsInv
    <2> QED
        BY <1>0, <1>2, <2>1 DEF DropsInv, DropsCounted, Lost
<1>3. CASE UNCHANGED <<submitted, array, received, rpc, misses, missed>>
    BY <1>1, <1>3 DEF Lost, Forgotten, Waiting, Uncounted
<1>4. ASSUME NEW t \in Threads, AddMessage(t)
      PROVE  DropsInv'
    <2>1. Lost' \subseteq Lost
        BY <1>4, AddWaits DEF AddMessage, Lost, Forgotten, serverVars
    <2> QED
        BY <1>1, <1>4, <2>1 DEF AddMessage, ackVars, Uncounted
<1>5. ASSUME NEW t \in Threads, SendSteps(t)
      PROVE  DropsInv'
    BY <1>3, <1>4, <1>5 DEF SendSteps, LeaveLoop, BeginDrain, TryLock, Beat, LockArray,
       CreateMessage, CreateFails, SendMessage, MarshalFails, SendFails, DrainBeat,
       DrainDone, SendStop, RaiseInterrupt, Leave, clientVars, arrayVars, idVars,
       ackVars, serverVars
<1>6. CASE DiffReceived
    <2>1. ri \in 1 .. Len(array)
        BY <1>6 DEF DiffReceived, TypeInv, TypeOK, InBounds
    <2>2. array[ri] \in Ids
        BY <2>1 DEF TypeInv, TypeOK
    <2>3. array[ri] \in received
        BY <1>6, <2>2 DEF DiffReceived, AckTruthful, Ids
    <2>4. Lost' \subseteq Lost \cup {array[ri]}
        BY <1>6, DropLosesOne DEF DiffReceived, idVars, serverVars
    <2>5. array[ri] \notin Lost'
        BY <1>6, <2>3 DEF DiffReceived, Lost, serverVars
    <2> QED
        BY <1>1, <1>6, <2>4, <2>5 DEF DiffReceived, Uncounted
<1>7. CASE DiffMissed \/ DiffMarshalFails
    <2>1. Lost' \subseteq Lost \cup {array[ri]}
        BY <1>7, DropLosesOne DEF DiffMissed, DiffMarshalFails, idVars, serverVars
    <2>2. Counted' = Counted + 1
        BY <1>0, <1>7 DEF DiffMissed, DiffMarshalFails, Uncounted
    <2> QED
        BY <1>2, <2>1, <2>2
<1>8. CASE DiffSendFails
    <2>1. Lost' \subseteq Lost \cup {0}
        BY <1>8 DEF DiffSendFails, Lost, Forgotten, Waiting, arrayVars, idVars, serverVars
    <2>2. Counted' = Counted + 1
        BY <1>0, <1>8 DEF DiffSendFails, Uncounted
    <2> QED
        BY <1>2, <2>1, <2>2
<1>9. CASE LockForDiff \/ DiffKept \/ UnlockAfterDiff \/ CountMissed
    <2>1. Lost' \subseteq Lost
        BY <1>9 DEF LockForDiff, DiffKept, UnlockAfterDiff, CountMissed, Lost, Forgotten,
           Waiting, arrayVars, idVars, serverVars
    <2>2. Counted' = Counted
        BY <1>0, <1>9 DEF LockForDiff, DiffKept, UnlockAfterDiff, CountMissed, Uncounted
    <2> QED
        BY <1>1, <2>1, <2>2
<1>10. CASE (\E p \in s2c : ReceiveAck(p)) \/ ReceiveServerStop
    <2>1. Lost' \subseteq Lost /\ Counted' = Counted
        BY <1>0, <1>10 DEF ReceiveAck, ReceiveServerStop, Lost, Forgotten, Waiting,
           arrayVars, idVars, serverVars, Uncounted
    <2> QED
        BY <1>1, <2>1
<1>11. CASE TimePasses \/ Interrupt
    BY <1>3, <1>11 DEF TimePasses, Interrupt, arrayVars, idVars, ackVars, serverVars
<1>12. CASE ServerNext
    <2>1. UNCHANGED <<submitted, array, rpc, misses, missed>>
        BY <1>12 DEF ServerNext, ReceiveMessage, ReceiveHeartbeat, ReceiveStop,
           StopResponder, FreeTwice, clientVars, arrayVars, idVars, ackVars
    <2>2. Lost' \subseteq Lost
        BY <1>12, <2>1, ReceivedGrows DEF Lost, Forgotten, Waiting
    <2> QED
        BY <1>1, <2>1, <2>2 DEF Uncounted
<1>13. CASE UNCHANGED vars
    BY <1>3, <1>13 DEF vars, clientVars, arrayVars, idVars, ackVars, serverVars
<1> QED
    BY <1>5, <1>6, <1>7, <1>8, <1>9, <1>10, <1>11, <1>12, <1>13
       DEF Next, ClientNext, ResponderSteps, DiffSteps

\* Whatever calls fail and whatever packets are lost, a message that the client
\* forgot and the server never got is in "Total messages missed".
THEOREM LossesAreCounted == Spec => []DropsCounted
<1>1. Init => DropsInv
    <2> SUFFICES ASSUME Init
                 PROVE  DropsInv
        OBVIOUS
    <2>1. Lost = {} /\ missed = 0 /\ Uncounted = 0
        BY DEF Init, ClientInit, ServerInit, Lost, Forgotten, Uncounted
    <2> QED
        BY <2>1, FS_EmptySet DEF DropsInv, DropsCounted, Lost
<1>2. TypeInv /\ AckTruthful /\ DropsInv /\ [Next]_vars => DropsInv'
    BY DropsStep
<1>3. DropsInv => DropsCounted
    BY DEF DropsInv
<1> QED
    BY <1>1, <1>2, <1>3, TypeInvariant, AcksAreTruthful, PTL DEF Spec
-----------------------------------------------------------------------------
(***************************************************************************)
(* A client of one thread.  Its STOP goes out when g_array is empty, and   *)
(* no message is added after it; with a second thread neither is true.     *)
(***************************************************************************)

\* From the first STOP on, nothing waits, and the thread does not go back.
Stopping(t) == pc[t] \in {"stop", "raise"} \/ stops[t] > 0 \/ Stop \in c2s \/ spc \in {"leave", "done"}
StopLast(t) ==
    Stopping(t) => array = <<>> /\ pc[t] \in {"stop", "raise", "leave", "done", "exited"}

\* A thread that adds no message leaves an empty g_array empty.
LEMMA EmptyStays ==
    ASSUME TypeInv, array = <<>>, [Next]_vars, \A t \in Threads : ~AddMessage(t)
    PROVE  array' = <<>>
<1>1. rpc = "diff" => ~(ri > 0)
    BY DEF TypeInv, TypeOK, InBounds
<1> QED
    BY <1>1 DEF Next, ClientNext, SendSteps, LeaveLoop, BeginDrain, TryLock, Beat,
       LockArray, CreateMessage, CreateFails, SendMessage, MarshalFails, SendFails,
       DrainBeat, DrainDone, SendStop, RaiseInterrupt, Leave, ResponderSteps, DiffSteps,
       ReceiveAck, ReceiveServerStop, LockForDiff, DiffReceived, DiffKept, DiffMissed,
       DiffMarshalFails, DiffSendFails, UnlockAfterDiff, CountMissed, TimePasses,
       Interrupt, ServerNext, ReceiveMessage, ReceiveHeartbeat, ReceiveStop,
       StopResponder, FreeTwice, vars, clientVars, arrayVars

\* STOP is put on the way to the server by SendStop only.
LEMMA StopIsSent ==
    ASSUME [Next]_vars, Stop \in c2s', Stop \notin c2s
    PROVE  \E t \in Threads : SendStop(t)
<1>1. ASSUME NEW x, NEW pkts, c2s' \in Sent(c2s, pkts), Stop \notin pkts
      PROVE  FALSE
    BY <1>1, SentIsSubset
<1>2. Stop # Heartbeat /\ \A id, try : Stop # MessagePacket(id, try)
    BY DEF Stop, Heartbeat, MessagePacket
<1>3. CASE \E t \in Threads : SendSteps(t)
    <2>1. PICK t \in Threads : SendSteps(t)
        BY <1>3
    <2>2. CASE Beat(t) \/ DrainBeat(t)
        BY <1>1, <1>2, <2>2 DEF Beat, DrainBeat
    <2>3. CASE SendMessage(t)
        BY <1>1, <1>2, <2>3 DEF SendMessage
    <2> QED
        BY <2>1, <2>2, <2>3 DEF SendSteps, LeaveLoop, BeginDrain, TryLock, LockArray,
           CreateMessage, CreateFails, AddMessage, MarshalFails, SendFails, DrainDone,
           RaiseInterrupt, Leave, netVars
<1>4. CASE ResponderSteps
    <2>1. CASE DiffMissed
        BY <1>1, <1>2, <2>1 DEF DiffMissed
    <2> QED
        BY <1>4, <2>1 DEF ResponderSteps, DiffSteps, ReceiveAck, ReceiveServerStop,
           LockForDiff, DiffReceived, DiffKept, DiffMarshalFails, DiffSendFails,
           UnlockAfterDiff, CountMissed, netVars
<1>5. CASE TimePasses \/ Interrupt \/ UNCHANGED vars
    BY <1>5 DEF TimePasses, Interrupt, vars, netVars
<1>6. CASE ServerNext
    BY <1>6, TakenIsSubset DEF ServerNext, ReceiveMessage, ReceiveHeartbeat, ReceiveStop,
       StopResponder, FreeTwice
<1> QED
    BY <1>3, <1>4, <1>5, <1>6 DEF Next, ClientNext

LEMMA StopLastStep ==
    ASSUME NEW t, Threads = {t}, TypeInv, StopLast(t), [Next]_vars
    PROVE  StopLast(t)'
<1> USE DEF TypeInv, TypeOK, Goto, senderVars
<1>0. \A u \in Threads : u = t
    OBVIOUS
<1>1. ASSUME SendSteps(t)
      PROVE  /\ pc[t] \in {"stop", "raise", "leave", "done", "exited"}
                    => pc'[t] \in {"stop", "raise", "leave", "done", "exited"} /\ ~AddMessage(t)
             /\ (pc'[t] \in {"stop", "raise"} \/ stops'[t] > 0)
                    => pc[t] \in {"stop", "raise"} \/ stops[t] > 0 \/ DrainDone(t)
             /\ DrainDone(t) => array = <<>> /\ array' = <<>> /\ pc'[t] = "stop"
    BY <1>1 DEF SendSteps, LeaveLoop, BeginDrain, TryLock, Beat, LockArray, CreateMessage,
       CreateFails, AddMessage, SendMessage, MarshalFails, SendFails, DrainBeat,
       DrainDone, SendStop, RaiseInterrupt, Leave, clientVars, arrayVars
<1>2. ASSUME ~SendSteps(t)
      PROVE  /\ UNCHANGED stops
             /\ pc'[t] = pc[t] \/ pc'[t] = "exited"
             /\ ~AddMessage(t)
    BY <1>0, <1>2 DEF Next, ClientNext, SendSteps, ResponderSteps, DiffSteps, ReceiveAck,
       ReceiveServerStop, LockForDiff, DiffReceived, DiffKept, DiffMissed,
       DiffMarshalFails, DiffSendFails, UnlockAfterDiff, CountMissed, TimePasses,
       Interrupt, ServerNext, ReceiveMessage, ReceiveHeartbeat, ReceiveStop,
       StopResponder, FreeTwice, vars, clientVars
<1>3. spc' \in {"leave", "done"} => spc \in {"leave", "done"} \/ Stop \in c2s
    BY SenderFrame, DiffFrame DEF Next, ClientNext, ResponderSteps, ReceiveAck,
       ReceiveServerStop, ServerNext, ReceiveMessage, ReceiveHeartbeat, ReceiveStop,
       StopResponder, FreeTwice, vars, serverVars
<1>4. Stop \in c2s' => Stop \in c2s \/ pc[t] = "stop"
    BY <1>0, StopIsSent DEF SendStop
<1>5. ASSUME Stopping(t)
      PROVE  StopLast(t)'
    <2>1. ~AddMessage(t) /\ pc'[t] \in {"stop", "raise", "leave", "done", "exited"}
        BY <1>1, <1>2, <1>5 DEF StopLast
    <2>2. array' = <<>>
        BY <1>0, <1>5, <2>1, EmptyStays DEF StopLast
    <2> QED
        BY <2>1, <2>2 DEF StopLast
<1>6. ASSUME ~Stopping(t), Stopping(t)'
      PROVE  SendSteps(t) /\ DrainDone(t)
    BY <1>1, <1>2, <1>3, <1>4, <1>6 DEF Stopping
<1> QED
    BY <1>1, <1>5, <1>6 DEF StopLast

\* The server of a client with one thread is there as long as a message waits
\* for its acknowledgement, with any faults, losses and interrupts.
THEOREM ServerOutlivesOneThread ==
    ASSUME NEW t, Threads = {t}
    PROVE  Spec => []ServerLeavesLast
<1>1. Init => StopLast(t)
    BY DEF Init, ClientInit, ServerInit, StopLast, Stopping
<1>2. TypeInv /\ StopLast(t) /\ [Next]_vars => StopLast(t)'
    BY StopLastStep
<1>3. StopLast(t) => ServerLeavesLast
    BY DEF StopLast, Stopping, ServerLeavesLast
<1> QED
    BY <1>1, <1>2, <1>3, TypeInvariant, PTL DEF Spec
=============================================================================
