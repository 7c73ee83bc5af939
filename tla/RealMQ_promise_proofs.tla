----------------------- MODULE RealMQ_promise_proofs -----------------------
(***************************************************************************)
(* Proofs that g_array stays in ascending order, whatever the threads do,  *)
(* that the protocol keeps the promise of module Delivery, and what the    *)
(* counters of client and server count.                                    *)
(***************************************************************************)
EXTENDS RealMQ_proofs, SequenceTheorems

-----------------------------------------------------------------------------
(***************************************************************************)
(* remove_element_by_id on an array in ascending order.                    *)
(***************************************************************************)

Ascending(a) == \A i, j \in DOMAIN a : i < j => a[i] < a[j]

LEMMA RemoveIdAscending ==
    ASSUME NEW a \in Seq(Nat), Ascending(a), NEW j \in DOMAIN a
    PROVE  /\ RemoveId(a, a[j]) = RemoveAt(a, j)
           /\ Ascending(RemoveAt(a, j))
           /\ \A i \in DOMAIN RemoveAt(a, j) : \E k \in DOMAIN a :
                 k # j /\ RemoveAt(a, j)[i] = a[k]
<1> DEFINE k == CHOOSE x \in DOMAIN a : a[x] = a[j]
           b == RemoveAt(a, j)
<1>1. k \in DOMAIN a /\ a[k] = a[j]
    OBVIOUS
<1>2. DOMAIN a = 1 .. Len(a) /\ Len(a) \in Nat /\ \A i \in DOMAIN a : a[i] \in Nat
    OBVIOUS
<1>3. RemoveId(a, a[j]) = RemoveAt(a, k)
    BY DEF RemoveId
<1> HIDE DEF k
<1>4. k = j
    BY <1>1, <1>2 DEF Ascending
<1>5. /\ DOMAIN b = 1 .. Len(a) - 1
      /\ \A i \in 1 .. Len(a) - 1 : b[i] = IF i < j THEN a[i] ELSE a[i + 1]
    <2>1. j \in 1 .. Len(a)
        BY <1>2
    <2>2. b \in Seq(Nat) /\ Len(b) = Len(a) - 1
        BY <2>1, RemoveAtIndex
    <2>3. DOMAIN b = 1 .. Len(b)
        BY <2>2
    <2> QED
        BY <2>1, <2>2, <2>3, RemoveAtIndex
<1> HIDE DEF b
<1>6. Ascending(b)
    <2> SUFFICES ASSUME NEW x \in DOMAIN b, NEW y \in DOMAIN b, x < y
                 PROVE  b[x] < b[y]
        BY DEF Ascending
    <2>1. x \in 1 .. Len(a) - 1 /\ y \in 1 .. Len(a) - 1
        BY <1>5
    <2>2. CASE y < j
        <3>1. b[x] = a[x] /\ b[y] = a[y] /\ x \in DOMAIN a /\ y \in DOMAIN a
            BY <1>2, <1>5, <2>1, <2>2
        <3> QED
            BY <3>1 DEF Ascending
    <2>3. CASE ~(y < j) /\ x < j
        <3>1. b[x] = a[x] /\ b[y] = a[y + 1] /\ x \in DOMAIN a /\ y + 1 \in DOMAIN a
            BY <1>2, <1>5, <2>1, <2>3
        <3>2. x < y + 1
            BY <2>1
        <3> QED
            BY <3>1, <3>2 DEF Ascending
    <2>4. CASE ~(x < j)
        <3>1. ~(y < j)
            BY <1>2, <2>1, <2>4
        <3>2. b[x] = a[x + 1] /\ b[y] = a[y + 1] /\ x + 1 \in DOMAIN a /\ y + 1 \in DOMAIN a
            BY <1>2, <1>5, <2>1, <2>4, <3>1
        <3>3. x + 1 < y + 1
            BY <2>1
        <3> QED
            BY <3>2, <3>3 DEF Ascending
    <2> QED
        BY <2>2, <2>3, <2>4
<1>7. ASSUME NEW i \in DOMAIN b
      PROVE  \E x \in DOMAIN a : x # j /\ b[i] = a[x]
    <2>0. i \in 1 .. Len(a) - 1
        BY <1>5
    <2>1. CASE i < j
        <3>1. i \in DOMAIN a /\ i # j /\ b[i] = a[i]
            BY <1>2, <1>5, <2>0, <2>1
        <3> QED
            BY <3>1
    <2>2. CASE ~(i < j)
        <3>1. i + 1 \in DOMAIN a /\ i + 1 # j /\ b[i] = a[i + 1]
            BY <1>2, <1>5, <2>0, <2>2
        <3> QED
            BY <3>1
    <2> QED
        BY <2>1, <2>2
<1> QED
    BY <1>3, <1>4, <1>6, <1>7 DEF b
-----------------------------------------------------------------------------
(***************************************************************************)
(* The mutex.                                                              *)
(***************************************************************************)

\* g_array_mutex is held by the thread that works on g_array.
Exclusive == /\ \A t \in Threads : pc[t] \in {"create", "add", "send"} => lock = t
             /\ rpc = "diff" => lock = Responder

LEMMA ExclusiveStep ==
    ASSUME TypeInv, Exclusive, [Next]_vars
    PROVE  Exclusive'
<1> USE DEF Exclusive, TypeInv, TypeOK, Goto, arrayVars, ackVars, senderVars
<1> Free \notin Threads /\ Responder \notin Threads /\ Free # Responder
    BY RealMQAssumption DEF Free, Responder
<1>1. ASSUME NEW t \in Threads, SendSteps(t)
      PROVE  Exclusive'
    <2>1. UNCHANGED rpc
        BY <1>1, SenderFrame
    <2>2. \A u \in Threads \ {t} : pc'[u] = pc[u]
        BY <1>1 DEF SendSteps, LeaveLoop, BeginDrain, TryLock, Beat, LockArray,
           CreateMessage, CreateFails, AddMessage, SendMessage, MarshalFails, SendFails,
           DrainBeat, DrainDone, SendStop, RaiseInterrupt, Leave, clientVars
    <2>3. CASE pc'[t] \in {"create", "add", "send"}
        <3>1. lock' = t /\ (lock = Free \/ lock = t)
            BY <1>1, <2>3 DEF SendSteps, LeaveLoop, BeginDrain, TryLock, Beat, LockArray,
               CreateMessage, CreateFails, AddMessage, SendMessage, MarshalFails,
               SendFails, DrainBeat, DrainDone, SendStop, RaiseInterrupt, Leave, clientVars
        <3> QED
            BY <2>1, <2>2, <2>3, <3>1
    <2>4. CASE pc'[t] \notin {"create", "add", "send"}
        <3>1. \/ lock' = lock
              \/ lock' = Free /\ lock = t
            BY <1>1, <2>4 DEF SendSteps, LeaveLoop, BeginDrain, TryLock, Beat, LockArray,
               CreateMessage, CreateFails, AddMessage, SendMessage, MarshalFails,
               SendFails, DrainBeat, DrainDone, SendStop, RaiseInterrupt, Leave, clientVars
        <3> QED
            BY <2>1, <2>2, <2>4, <3>1
    <2> QED
        BY <2>3, <2>4
<1>2. CASE LockForDiff
    BY <1>2 DEF LockForDiff
<1>3. CASE UnlockAfterDiff
    BY <1>3 DEF UnlockAfterDiff
<1>4. CASE DiffSendFails
    BY <1>4 DEF DiffSendFails
<1>5. CASE DiffReceived \/ DiffKept \/ DiffMissed \/ DiffMarshalFails \/ CountMissed
    BY <1>5 DEF DiffReceived, DiffKept, DiffMissed, DiffMarshalFails, CountMissed
<1>6. CASE (\E p \in s2c : ReceiveAck(p)) \/ ReceiveServerStop \/ TimePasses \/ Interrupt
    BY <1>6 DEF ReceiveAck, ReceiveServerStop, TimePasses, Interrupt
<1>7. CASE ServerNext \/ UNCHANGED vars
    BY <1>7 DEF ServerNext, ReceiveMessage, ReceiveHeartbeat, ReceiveStop, StopResponder,
       FreeTwice, clientVars, vars
<1> QED
    BY <1>1, <1>2, <1>3, <1>4, <1>5, <1>6, <1>7
       DEF Next, ClientNext, ResponderSteps, DiffSteps

LEMMA MutexInvariant == Spec => []Exclusive
<1>1. Init => Exclusive
    BY DEF Init, ClientInit, Exclusive
<1>2. TypeInv /\ Exclusive /\ [Next]_vars => Exclusive'
    BY ExclusiveStep
<1> QED
    BY <1>1, <1>2, TypeInvariant, PTL DEF Spec
-----------------------------------------------------------------------------
(***************************************************************************)
(* The order of g_array.  Ids are given out and added in one critical      *)
(* section, so a new id is above all that were ever added.                 *)
(***************************************************************************)

IdsBelowNext ==
    /\ \A k \in DOMAIN array : array[k] < nextId
    /\ \A id \in submitted : id < nextId

NewIdIsFresh ==
    \A t \in Threads : pc[t] = "add" =>
        /\ newId[t] < nextId
        /\ newId[t] \notin submitted
        /\ \A k \in DOMAIN array : array[k] < newId[t]

\* Whatever waits, travels or arrives was submitted.
OnlySubmitted ==
    /\ Waiting \subseteq submitted
    /\ received \subseteq submitted
    /\ \A p \in c2s : p.type = "MSG" => p.id \in submitted
    /\ \A t \in Threads : pc[t] = "send" => newId[t] \in submitted

OrderInv == Sorted /\ IdsBelowNext /\ NewIdIsFresh /\ OnlySubmitted

\* Only one thread at a time has a message it has not added yet.
LEMMA OneBuilder ==
    ASSUME Exclusive, NEW t \in Threads, pc[t] \in {"create", "add", "send"},
           NEW u \in Threads, u # t
    PROVE  pc[u] \notin {"create", "add", "send"}
BY DEF Exclusive

LEMMA IdsAreNats ==
    ASSUME TypeInv
    PROVE  /\ nextId \in Nat
           /\ \A id \in submitted : id \in Nat
           /\ array \in Seq(Nat) /\ DOMAIN array = 1 .. Len(array) /\ Len(array) \in Nat
           /\ \A k \in DOMAIN array : array[k] \in Nat
           /\ \A t \in Threads : pc[t] \in {"add", "send"} => newId[t] \in Nat
<1>1. Ids \subseteq Nat
    BY RealMQAssumption DEF Ids
<1>2. array \in Seq(Ids)
    BY DEF TypeInv, TypeOK
<1>3. /\ DOMAIN array = 1 .. Len(array) /\ Len(array) \in Nat
      /\ \A k \in 1 .. Len(array) : array[k] \in Ids
    BY <1>2
<1>4. array \in Seq(Nat)
    BY <1>1, <1>2, SeqMonotonic
<1>5. nextId \in Nat /\ submitted \subseteq Ids
    BY DEF TypeInv, TypeOK
<1>6. \A t \in Threads : pc[t] \in {"add", "send"} => newId[t] \in Ids
    BY DEF TypeInv, HasId
<1> QED
    BY <1>1, <1>3, <1>4, <1>5, <1>6

LEMMA CreateKeepsOrder ==
    ASSUME TypeInv, Exclusive, OrderInv, NEW t \in Threads, CreateMessage(t)
    PROVE  OrderInv'
<1> USE DEF OrderInv, TypeInv, TypeOK
<1>1. /\ nextId' = nextId + 1 /\ newId' = [newId EXCEPT ![t] = nextId]
      /\ pc' = [pc EXCEPT ![t] = "add"] /\ pc[t] = "create"
      /\ UNCHANGED <<array, submitted, received, c2s>>
    BY DEF CreateMessage, Goto, netVars, serverVars
<1>2. /\ \A k \in DOMAIN array : array[k] \in Nat
      /\ \A id \in submitted : id \in Nat
    BY IdsAreNats
<1>3. Sorted' /\ IdsBelowNext'
    BY <1>1, <1>2 DEF Sorted, IdsBelowNext
<1>4. NewIdIsFresh'
    <2> SUFFICES ASSUME NEW u \in Threads, pc'[u] = "add"
                 PROVE  /\ newId'[u] < nextId'
                        /\ newId'[u] \notin submitted'
                        /\ \A k \in DOMAIN array' : array'[k] < newId'[u]
        BY DEF NewIdIsFresh
    <2>1. u = t
        BY <1>1, OneBuilder
    <2>2. newId'[u] = nextId
        BY <1>1, <2>1
    <2> QED
        BY <1>1, <1>2, <2>2 DEF IdsBelowNext
<1>5. OnlySubmitted'
    BY <1>1, OneBuilder DEF OnlySubmitted, Waiting
<1> QED
    BY <1>3, <1>4, <1>5

LEMMA AddKeepsOrder ==
    ASSUME TypeInv, Exclusive, OrderInv, NEW t \in Threads, AddMessage(t)
    PROVE  OrderInv' /\ Waiting' = Waiting \cup {newId[t]}
<1> USE DEF OrderInv, TypeInv, TypeOK
<1>1. /\ array' = Append(array, newId[t]) /\ submitted' = submitted \cup {newId[t]}
      /\ pc' = [pc EXCEPT ![t] = "send"] /\ pc[t] = "add"
      /\ UNCHANGED <<nextId, newId, received, c2s>>
    BY DEF AddMessage, Goto, netVars, serverVars
<1>2. newId[t] \in Ids
    BY <1>1 DEF HasId
<1>3. /\ Len(array) \in Nat /\ DOMAIN array = 1 .. Len(array)
      /\ DOMAIN array' = 1 .. Len(array) + 1
      /\ array'[Len(array) + 1] = newId[t]
      /\ \A k \in 1 .. Len(array) : array'[k] = array[k]
    BY <1>1, <1>2
<1>4. /\ \A k \in DOMAIN array : array[k] \in Nat /\ array[k] < newId[t]
      /\ newId[t] < nextId /\ newId[t] \in Nat
    BY <1>1, IdsAreNats DEF NewIdIsFresh
<1>5. Sorted'
    <2> SUFFICES ASSUME NEW i \in DOMAIN array', NEW j \in DOMAIN array', i < j
                 PROVE  array'[i] < array'[j]
        BY DEF Sorted
    <2>1. i \in 1 .. Len(array)
        BY <1>3
    <2>2. CASE j = Len(array) + 1
        BY <1>3, <1>4, <2>1, <2>2
    <2>3. CASE j # Len(array) + 1
        <3>1. j \in 1 .. Len(array)
            BY <1>3, <2>3
        <3> QED
            BY <1>3, <2>1, <3>1 DEF Sorted
    <2> QED
        BY <2>2, <2>3
<1>6. Waiting' = Waiting \cup {newId[t]}
    BY AddWaits
<1>7. IdsBelowNext'
    <2>1. \A id \in Waiting' : id < nextId'
        BY <1>1, <1>4, <1>6 DEF IdsBelowNext, Waiting
    <2> QED
        BY <1>1, <1>4, <2>1 DEF IdsBelowNext, Waiting
<1>8. NewIdIsFresh'
    BY <1>1, OneBuilder DEF NewIdIsFresh
<1>9. OnlySubmitted'
    BY <1>1, <1>6, OneBuilder DEF OnlySubmitted
<1> QED
    BY <1>5, <1>6, <1>7, <1>8, <1>9

\* A message leaves g_array, and no other.
LEMMA RemoveKeepsOrder ==
    ASSUME TypeInv, OrderInv, rpc = "diff", ri > 0,
           array' = RemoveId(array, array[ri]),
           UNCHANGED <<nextId, newId, pc, submitted, received>>,
           \A p \in c2s' : p.type = "MSG" => p.id \in submitted
    PROVE  OrderInv' /\ array[ri] \in Waiting /\ Waiting' = Waiting \ {array[ri]}
<1> USE DEF OrderInv
<1>1. array \in Seq(Nat) /\ ri \in DOMAIN array
    <2>1. ri \in 1 .. Len(array)
        BY DEF TypeInv, TypeOK, InBounds
    <2> QED
        BY <2>1, IdsAreNats
<1>2. /\ Ascending(array') /\ array' = RemoveAt(array, ri)
      /\ \A i \in DOMAIN array' : \E k \in DOMAIN array : k # ri /\ array'[i] = array[k]
    BY <1>1, RemoveIdAscending DEF Sorted, Ascending
<1>3. \A k \in DOMAIN array : k # ri => array[k] # array[ri]
    BY <1>1 DEF Sorted
<1>4. Waiting' = Waiting \ {array[ri]}
    <2>1. Waiting' \subseteq Waiting \ {array[ri]}
        BY <1>2, <1>3 DEF Waiting
    <2>2. Waiting \ {array[ri]} \subseteq Waiting'
        BY <1>1, RemoveIdKeepsOthers DEF Waiting
    <2> QED
        BY <2>1, <2>2
<1>5. Sorted'
    BY <1>2 DEF Sorted, Ascending
<1>6. IdsBelowNext' /\ NewIdIsFresh'
    BY <1>2 DEF IdsBelowNext, NewIdIsFresh
<1>7. OnlySubmitted'
    BY <1>4 DEF OnlySubmitted
<1> QED
    BY <1>1, <1>4, <1>5, <1>6, <1>7 DEF Waiting

LEMMA SenderKeepsOrder ==
    ASSUME TypeInv, Exclusive, OrderInv, NEW t \in Threads, SendSteps(t), ~AddMessage(t)
    PROVE  OrderInv' /\ UNCHANGED <<submitted, Waiting, resent, received>>
<1> USE DEF OrderInv, Goto, arrayVars, idVars, netVars, ackVars, serverVars, TypeInv, TypeOK
<1>1. UNCHANGED <<submitted, array, resent, received>>
    BY DEF SendSteps, LeaveLoop, BeginDrain, TryLock, Beat, LockArray, CreateMessage,
       CreateFails, SendMessage, MarshalFails, SendFails, DrainBeat, DrainDone, SendStop,
       RaiseInterrupt, Leave, clientVars
<1>2. CASE CreateMessage(t)
    BY <1>1, <1>2, CreateKeepsOrder DEF Waiting
<1>3. CASE ~CreateMessage(t)
    <2>0. \E label \in Labels \ {"add", "send"} : pc' = [pc EXCEPT ![t] = label] \/ pc' = pc
        BY <1>3 DEF SendSteps, LeaveLoop, BeginDrain, TryLock, Beat, LockArray,
           CreateFails, SendMessage, MarshalFails, SendFails, DrainBeat, DrainDone,
           SendStop, RaiseInterrupt, Leave, clientVars, senderVars, Labels
    <2>1. /\ UNCHANGED newId /\ (nextId' = nextId \/ nextId' = nextId + 1)
          /\ \A u \in Threads : pc'[u] \in {"add", "send"} => pc'[u] = pc[u]
        <3>1. \A u \in Threads : pc'[u] \in {"add", "send"} => pc'[u] = pc[u]
            BY <2>0
        <3>2. UNCHANGED newId /\ (nextId' = nextId \/ nextId' = nextId + 1)
            BY <1>3 DEF SendSteps, LeaveLoop, BeginDrain, TryLock, Beat, LockArray,
               CreateFails, SendMessage, MarshalFails, SendFails, DrainBeat, DrainDone,
               SendStop, RaiseInterrupt, Leave, clientVars, senderVars
        <3> QED
            BY <3>1, <3>2
    <2>2. \A p \in c2s' : p.type = "MSG" => p.id \in submitted
        <3>1. CASE SendMessage(t)
            <4>1. newId[t] \in submitted
                BY <3>1 DEF SendMessage, OnlySubmitted
            <4> QED
                BY <3>1, <4>1, SentIsSubset DEF SendMessage, OnlySubmitted, MessagePacket
        <3>2. CASE Beat(t) \/ DrainBeat(t)
            BY <3>2, SentIsSubset DEF Beat, DrainBeat, OnlySubmitted, Heartbeat
        <3>3. CASE SendStop(t)
            BY <3>3, SentIsSubset DEF SendStop, OnlySubmitted, Stop
        <3>4. CASE UNCHANGED c2s
            BY <3>4 DEF OnlySubmitted
        <3> QED
            BY <1>3, <3>1, <3>2, <3>3, <3>4 DEF SendSteps, LeaveLoop, BeginDrain, TryLock,
               LockArray, CreateFails, MarshalFails, SendFails, DrainDone, RaiseInterrupt,
               Leave
    <2>3. Sorted'
        BY <1>1 DEF Sorted
    <2>4. IdsBelowNext'
        BY <1>1, <2>1, IdsAreNats DEF IdsBelowNext
    <2>5. NewIdIsFresh'
        <3> SUFFICES ASSUME NEW u \in Threads, pc'[u] = "add"
                     PROVE  /\ newId'[u] < nextId'
                            /\ newId'[u] \notin submitted'
                            /\ \A k \in DOMAIN array' : array'[k] < newId'[u]
            BY DEF NewIdIsFresh
        <3>1. pc[u] = "add" /\ newId[u] \in Nat
            BY <2>1, IdsAreNats
        <3> QED
            BY <1>1, <2>1, <3>1, IdsAreNats DEF NewIdIsFresh
    <2>6. OnlySubmitted'
        BY <1>1, <2>1, <2>2 DEF OnlySubmitted, Waiting
    <2> QED
        BY <1>1, <2>3, <2>4, <2>5, <2>6 DEF Waiting
<1> QED
    BY <1>2, <1>3

\* A step that leaves g_array and the ids alone.
LEMMA QuietKeepsOrder ==
    ASSUME OrderInv, UNCHANGED <<array, submitted, nextId, newId>>,
           \A t \in Threads : pc'[t] \in {"add", "send"} => pc'[t] = pc[t],
           received' \subseteq submitted,
           \A p \in c2s' : p.type = "MSG" => p.id \in submitted
    PROVE  OrderInv' /\ UNCHANGED <<submitted, Waiting>>
<1> USE DEF OrderInv
<1>1. UNCHANGED <<submitted, Waiting>>
    BY DEF Waiting
<1>2. Sorted' /\ IdsBelowNext'
    BY DEF Sorted, IdsBelowNext
<1>3. NewIdIsFresh'
    BY DEF NewIdIsFresh
<1>4. OnlySubmitted'
    BY <1>1 DEF OnlySubmitted
<1> QED
    BY <1>1, <1>2, <1>3, <1>4

\* The three ways a message leaves g_array.
LEMMA DropKeepsOrder ==
    ASSUME TypeInv, OrderInv, DiffReceived \/ DiffMissed \/ DiffMarshalFails
    PROVE  /\ OrderInv' /\ array[ri] \in Waiting /\ Waiting' = Waiting \ {array[ri]}
           /\ UNCHANGED <<submitted, received>>
<1>1. /\ rpc = "diff" /\ ri > 0 /\ array' = RemoveId(array, array[ri])
      /\ UNCHANGED <<nextId, newId, pc, submitted, received>>
    BY DEF DiffReceived, DiffMissed, DiffMarshalFails, senderVars, idVars, serverVars
<1>2. \A p \in c2s' : p.type = "MSG" => p.id \in submitted
    <2>1. CASE UNCHANGED c2s
        BY <2>1 DEF OrderInv, OnlySubmitted
    <2>2. CASE DiffMissed
        <3>1. array[ri] \in Waiting
            BY <1>1, IdsAreNats DEF Waiting, TypeInv, TypeOK, InBounds
        <3>2. c2s' \subseteq c2s \cup {MessagePacket(array[ri], 1)}
            BY <2>2, SentIsSubset DEF DiffMissed
        <3> QED
            BY <3>1, <3>2 DEF MessagePacket, OrderInv, OnlySubmitted
    <2> QED
        BY <2>1, <2>2 DEF DiffReceived, DiffMarshalFails, netVars
<1> QED
    BY <1>1, <1>2, RemoveKeepsOrder

\* Everything else the client does besides sending.
LEMMA ResponderKeepsOrder ==
    ASSUME TypeInv, OrderInv, ResponderSteps \/ TimePasses \/ Interrupt,
           ~(DiffReceived \/ DiffMissed \/ DiffMarshalFails)
    PROVE  OrderInv' /\ UNCHANGED <<submitted, Waiting, resent, received>>
<1>1. UNCHANGED <<array, submitted, nextId, newId, received, resent, c2s>>
    BY DEF ResponderSteps, DiffSteps, ReceiveAck, ReceiveServerStop, LockForDiff, DiffKept,
       DiffSendFails, UnlockAfterDiff, CountMissed, TimePasses, Interrupt, senderVars,
       arrayVars, idVars, ackVars, netVars, serverVars
<1>2. \A t \in Threads : pc'[t] \in {"add", "send"} => pc'[t] = pc[t]
    <2>1. pc' = pc \/ pc' = [t \in Threads |-> "exited"]
        BY DEF ResponderSteps, DiffSteps, ReceiveAck, ReceiveServerStop, LockForDiff,
           DiffKept, DiffSendFails, UnlockAfterDiff, CountMissed, TimePasses, Interrupt,
           senderVars
    <2> QED
        BY <2>1
<1> QED
    BY <1>1, <1>2, QuietKeepsOrder DEF OrderInv, OnlySubmitted

LEMMA ServerKeepsOrder ==
    ASSUME TypeInv, OrderInv, ServerNext
    PROVE  OrderInv' /\ UNCHANGED <<submitted, Waiting, resent>>
<1>1. UNCHANGED <<array, submitted, nextId, newId, pc, resent>>
    BY DEF ServerNext, ReceiveMessage, ReceiveHeartbeat, ReceiveStop, StopResponder,
       FreeTwice, clientVars, senderVars, arrayVars, idVars, ackVars
<1>2. c2s' \subseteq c2s
    BY TakenIsSubset DEF ServerNext, ReceiveMessage, ReceiveHeartbeat, ReceiveStop,
       StopResponder, FreeTwice
<1>3. received' \subseteq submitted
    BY DEF ServerNext, ReceiveMessage, ReceiveHeartbeat, ReceiveStop, StopResponder,
       FreeTwice, OrderInv, OnlySubmitted
<1> QED
    BY <1>1, <1>2, <1>3, QuietKeepsOrder DEF OrderInv, OnlySubmitted

LEMMA OrderStep ==
    ASSUME TypeInv, Exclusive, OrderInv, [Next]_vars
    PROVE  OrderInv'
<1>1. CASE UNCHANGED vars
    BY <1>1, QuietKeepsOrder DEF vars, netVars, clientVars, senderVars, arrayVars, idVars,
       serverVars, OrderInv, OnlySubmitted
<1>2. ASSUME NEW t \in Threads, SendSteps(t)
      PROVE  OrderInv'
    BY <1>2, AddKeepsOrder, SenderKeepsOrder
<1>3. CASE ResponderSteps \/ TimePasses \/ Interrupt
    BY <1>3, DropKeepsOrder, ResponderKeepsOrder
<1>4. CASE ServerNext
    BY <1>4, ServerKeepsOrder
<1> QED
    BY <1>1, <1>2, <1>3, <1>4 DEF Next, ClientNext

LEMMA OrderInvariant == Spec => []OrderInv
<1>1. Init => OrderInv
    BY DEF Init, ClientInit, ServerInit, OrderInv, Sorted, IdsBelowNext, NewIdIsFresh,
       OnlySubmitted, Waiting
<1>2. TypeInv /\ Exclusive /\ OrderInv /\ [Next]_vars => OrderInv'
    BY OrderStep
<1> QED
    BY <1>1, <1>2, TypeInvariant, MutexInvariant, PTL DEF Spec

\* Whatever the client threads and the responder do, and whatever fails, the
\* ids in g_array ascend, as interpolate_search needs.
THEOREM GArraySorted == Spec => []Sorted
BY OrderInvariant, PTL DEF OrderInv
-----------------------------------------------------------------------------
(***************************************************************************)
(* The promise.                                                            *)
(***************************************************************************)

LEMMA PromiseStep ==
    ASSUME "marshal" \notin Faults, TypeInv, AckTruthful, Exclusive, OrderInv, [Next]_vars
    PROVE  Promise!Next \/ UNCHANGED Promise!vars
<1> USE DEF Promise!Next, Promise!vars
<1>1. CASE UNCHANGED vars
    BY <1>1 DEF vars, clientVars, arrayVars, idVars, ackVars, serverVars, Waiting
<1>2. ASSUME NEW t \in Threads, AddMessage(t)
      PROVE  Promise!Next
    <2>1. newId[t] \in Ids /\ newId[t] \notin submitted
        BY <1>2 DEF AddMessage, TypeInv, HasId, OrderInv, NewIdIsFresh
    <2>2. Waiting' = Waiting \cup {newId[t]}
        BY <1>2, AddKeepsOrder
    <2>3. Promise!Submit(newId[t])
        BY <1>2, <2>1, <2>2 DEF AddMessage, Promise!Submit, ackVars, serverVars
    <2> QED
        BY <2>1, <2>3
<1>3. ASSUME NEW t \in Threads, SendSteps(t), ~AddMessage(t)
      PROVE  UNCHANGED Promise!vars
    BY <1>3, SenderKeepsOrder
<1>4. CASE DiffReceived
    <2>1. /\ array[ri] \in Waiting /\ Waiting' = Waiting \ {array[ri]}
          /\ UNCHANGED <<submitted, received>>
        BY <1>4, DropKeepsOrder
    <2>2. array[ri] \in Ids
        BY <2>1 DEF OrderInv, OnlySubmitted, TypeInv, TypeOK
    <2>3. array[ri] \in received
        BY <1>4, <2>2 DEF DiffReceived, AckTruthful, Ids
    <2>4. Promise!Confirm(array[ri])
        BY <1>4, <2>1, <2>3 DEF DiffReceived, Promise!Confirm
    <2> QED
        BY <2>2, <2>4
<1>5. CASE DiffMissed
    <2>1. /\ array[ri] \in Waiting /\ Waiting' = Waiting \ {array[ri]}
          /\ UNCHANGED <<submitted, received>>
        BY <1>5, DropKeepsOrder
    <2>2. array[ri] \in Ids
        BY <2>1 DEF OrderInv, OnlySubmitted, TypeInv, TypeOK
    <2>3. Promise!Retry(array[ri])
        BY <1>5, <2>1 DEF DiffMissed, Promise!Retry
    <2> QED
        BY <2>2, <2>3
<1>6. CASE /\ ResponderSteps \/ TimePasses \/ Interrupt
           /\ ~(DiffReceived \/ DiffMissed)
    BY <1>6, ResponderKeepsOrder DEF DiffMarshalFails
<1>7. ASSUME NEW p \in c2s, ReceiveMessage(p)
      PROVE  Promise!Next
    <2>1. p.id \in submitted /\ p.id \in Ids
        BY <1>7 DEF ReceiveMessage, OrderInv, OnlySubmitted, TypeInv, TypeOK
    <2>2. UNCHANGED <<submitted, Waiting, resent>>
        BY <1>7, ServerKeepsOrder DEF ServerNext
    <2>3. Promise!Deliver(p.id)
        BY <1>7, <2>1, <2>2 DEF ReceiveMessage, Promise!Deliver
    <2> QED
        BY <2>1, <2>3
<1>8. CASE ReceiveHeartbeat \/ ReceiveStop \/ StopResponder \/ (\E p \in c2s : FreeTwice(p))
    <2>1. UNCHANGED received
        BY <1>8 DEF ReceiveHeartbeat, ReceiveStop, StopResponder, FreeTwice
    <2> QED
        BY <1>8, <2>1, ServerKeepsOrder DEF ServerNext
<1> QED
    BY <1>1, <1>2, <1>3, <1>4, <1>5, <1>6, <1>7, <1>8 DEF Next, ClientNext, ServerNext

\* As long as marshal_message has the memory it asks for, client, server and
\* network together keep the promise of module Delivery: a message is forgotten
\* when the server has it or after its second chance, and only submitted
\* messages arrive.
THEOREM PromiseKept ==
    ASSUME "marshal" \notin Faults
    PROVE  Spec => KeepsPromise
<1>1. Init => Promise!Init
    BY DEF Init, ClientInit, ServerInit, Promise!Init, Waiting
<1>2. TypeInv /\ AckTruthful /\ Exclusive /\ OrderInv /\ [Next]_vars
        => [Promise!Next]_(Promise!vars)
    BY PromiseStep
<1> QED
    BY <1>1, <1>2, TypeInvariant, AcksAreTruthful, MutexInvariant, OrderInvariant, PTL
       DEF Spec, KeepsPromise, Promise!Spec
-----------------------------------------------------------------------------
(***************************************************************************)
(* The counts.  A message that is sent a second time leaves g_array with   *)
(* it, and no id is used again: every resend is a new one.                 *)
(***************************************************************************)

ResentGone == IsFiniteSet(resent) /\ resent \subseteq submitted \ Waiting

LEMMA ResentGoneStep ==
    ASSUME TypeInv, Exclusive, OrderInv, ResentGone, [Next]_vars
    PROVE  ResentGone'
<1> USE DEF ResentGone
<1>1. ASSUME NEW t \in Threads, AddMessage(t)
      PROVE  ResentGone'
    <2>1. newId[t] \notin submitted
        BY <1>1 DEF AddMessage, OrderInv, NewIdIsFresh
    <2>2. Waiting' = Waiting \cup {newId[t]}
        BY <1>1, AddWaits
    <2> QED
        BY <1>1, <2>1, <2>2 DEF AddMessage, ackVars
<1>2. ASSUME NEW t \in Threads, SendSteps(t), ~AddMessage(t)
      PROVE  ResentGone'
    BY <1>2, SenderKeepsOrder
<1>3. CASE DiffReceived \/ DiffMissed \/ DiffMarshalFails
    <2>1. /\ Waiting' = Waiting \ {array[ri]} /\ array[ri] \in submitted
          /\ UNCHANGED submitted
        BY <1>3, DropKeepsOrder DEF OrderInv, OnlySubmitted
    <2>2. resent' = resent \/ resent' = resent \cup {array[ri]}
        BY <1>3 DEF DiffReceived, DiffMissed, DiffMarshalFails
    <2>3. IsFiniteSet(resent')
        BY <2>2, FS_AddElement
    <2> QED
        BY <2>1, <2>2, <2>3
<1>4. CASE /\ ResponderSteps \/ TimePasses \/ Interrupt
           /\ ~(DiffReceived \/ DiffMissed \/ DiffMarshalFails)
    BY <1>4, ResponderKeepsOrder
<1>5. CASE ServerNext
    BY <1>5, ServerKeepsOrder
<1>6. CASE UNCHANGED vars
    BY <1>6 DEF vars, clientVars, arrayVars, idVars, ackVars, Waiting
<1> QED
    BY <1>1, <1>2, <1>3, <1>4, <1>5, <1>6 DEF Next, ClientNext

\* What diff_from_arrays sends a second time it never sent a second time before.
LEMMA ResendIsNew ==
    ASSUME TypeInv, OrderInv, ResentGone, DiffMissed
    PROVE  /\ resent' = resent \cup {array[ri]}
           /\ IsFiniteSet(resent')
           /\ Cardinality(resent) \in Nat
           /\ Cardinality(resent') = Cardinality(resent) + 1
<1>1. array[ri] \in Waiting /\ resent' = resent \cup {array[ri]}
    BY DropKeepsOrder DEF DiffMissed
<1>2. array[ri] \notin resent
    BY <1>1 DEF ResentGone
<1>3. Cardinality(resent) \in Nat
    BY FS_CardinalityType DEF ResentGone
<1>4. /\ IsFiniteSet(resent \cup {array[ri]})
      /\ Cardinality(resent \cup {array[ri]}) =
            IF array[ri] \in resent THEN Cardinality(resent) ELSE Cardinality(resent) + 1
    BY FS_AddElement DEF ResentGone
<1> QED
    BY <1>1, <1>2, <1>3, <1>4

LEMMA ResentInvariant == Spec => []ResentGone
<1>1. Init => ResentGone
    BY FS_EmptySet DEF Init, ClientInit, ResentGone
<1>2. TypeInv /\ Exclusive /\ OrderInv /\ ResentGone /\ [Next]_vars => ResentGone'
    BY ResentGoneStep
<1> QED
    BY <1>1, <1>2, TypeInvariant, MutexInvariant, OrderInvariant, PTL DEF Spec

\* Where resent does not change, neither do the counts, as long as every message
\* that a diff gives up can be put together and sent.
LEMMA MissedStep ==
    ASSUME "marshal" \notin Faults, "resend" \notin Faults,
           TypeInv, OrderInv, ResentGone, MissedIsResent, [Next]_vars
    PROVE  MissedIsResent'
<1> USE DEF MissedIsResent
<1>0. missed \in Nat /\ misses \in Nat /\ Uncounted \in Nat
    BY UncountedType
<1>1. CASE UNCHANGED <<missed, rpc, misses, resent>>
    BY <1>1 DEF Uncounted
<1>2. CASE DiffMissed
    <2>1. Cardinality(resent) \in Nat /\ Cardinality(resent') = Cardinality(resent) + 1
        BY <1>2, ResendIsNew
    <2>2. missed' + Uncounted' = (missed + Uncounted) + 1
        BY <1>0, <1>2 DEF DiffMissed, Uncounted
    <2> QED
        BY <2>1, <2>2
<1>3. CASE LockForDiff \/ DiffReceived \/ DiffKept \/ UnlockAfterDiff \/ CountMissed
    BY <1>0, <1>3 DEF LockForDiff, DiffReceived, DiffKept, UnlockAfterDiff, CountMissed,
       arrayVars, Uncounted
<1>4. CASE (\E p \in s2c : ReceiveAck(p)) \/ ReceiveServerStop
    BY <1>0, <1>4 DEF ReceiveAck, ReceiveServerStop, Uncounted
<1>5. CASE TimePasses \/ Interrupt \/ ServerNext \/ UNCHANGED vars
    BY <1>1, <1>5 DEF TimePasses, Interrupt, ServerNext, ReceiveMessage, ReceiveHeartbeat,
       ReceiveStop, StopResponder, FreeTwice, vars, clientVars, ackVars
<1>6. CASE \E t \in Threads : SendSteps(t)
    BY <1>1, <1>6, SenderFrame DEF ackVars
<1> QED
    BY <1>2, <1>3, <1>4, <1>5, <1>6
       DEF Next, ClientNext, ResponderSteps, DiffSteps, DiffMarshalFails, DiffSendFails

\* As long as every resend can be put together and sent, "Total messages missed"
\* counts each message that was sent a second time, once.
THEOREM MissedCountsResends ==
    ASSUME "marshal" \notin Faults, "resend" \notin Faults
    PROVE  Spec => []MissedIsResent
<1>1. Init => MissedIsResent
    BY FS_EmptySet DEF Init, ClientInit, MissedIsResent, Uncounted
<1>2. TypeInv /\ OrderInv /\ ResentGone /\ MissedIsResent /\ [Next]_vars => MissedIsResent'
    BY MissedStep
<1> QED
    BY <1>1, <1>2, TypeInvariant, OrderInvariant, ResentInvariant, PTL DEF Spec
-----------------------------------------------------------------------------
(***************************************************************************)
(* No message is on its way, or counted by the server, more often than it  *)
(* was sent.  The id that a thread has taken and not yet sent counts as    *)
(* spent; g_array_mutex sees to it that there is one at most.              *)
(***************************************************************************)

Copies == {p \in c2s : p.type = "MSG"}
InHand == \E t \in Threads : pc[t] \in {"add", "send"}
Used == countMsg + Cardinality(Copies)
Budget == (nextId - 1) + Cardinality(resent)
CopiesInv == IsFiniteSet(Copies) /\ Used <= Budget /\ (InHand => Used < Budget)

LEMMA CountTypes ==
    ASSUME TypeInv, ResentGone, CopiesInv
    PROVE  /\ countMsg \in Nat /\ nextId \in Nat /\ nextId - 1 \in Nat
           /\ Cardinality(Copies) \in Nat /\ Cardinality(resent) \in Nat
BY FS_CardinalityType DEF TypeInv, TypeOK, ResentGone, CopiesInv

\* A step that adds no copy.
LEMMA NoNewCopy ==
    ASSUME TypeInv, ResentGone, CopiesInv, Copies' \subseteq Copies,
           UNCHANGED <<countMsg, resent>>,
           \/ nextId' = nextId /\ (InHand' => InHand)
           \/ nextId' = nextId + 1
    PROVE  CopiesInv'
<1>1. /\ IsFiniteSet(Copies') /\ Cardinality(Copies') \in Nat
      /\ Cardinality(Copies') <= Cardinality(Copies)
    BY Shrinks DEF CopiesInv
<1>2. CASE nextId' = nextId /\ (InHand' => InHand)
    BY <1>1, <1>2, CountTypes DEF CopiesInv, Used, Budget
<1>3. CASE nextId' = nextId + 1
    BY <1>1, <1>3, CountTypes DEF CopiesInv, Used, Budget
<1> QED
    BY <1>2, <1>3

\* A step that adds one copy, and pays for it.
LEMMA OneNewCopy ==
    ASSUME TypeInv, ResentGone, CopiesInv, NEW p, Copies' \subseteq Copies \cup {p},
           UNCHANGED <<countMsg, nextId>>,
           \/ InHand /\ ~InHand' /\ UNCHANGED resent
           \/ /\ Cardinality(resent') = Cardinality(resent) + 1
              /\ InHand' => InHand
    PROVE  CopiesInv'
<1>1. /\ IsFiniteSet(Copies') /\ Cardinality(Copies') \in Nat
      /\ Cardinality(Copies') <= Cardinality(Copies) + 1
    BY GrowsByOne DEF CopiesInv
<1>2. CASE InHand /\ ~InHand' /\ UNCHANGED resent
    BY <1>1, <1>2, CountTypes DEF CopiesInv, Used, Budget
<1>3. CASE Cardinality(resent') = Cardinality(resent) + 1 /\ (InHand' => InHand)
    BY <1>1, <1>3, CountTypes DEF CopiesInv, Used, Budget
<1> QED
    BY <1>2, <1>3

\* A thread's step: it spends an id, or puts the message in hand on its way.
LEMMA SenderCopies ==
    ASSUME TypeInv, Exclusive, ResentGone, CopiesInv, NEW t \in Threads, SendSteps(t)
    PROVE  CopiesInv'
<1> USE DEF Goto, netVars, arrayVars, idVars, ackVars, senderVars, serverVars
<1>0. UNCHANGED <<countMsg, resent>> /\ pc \in [Threads -> Labels]
    BY SenderFrame DEF TypeInv, TypeOK
<1>1. CASE CreateMessage(t)
    <2>1. Copies' \subseteq Copies /\ nextId' = nextId + 1
        BY <1>1 DEF CreateMessage, Copies
    <2> QED
        BY <1>0, <2>1, NoNewCopy
<1>2. CASE SendMessage(t)
    <2>1. InHand /\ ~InHand'
        BY <1>0, <1>2, OneBuilder DEF SendMessage, InHand
    <2>2. Copies' \subseteq Copies \cup {MessagePacket(newId[t], 0)}
        BY <1>2, SentIsSubset DEF SendMessage, Copies
    <2>3. UNCHANGED nextId
        BY <1>2 DEF SendMessage
    <2> QED
        BY <1>0, <2>1, <2>2, <2>3, OneNewCopy
<1>3. CASE ~CreateMessage(t) /\ ~SendMessage(t)
    <2>1. nextId' = nextId \/ nextId' = nextId + 1
        BY <1>3 DEF SendSteps, LeaveLoop, BeginDrain, TryLock, Beat, LockArray, CreateFails,
           AddMessage, MarshalFails, SendFails, DrainBeat, DrainDone, SendStop,
           RaiseInterrupt, Leave, clientVars
    <2>2. \A u \in Threads : pc'[u] \in {"add", "send"} => pc[u] \in {"add", "send"}
        BY <1>0, <1>3 DEF SendSteps, LeaveLoop, BeginDrain, TryLock, Beat, LockArray,
           CreateFails, AddMessage, MarshalFails, SendFails, DrainBeat, DrainDone, SendStop,
           RaiseInterrupt, Leave, clientVars
    <2>3. InHand' => InHand
        BY <2>2 DEF InHand
    <2>4. Copies' \subseteq Copies
        <3>1. CASE Beat(t) \/ DrainBeat(t) \/ SendStop(t)
            BY <3>1, SentIsSubset DEF Beat, DrainBeat, SendStop, Heartbeat, Stop, Copies
        <3>2. CASE UNCHANGED c2s
            BY <3>2 DEF Copies
        <3> QED
            BY <1>3, <3>1, <3>2 DEF SendSteps, LeaveLoop, BeginDrain, TryLock, LockArray,
               CreateFails, AddMessage, MarshalFails, SendFails, DrainDone,
               RaiseInterrupt, Leave
    <2> QED
        BY <1>0, <2>1, <2>3, <2>4, NoNewCopy
<1> QED
    BY <1>1, <1>2, <1>3

LEMMA CopiesStep ==
    ASSUME "MSG" \notin Duplicates,
           TypeInv, Exclusive, OrderInv, ResentGone, CopiesInv, [Next]_vars
    PROVE  CopiesInv'
<1>0. UNCHANGED pc => (InHand' => InHand)
    BY DEF InHand
<1>1. CASE DiffMissed
    <2>1. Copies' \subseteq Copies \cup {MessagePacket(array[ri], 1)}
        BY <1>1, SentIsSubset DEF DiffMissed, Copies
    <2>2. Cardinality(resent') = Cardinality(resent) + 1
        BY <1>1, ResendIsNew
    <2>3. UNCHANGED <<pc, countMsg, nextId>>
        BY <1>1 DEF DiffMissed, senderVars, idVars, serverVars
    <2> QED
        BY <1>0, <2>1, <2>2, <2>3, OneNewCopy
<1>2. ASSUME NEW p \in c2s, ReceiveMessage(p)
      PROVE  CopiesInv'
    <2>1. p \in Copies /\ Copies' = Copies \ {p}
        BY <1>2 DEF ReceiveMessage, Taken, Copies
    <2>2. IsFiniteSet(Copies') /\ Cardinality(Copies') = Cardinality(Copies) - 1
        BY <2>1, FS_RemoveElement DEF CopiesInv
    <2>3. countMsg' = countMsg + 1 /\ UNCHANGED <<pc, nextId, resent>>
        BY <1>2 DEF ReceiveMessage, clientVars, senderVars, arrayVars, idVars, ackVars
    <2> QED
        BY <1>0, <2>2, <2>3, CountTypes DEF CopiesInv, Used, Budget
<1>3. CASE DiffSendFails
    <2>1. ~InHand'
        BY <1>3 DEF DiffSendFails, InHand
    <2>2. UNCHANGED <<c2s, countMsg, nextId, resent>>
        BY <1>3 DEF DiffSendFails, arrayVars, idVars, netVars, serverVars
    <2> QED
        BY <2>1, <2>2, NoNewCopy DEF Copies
<1>4. CASE ReceiveHeartbeat \/ ReceiveStop \/ StopResponder \/ (\E p \in c2s : FreeTwice(p))
    <2>1. Copies' \subseteq Copies
        BY <1>4, TakenIsSubset DEF ReceiveHeartbeat, ReceiveStop, StopResponder, FreeTwice, Copies
    <2>2. UNCHANGED <<pc, countMsg, nextId, resent>>
        BY <1>4 DEF ReceiveHeartbeat, ReceiveStop, StopResponder, FreeTwice, clientVars,
           senderVars, arrayVars, idVars, ackVars
    <2> QED
        BY <1>0, <2>1, <2>2, NoNewCopy
<1>5. CASE /\ ResponderSteps \/ TimePasses \/ Interrupt \/ UNCHANGED vars
           /\ ~DiffMissed /\ ~DiffSendFails
    <2>1. UNCHANGED <<c2s, pc, countMsg, nextId, resent>>
        BY <1>5 DEF ResponderSteps, DiffSteps, ReceiveAck, ReceiveServerStop, LockForDiff,
           DiffReceived, DiffKept, DiffMarshalFails, UnlockAfterDiff, CountMissed,
           TimePasses, Interrupt, vars, netVars, clientVars, senderVars, arrayVars, idVars,
           ackVars, serverVars
    <2> QED
        BY <1>0, <2>1, NoNewCopy DEF Copies
<1> QED
    BY <1>1, <1>2, <1>3, <1>4, <1>5, SenderCopies DEF Next, ClientNext, ServerNext

\* If the network duplicates no message, the server counts at most one message
\* for each id given out and each message sent a second time.
THEOREM CopiesAreBounded ==
    ASSUME "MSG" \notin Duplicates
    PROVE  Spec => []CopiesBound
<1>1. Init => CopiesInv
    <2> SUFFICES ASSUME Init
                 PROVE  CopiesInv
        OBVIOUS
    <2>1. Copies = {} /\ ~InHand /\ countMsg = 0 /\ nextId = 1 /\ resent = {}
        BY DEF Init, ClientInit, ServerInit, Copies, InHand
    <2> QED
        BY <2>1, FS_EmptySet DEF CopiesInv, Used, Budget
<1>2. TypeInv /\ Exclusive /\ OrderInv /\ ResentGone /\ CopiesInv /\ [Next]_vars
        => CopiesInv'
    BY CopiesStep
<1>3. TypeInv /\ ResentGone /\ CopiesInv => CopiesBound
    <2> SUFFICES ASSUME TypeInv, ResentGone, CopiesInv
                 PROVE  CopiesBound
        OBVIOUS
    <2>1. Cardinality(Created) = nextId - 1
        <3>1. nextId - 1 \in Nat
            BY CountTypes
        <3> QED
            BY <3>1, FS_Interval DEF Created
    <2> QED
        BY <2>1, CountTypes DEF CopiesInv, CopiesBound, Used, Budget
<1> QED
    BY <1>1, <1>2, <1>3, TypeInvariant, MutexInvariant, OrderInvariant, ResentInvariant, PTL
       DEF Spec
-----------------------------------------------------------------------------
(***************************************************************************)
(* "Total messages sent".  Every message that went into g_array is in      *)
(* g_count_msg or is one of those that a thread, which is not done, has    *)
(* counted for itself or is about to.                                      *)
(***************************************************************************)

Own(t) == count[t] + (IF pc[t] = "send" THEN 1 ELSE 0)
Uncredited == {q \in Threads \X (Nat \ {0}) : pc[q[1]] # "done" /\ q[2] <= Own(q[1])}
CreditInv ==
    rpc # "exited" => /\ IsFiniteSet(Uncredited) /\ IsFiniteSet(submitted)
                      /\ total + Cardinality(Uncredited) = Cardinality(submitted)

\* The flag is raised by a thread that has sent all of its messages, and only.
AllOfOne ==
    rpc # "exited" =>
        /\ \A t \in Threads :
               /\ pc[t] \in {"drain", "stop", "raise"} => count[t] = NumMessages
               /\ pc[t] \in {"leave", "done"} => interrupted
               /\ pc[t] = "done" => total >= count[t]
        /\ interrupted => \E t \in Threads : /\ count[t] = NumMessages
                                             /\ pc[t] \in {"stop", "raise", "leave", "done"}

\* What the responder, the server, the clock or nobody does changes no count.
LEMMA OnlyThreadsCount ==
    ASSUME ~UserInterrupt, [Next]_vars, rpc' # "exited", \A t \in Threads : ~SendSteps(t)
    PROVE  rpc # "exited" /\ UNCHANGED <<pc, count, interrupted, total, submitted>>
BY DEF Next, ClientNext, ResponderSteps, DiffSteps, ReceiveAck, ReceiveServerStop,
   LockForDiff, DiffReceived, DiffKept, DiffMissed, DiffMarshalFails, DiffSendFails,
   UnlockAfterDiff, CountMissed, TimePasses, Interrupt, ServerNext, ReceiveMessage,
   ReceiveHeartbeat, ReceiveStop, StopResponder, FreeTwice, vars, clientVars, senderVars,
   flagVars, arrayVars, idVars, ackVars

\* A thread that adds its counter to the total takes its messages from the others.
LEMMA LeaveCredits ==
    ASSUME TypeInv, CreditInv, rpc # "exited", NEW t \in Threads, Leave(t)
    PROVE  CreditInv'
<1> USE DEF TypeInv, TypeOK
<1>1. /\ pc[t] = "leave" /\ pc' = [pc EXCEPT ![t] = "done"] /\ total' = total + count[t]
      /\ UNCHANGED <<count, submitted>> /\ count[t] \in Nat /\ total \in Nat
    BY DEF Leave, Goto, arrayVars, idVars
<1> DEFINE Mine == {t} \X (1 .. count[t])
<1>2. IsFiniteSet(Mine) /\ Cardinality(Mine) = count[t]
    <2>1. IsFiniteSet({t}) /\ Cardinality({t}) = 1
        BY FS_Singleton, Zenon
    <2>2. IsFiniteSet(1 .. count[t]) /\ Cardinality(1 .. count[t]) = count[t]
        <3> DEFINE n == count[t]
        <3>1. n \in Nat /\ n \in Int /\ 1 \in Int
            BY <1>1
        <3> HIDE DEF n
        <3>2. /\ IsFiniteSet(1 .. n)
              /\ Cardinality(1 .. n) = IF 1 > n THEN 0 ELSE n - 1 + 1
            BY <3>1, FS_Interval
        <3>3. Cardinality(1 .. n) = n
            BY <3>1, <3>2
        <3> QED
            BY <3>2, <3>3 DEF n
    <2>3. IsFiniteSet(Mine) /\ Cardinality(Mine) = Cardinality({t}) * Cardinality(1 .. count[t])
        BY <2>1, <2>2, FS_Product, Zenon
    <2> QED
        BY <1>1, <2>1, <2>2, <2>3
<1>3. Mine \subseteq Uncredited
    BY <1>1 DEF Uncredited, Own
<1>4. Uncredited' = Uncredited \ Mine
    <2> SUFFICES ASSUME NEW q \in Threads \X (Nat \ {0})
                 PROVE  q \in Uncredited' <=> q \in Uncredited /\ q \notin Mine
        BY <1>3 DEF Uncredited
    <2>1. CASE q[1] = t
        <3>1. q \notin Uncredited'
            BY <1>1, <2>1 DEF Uncredited
        <3>2. q \in Uncredited => q[2] \in 1 .. count[t]
            BY <1>1, <2>1 DEF Uncredited, Own
        <3>3. q[2] \in 1 .. count[t] => q \in Mine
            BY <2>1
        <3> QED
            BY <3>1, <3>2, <3>3
    <2>2. CASE q[1] # t
        BY <1>1, <2>2 DEF Uncredited, Own
    <2> QED
        BY <2>1, <2>2
<1> HIDE DEF Mine
<1>5. IsFiniteSet(Uncredited) /\ Cardinality(Uncredited) \in Nat
    BY FS_CardinalityType DEF CreditInv
<1>6. Uncredited \cap Mine = Mine
    BY <1>3
<1>7. /\ IsFiniteSet(Uncredited')
      /\ Cardinality(Uncredited') = Cardinality(Uncredited) - count[t]
    <2>1. /\ IsFiniteSet(Uncredited \ Mine)
          /\ Cardinality(Uncredited \ Mine)
                = Cardinality(Uncredited) - Cardinality(Uncredited \cap Mine)
        BY <1>5, FS_Difference, Zenon
    <2> QED
        BY <1>2, <1>4, <1>6, <2>1
<1> QED
    BY <1>1, <1>5, <1>7 DEF CreditInv

\* A message that goes into g_array is one more for its thread.
LEMMA AddCredits ==
    ASSUME TypeInv, OrderInv, CreditInv, rpc # "exited", NEW t \in Threads, AddMessage(t)
    PROVE  CreditInv'
<1> USE DEF TypeInv, TypeOK
<1>1. /\ pc[t] = "add" /\ pc' = [pc EXCEPT ![t] = "send"] /\ count[t] \in Nat
      /\ submitted' = submitted \cup {newId[t]} /\ newId[t] \notin submitted
      /\ UNCHANGED <<count, total>> /\ total \in Nat
    BY DEF AddMessage, Goto, flagVars, OrderInv, NewIdIsFresh
<1> DEFINE New == <<t, count[t] + 1>>
<1>2. New \notin Uncredited
    BY <1>1 DEF Uncredited, Own
<1>3. Uncredited' = Uncredited \cup {New}
    <2>1. New \in Uncredited'
        BY <1>1 DEF Uncredited, Own
    <2> SUFFICES ASSUME NEW q \in Threads \X (Nat \ {0})
                 PROVE  q \in Uncredited' <=> q \in Uncredited \/ q = New
        BY <2>1 DEF Uncredited
    <2>2. CASE q[1] = t
        <3>1. q \in Uncredited' <=> q[2] <= count[t] + 1
            BY <1>1, <2>2 DEF Uncredited, Own
        <3>2. q \in Uncredited <=> q[2] <= count[t]
            BY <1>1, <2>2 DEF Uncredited, Own
        <3>3. q = New <=> q[2] = count[t] + 1
            BY <2>2
        <3>4. q[2] \in Nat
            OBVIOUS
        <3> QED
            BY <1>1, <3>1, <3>2, <3>3, <3>4
    <2>3. CASE q[1] # t
        BY <1>1, <2>3 DEF Uncredited, Own
    <2> QED
        BY <2>2, <2>3
<1> HIDE DEF New
<1>4. /\ IsFiniteSet(Uncredited) /\ Cardinality(Uncredited) \in Nat
      /\ IsFiniteSet(submitted) /\ Cardinality(submitted) \in Nat
    BY FS_CardinalityType DEF CreditInv
<1>5. /\ IsFiniteSet(Uncredited')
      /\ Cardinality(Uncredited') = Cardinality(Uncredited) + 1
    BY <1>2, <1>3, <1>4, FS_AddElement
<1>6. /\ IsFiniteSet(submitted')
      /\ Cardinality(submitted') = Cardinality(submitted) + 1
    BY <1>1, <1>4, FS_AddElement
<1> QED
    BY <1>1, <1>4, <1>5, <1>6 DEF CreditInv

LEMMA CreditStep ==
    ASSUME "marshal" \notin Faults, "send" \notin Faults, ~UserInterrupt,
           TypeInv, OrderInv, CreditInv, [Next]_vars
    PROVE  CreditInv'
<1> USE DEF TypeInv, TypeOK
<1>1. CASE rpc' = "exited"
    BY <1>1 DEF CreditInv
<1>2. CASE rpc' # "exited" /\ \A t \in Threads : ~SendSteps(t)
    BY <1>2, OnlyThreadsCount DEF CreditInv, Uncredited, Own
<1>3. ASSUME NEW t \in Threads, SendSteps(t), rpc' # "exited"
      PROVE  CreditInv'
    <2>1. rpc # "exited"
        BY <1>3, SenderFrame DEF ackVars
    <2>2. CASE Leave(t)
        BY <2>1, <2>2, LeaveCredits
    <2>3. CASE AddMessage(t)
        BY <2>1, <2>3, AddCredits
    <2>4. CASE ~Leave(t) /\ ~AddMessage(t)
        <3>1. /\ UNCHANGED <<total, submitted>>
              /\ \A u \in Threads : (pc'[u] = "done" <=> pc[u] = "done") /\ Own(u)' = Own(u)
            BY <1>3, <2>4 DEF SendSteps, LeaveLoop, BeginDrain, TryLock, Beat, LockArray,
               CreateMessage, CreateFails, SendMessage, MarshalFails, SendFails, DrainBeat,
               DrainDone, SendStop, RaiseInterrupt, clientVars, senderVars, flagVars,
               arrayVars, idVars, Goto, Own
        <3>2. Uncredited' = Uncredited
            BY <3>1 DEF Uncredited
        <3> QED
            BY <2>1, <3>1, <3>2 DEF CreditInv
    <2> QED
        BY <2>2, <2>3, <2>4
<1> QED
    BY <1>1, <1>2, <1>3

LEMMA AllOfOneStep ==
    ASSUME "send" \notin Faults, ~UserInterrupt, TypeInv, AllOfOne, [Next]_vars
    PROVE  AllOfOne'
<1> USE DEF TypeInv, TypeOK
<1>1. CASE rpc' = "exited"
    BY <1>1 DEF AllOfOne
<1>2. CASE rpc' # "exited" /\ \A t \in Threads : ~SendSteps(t)
    BY <1>2, OnlyThreadsCount DEF AllOfOne
<1>3. ASSUME NEW t \in Threads, SendSteps(t), rpc' # "exited"
      PROVE  AllOfOne'
    <2>1. rpc # "exited"
        BY <1>3, SenderFrame DEF ackVars
    <2>2. /\ \A u \in Threads \ {t} : pc'[u] = pc[u] /\ count'[u] = count[u]
          /\ total' \in Nat /\ total' >= total
        BY <1>3 DEF SendSteps, LeaveLoop, BeginDrain, TryLock, Beat, LockArray,
           CreateMessage, CreateFails, AddMessage, SendMessage, MarshalFails, SendFails,
           DrainBeat, DrainDone, SendStop, RaiseInterrupt, Leave, clientVars, senderVars,
           flagVars, Goto
    <2>3. /\ pc[t] \in {"stop", "raise", "leave"}
                => pc'[t] \in {"stop", "raise", "leave", "done"} /\ count'[t] = count[t]
          /\ pc[t] # "done"
          /\ pc'[t] \in {"drain", "stop", "raise"} =>
                /\ count'[t] = count[t]
                /\ count[t] = NumMessages \/ pc[t] \in {"drain", "stop", "raise"}
          /\ pc'[t] = "leave" => interrupted'
          /\ pc'[t] = "done" => pc[t] = "leave" /\ total' >= count'[t] /\ interrupted' = interrupted
          /\ interrupted' # interrupted => pc[t] = "raise" /\ interrupted'
        BY <1>3 DEF SendSteps, LeaveLoop, BeginDrain, TryLock, Beat, LockArray,
           CreateMessage, CreateFails, AddMessage, SendMessage, MarshalFails, SendFails,
           DrainBeat, DrainDone, SendStop, RaiseInterrupt, Leave, clientVars, senderVars,
           flagVars, Goto
    <2>4. ASSUME NEW u \in Threads
          PROVE  /\ pc'[u] \in {"drain", "stop", "raise"} => count'[u] = NumMessages
                 /\ pc'[u] \in {"leave", "done"} => interrupted'
                 /\ pc'[u] = "done" => total' >= count'[u]
        <3>1. CASE u = t
            BY <2>1, <2>3, <3>1 DEF AllOfOne
        <3>2. CASE u # t
            <4>1. pc'[u] = pc[u] /\ count'[u] = count[u] /\ count[u] \in Nat
                BY <2>2, <3>2
            <4>2. interrupted => interrupted'
                BY <2>3
            <4>3. total >= count[u] => total' >= count[u]
                BY <2>2, <4>1
            <4> QED
                BY <2>1, <4>1, <4>2, <4>3 DEF AllOfOne
        <3> QED
            BY <3>1, <3>2
    <2>5. ASSUME interrupted'
          PROVE  \E u \in Threads : /\ count'[u] = NumMessages
                                    /\ pc'[u] \in {"stop", "raise", "leave", "done"}
        <3>1. CASE interrupted
            <4>1. PICK u \in Threads : /\ count[u] = NumMessages
                                       /\ pc[u] \in {"stop", "raise", "leave", "done"}
                BY <2>1, <3>1 DEF AllOfOne
            <4> QED
                BY <2>2, <2>3, <4>1
        <3>2. CASE ~interrupted
            <4>1. pc[t] = "raise"
                BY <2>3, <2>5, <3>2
            <4>2. count[t] = NumMessages
                BY <2>1, <4>1 DEF AllOfOne
            <4> QED
                BY <2>3, <4>1, <4>2
        <3> QED
            BY <3>1, <3>2
    <2> QED
        BY <2>4, <2>5 DEF AllOfOne
<1> QED
    BY <1>1, <1>2, <1>3

\* As long as messages can be put together and sent and nobody presses Ctrl+C,
\* "Total messages sent" counts every message that went into g_array once, however
\* the threads cut each other short, and one thread has sent all of its own.
THEOREM SentIsCounted ==
    ASSUME "marshal" \notin Faults, "send" \notin Faults, ~UserInterrupt, Threads # {}
    PROVE  Spec => []SentCounted
<1>1. Init => CreditInv /\ AllOfOne
    <2> SUFFICES ASSUME Init
                 PROVE  CreditInv /\ AllOfOne
        OBVIOUS
    <2>1. /\ submitted = {} /\ total = 0 /\ ~interrupted
          /\ \A t \in Threads : pc[t] = "loop" /\ count[t] = 0
        BY DEF Init, ClientInit
    <2>2. Uncredited = {}
        BY <2>1 DEF Uncredited, Own
    <2> QED
        BY <2>1, <2>2, FS_EmptySet DEF CreditInv, AllOfOne
<1>2. TypeInv /\ OrderInv /\ CreditInv /\ AllOfOne /\ [Next]_vars => CreditInv' /\ AllOfOne'
    BY CreditStep, AllOfOneStep
<1>3. TypeInv /\ CreditInv /\ AllOfOne => SentCounted
    <2> SUFFICES ASSUME TypeInv, CreditInv, AllOfOne, ClientFinished
                 PROVE  total = Cardinality(submitted) /\ total >= NumMessages
        BY DEF SentCounted
    <2>1. rpc # "exited" /\ \A t \in Threads : pc[t] = "done"
        BY DEF ClientFinished
    <2>2. Uncredited = {}
        BY <2>1 DEF Uncredited
    <2>3. total = Cardinality(submitted)
        BY <2>1, <2>2, FS_EmptySet DEF CreditInv, TypeInv, TypeOK
    <2>4. \E t \in Threads : count[t] = NumMessages /\ total >= count[t]
        BY <2>1 DEF AllOfOne
    <2> QED
        BY <2>3, <2>4
<1> QED
    BY <1>1, <1>2, <1>3, TypeInvariant, OrderInvariant, PTL DEF Spec
=============================================================================
