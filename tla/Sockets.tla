------------------------------- MODULE Sockets -------------------------------
(***************************************************************************)
(* get_address and create_socket, as main and the client threads call them *)
(* at the start.  get_address composes the address in a buffer that all    *)
(* callers share: it frees the buffer of the call before, and returns the  *)
(* pointer after it has unlocked the mutex.  libzmq reads through that     *)
(* pointer, whatever another caller is doing to the buffer.                *)
(***************************************************************************)
EXTENDS Integers, Sequences, FiniteSets

CONSTANTS MaxThreads,   \* bound: the client threads
          Cells,        \* the places where calloc puts a buffer
          TooLong,      \* the addresses that do not fit in 64 characters
          Tries,        \* the repetitions of zmq_connect (5)
          Failures      \* may calloc and libzmq fail?

Null == "null"
Main == 0
Nobody == -1
Threads == 1 .. MaxThreads
Askers == Threads \cup {Main}

ASSUME SocketsAssumption == /\ MaxThreads \in Nat
                            /\ Null \notin Cells
                            /\ Tries \in Nat
                            /\ Failures \in BOOLEAN

VARIABLES ip_lock,     \* the holder of g_ip_address_mutex
          g_ip,        \* g_ip_address
          buffer,      \* what each cell holds
          apc,         \* where each caller is
          want,        \* the address it asks for
          connection,  \* the pointer it was given
          tries,       \* the repetitions it has left
          wired,       \* the address its last socket is bound or connected to
          bound,       \* the addresses that sockets of this process are bound to
          failed       \* history: what went wrong outside

socketVars == <<ip_lock, g_ip, buffer, apc, want, connection, tries, wired, bound, failed>>

Free  == <<"free">>     \* not allocated; what is there is no address
Empty == <<"empty">>    \* zeroed
Unwired == <<"unwired">>

\* The address as far as snprintf has written it.
Cut(address) == <<address[1], address[2], "cut">>

SocketsInit ==
    /\ ip_lock = Nobody
    /\ g_ip = Null
    /\ buffer = [c \in Cells |-> Free]
    /\ apc = [a \in Askers |-> "off"]
    /\ want = [a \in Askers |-> Null]
    /\ connection = [a \in Askers |-> Null]
    /\ tries = [a \in Askers |-> 0]
    /\ wired = [a \in Askers |-> Unwired]
    /\ bound = {}
    /\ failed = {}

At(a, label) == apc[a] = label
Goto(a, label) == apc' = [apc EXCEPT ![a] = label]
-----------------------------------------------------------------------------
(***************************************************************************)
(* get_address                                                             *)
(***************************************************************************)

Ask(a, address) ==
    /\ Goto(a, "lock")
    /\ want' = [want EXCEPT ![a] = address]
    /\ tries' = [tries EXCEPT ![a] = Tries]
    /\ wired' = [wired EXCEPT ![a] = Unwired]

\* Mutation: without the mutex.
LockAndFree_Unlocked(a) ==
    /\ At(a, "lock")
    /\ ip_lock' = a
    /\ buffer' = IF g_ip = Null THEN buffer ELSE [buffer EXCEPT ![g_ip] = Free]
    /\ g_ip' = Null
    /\ Goto(a, "calloc")
    /\ UNCHANGED <<want, connection, tries, wired, bound, failed>>

\* The buffer of the call before is freed, whoever still uses it.
LockAndFree(a) ==
    /\ At(a, "lock")
    /\ ip_lock = Nobody
    /\ ip_lock' = a
    /\ buffer' = IF g_ip = Null THEN buffer ELSE [buffer EXCEPT ![g_ip] = Free]
    /\ g_ip' = Null
    /\ Goto(a, "calloc")
    /\ UNCHANGED <<want, connection, tries, wired, bound, failed>>

Allocate(a) ==
    /\ At(a, "calloc")
    /\ \E c \in Cells :
        /\ buffer[c] = Free
        /\ buffer' = [buffer EXCEPT ![c] = Empty]
        /\ g_ip' = c
    /\ Goto(a, "compose")
    /\ UNCHANGED <<ip_lock, want, connection, tries, wired, bound, failed>>

\* Out of memory: the return leaves the mutex locked.
AllocateFails(a) ==
    /\ At(a, "calloc")
    /\ Failures
    /\ connection' = [connection EXCEPT ![a] = Null]
    /\ failed' = failed \cup {"memory"}
    /\ Goto(a, "use")
    /\ UNCHANGED <<ip_lock, g_ip, buffer, want, tries, wired, bound>>

\* snprintf writes the address piece by piece.
ComposePart(a, address) ==
    /\ At(a, "compose")
    /\ buffer' = [buffer EXCEPT ![g_ip] = Cut(address)]
    /\ Goto(a, "composing")
    /\ UNCHANGED <<ip_lock, g_ip, want, connection, tries, wired, bound, failed>>

Compose(a, address) ==
    /\ At(a, "composing")
    /\ address \notin TooLong
    /\ buffer' = [buffer EXCEPT ![g_ip] = address]
    /\ Goto(a, "unlock")
    /\ UNCHANGED <<ip_lock, g_ip, want, connection, tries, wired, bound, failed>>

\* 64 characters or more: so does this return.
ComposeFails(a, address) ==
    /\ At(a, "composing")
    /\ address \in TooLong
    /\ buffer' = [buffer EXCEPT ![g_ip] = Free]
    /\ g_ip' = Null
    /\ connection' = [connection EXCEPT ![a] = Null]
    /\ failed' = failed \cup {"length"}
    /\ Goto(a, "use")
    /\ UNCHANGED <<ip_lock, want, tries, wired, bound>>

\* Mutation: the mutex is kept.
Unlock_Keep(a) ==
    /\ At(a, "unlock")
    /\ Goto(a, "return")
    /\ UNCHANGED <<ip_lock, g_ip, buffer, want, connection, tries, wired, bound, failed>>

Unlock(a) ==
    /\ At(a, "unlock")
    /\ ip_lock' = Nobody
    /\ Goto(a, "return")
    /\ UNCHANGED <<g_ip, buffer, want, connection, tries, wired, bound, failed>>

\* g_ip_address is read for the return after the mutex is unlocked.
Return(a) ==
    /\ At(a, "return")
    /\ connection' = [connection EXCEPT ![a] = g_ip]
    /\ Goto(a, "use")
    /\ UNCHANGED <<ip_lock, g_ip, buffer, want, tries, wired, bound, failed>>

GetAddress(a, address) ==
    \/ LockAndFree(a) \/ Allocate(a) \/ AllocateFails(a) \/ ComposePart(a, address)
    \/ Compose(a, address) \/ ComposeFails(a, address) \/ Unlock(a) \/ Return(a)
-----------------------------------------------------------------------------
(***************************************************************************)
(* create_socket                                                           *)
(***************************************************************************)

\* What stands at the pointer now.
There(a) == IF connection[a] = Null THEN Free ELSE buffer[connection[a]]

Wire(a) ==
    /\ wired' = [wired EXCEPT ![a] = There(a)]
    /\ Goto(a, "created")
    /\ UNCHANGED <<ip_lock, g_ip, buffer, want, connection, tries>>

\* A part of an address may be an address too: that of a shorter port.
Acceptable(usable) == usable \cup {Cut(address) : address \in usable}

\* A call of libzmq fails: at the pointer is no usable address, or a part of one
\* that is none, or the system refuses.
Refused(a, usable) ==
    \/ There(a) \notin usable /\ UNCHANGED failed
    \/ Failures /\ failed' = failed \cup {"network"}

\* zmq_bind, for the sockets that receive, and with TCP for those that send.
Bind(a, usable) ==
    /\ At(a, "use")
    /\ There(a) \in Acceptable(usable) \ bound
    /\ bound' = bound \cup {There(a)}
    /\ Wire(a)
    /\ UNCHANGED failed

\* zmq_connect.
Connect(a, usable) ==
    /\ At(a, "use")
    /\ There(a) \in Acceptable(usable)
    /\ Wire(a)
    /\ UNCHANGED <<bound, failed>>

\* zmq_connect of a radio fails and is repeated with the same pointer, whatever
\* stands there by then; after the last try the socket goes on without.
ConnectAgain(a, usable) ==
    /\ At(a, "use")
    /\ connection[a] # Null
    /\ Refused(a, usable)
    /\ IF tries[a] = 0
       THEN Goto(a, "created") /\ UNCHANGED tries
       ELSE tries' = [tries EXCEPT ![a] = @ - 1] /\ UNCHANGED apc
    /\ UNCHANGED <<ip_lock, g_ip, buffer, want, connection, wired, bound>>

\* A call whose result is asserted fails, or is given NULL, of which libzmq
\* cannot make a string: the process ends.
WireFails(a, usable) ==
    /\ At(a, "use")
    /\ Refused(a, usable)
    /\ UNCHANGED <<ip_lock, g_ip, buffer, apc, want, connection, tries, wired, bound>>

\* zmq_socket gives no radio, which is asserted, or zmq_connect is given NULL.
RadioFails(a) ==
    /\ At(a, "use")
    /\ \/ connection[a] = Null /\ UNCHANGED failed
       \/ tries[a] = Tries /\ Failures /\ failed' = failed \cup {"network"}
    /\ UNCHANGED <<ip_lock, g_ip, buffer, apc, want, connection, tries, wired, bound>>
=============================================================================
