------------------------------- MODULE StartUp -------------------------------
(***************************************************************************)
(* The start of a process, of the client or of the server: main reads the  *)
(* configuration, prints it, creates its two sockets and starts the client *)
(* threads, each of which creates a radio of its own; when they have left, *)
(* main frees the configuration.                                           *)
(***************************************************************************)
EXTENDS ConfigReader, Sockets

CONSTANT Roles      \* the programs: "client", "server" or both

General(k) == <<"general", k>>

ASSUME RolesAssumption == Roles \subseteq {"client", "server"}
ASSUME KeysAssumption == /\ {"main_address", "responder_address", "protocol"} \subseteq Strings
                         /\ General("num_threads") \in Integer

VARIABLES role, call      \* the program; the calls of get_address by main so far

vars == <<configVars, main, socketVars, role, call>>

Ended == {"exit", "killed", "aborted", "done"}

Init == ConfigInit /\ SocketsInit /\ role \in Roles /\ call = 0

Protocol == Text(General("protocol"))
Tcp == Protocol = "tcp"
Address(kind) == <<Protocol, Text(General(kind))>>

\* The addresses libzmq can bind or connect to.
Usable == {a \in {Address("main_address"), Address("responder_address")} :
              a[1] \in {"udp", "tcp"} /\ a[2] # None}

\* The calls of get_address by main, and what each is for: print_configuration,
\* then the dish and the radio.
Calls(r) ==
    IF r = "client"
    THEN <<<<"print", "main_address">>, <<"print", "responder_address">>,
           <<"bind", "responder_address">>, <<"send", "main_address">>>>
    ELSE <<<<"print", "main_address">>, <<"print", "responder_address">>,
           <<"receive", "main_address">>, <<"try", "responder_address">>>>

\* create_socket: radios and SUB sockets are connected, dishes and PUB sockets
\* bound.
How(use) == CASE use = "send" -> IF Tcp THEN "bind" ELSE "try"
              [] use = "receive" -> IF Tcp THEN "connect" ELSE "bind"
              [] OTHER -> use
Use(a) == IF a = Main THEN How(Calls(role)[call][1]) ELSE How("send")
-----------------------------------------------------------------------------
MainIdle == apc[Main] \in {"off", "created"}

\* get_zmq_type, where the type of a socket depends on the protocol.
NeedsType(n) == Calls(role)[n][1] \in {"send", "receive"}

NextCall ==
    /\ main = "main" /\ MainIdle
    /\ call < 4
    /\ NeedsType(call + 1) => Protocol \in {"udp", "tcp"}
    /\ call' = call + 1
    /\ Ask(Main, Calls(role)[call + 1][2])
    /\ UNCHANGED <<configVars, main, ip_lock, g_ip, buffer, connection, bound, failed, role>>

\* strcmp on NULL, or SIGINT for an unknown protocol.
NoType ==
    /\ main = "main" /\ MainIdle
    /\ call < 4
    /\ NeedsType(call + 1) /\ Protocol \notin {"udp", "tcp"}
    /\ main' = IF Protocol = None THEN "aborted" ELSE "killed"
    /\ UNCHANGED <<configVars, socketVars, role, call>>

PrintConfiguration ==
    /\ At(Main, "use") /\ Use(Main) = "print"
    /\ Goto(Main, "created")
    /\ UNCHANGED <<ip_lock, g_ip, buffer, want, connection, tries, wired, bound, failed>>

CreateSocket(a) ==
    \/ Use(a) = "bind" /\ Bind(a, Usable)
    \/ Use(a) \in {"connect", "try"} /\ Connect(a, Usable)
    \/ Use(a) = "try" /\ ConnectAgain(a, Usable)

SocketStep(a) ==
    /\ main \notin Ended
    /\ apc[a] \notin {"off", "created", "left"}
    /\ GetAddress(a, Address(want[a])) \/ CreateSocket(a) \/ (a = Main /\ PrintConfiguration)
    /\ UNCHANGED <<configVars, main, role, call>>

\* assert(rc == 0), or the end of the process inside libzmq.
Abort(a) ==
    /\ main \notin Ended
    /\ At(a, "use")
    /\ \/ Use(a) \in {"bind", "connect"} /\ WireFails(a, Usable \ (IF Use(a) = "bind" THEN bound ELSE {}))
       \/ Use(a) = "try" /\ RadioFails(a)
    /\ main' = "aborted"
    /\ UNCHANGED <<configVars, role, call>>

AllCreated ==
    /\ main = "main" /\ call = 4 /\ MainIdle
    /\ main' = "start"
    /\ UNCHANGED <<configVars, socketVars, role, call>>

NumThreads == IF role = "client" THEN Number(General("num_threads")) ELSE 0

\* Mutation: the threads are started before the sockets of main are created.
StartThread_Early(t) ==
    /\ main = "main" /\ call >= 2
    /\ At(t, "off") /\ t <= NumThreads
    /\ Ask(t, "main_address")
    /\ UNCHANGED <<configVars, main, ip_lock, g_ip, buffer, connection, bound, failed, role, call>>

StartThread(t) ==
    /\ main = "start"
    /\ At(t, "off") /\ t <= NumThreads
    /\ \A u \in Threads : u < t => ~At(u, "off")
    /\ Ask(t, "main_address")
    /\ UNCHANGED <<configVars, main, ip_lock, g_ip, buffer, connection, bound, failed, role, call>>

\* An array of negative length, of which C says nothing: the process may end.
NegativeLength ==
    /\ main = "start"
    /\ NumThreads < 0
    /\ main' = "aborted"
    /\ UNCHANGED <<configVars, socketVars, role, call>>

AllStarted ==
    /\ main = "start"
    /\ \A t \in Threads : t <= NumThreads => ~At(t, "off")
    /\ main' = "join"
    /\ UNCHANGED <<configVars, socketVars, role, call>>

\* The life of a thread, of which module Client tells, and its end.
ThreadLeaves(t) ==
    /\ main \notin Ended
    /\ At(t, "created")
    /\ Goto(t, "left")
    /\ UNCHANGED <<configVars, main, ip_lock, g_ip, buffer, want, connection, tries, wired,
                   bound, failed, role, call>>

\* All threads have been joined; release_config also frees g_ip_address.
Finish ==
    /\ main = "join"
    /\ \A t \in Threads : apc[t] \in {"off", "left"}
    /\ ReleaseConfig
    /\ buffer' = IF g_ip = Null THEN buffer ELSE [buffer EXCEPT ![g_ip] = Free]
    /\ g_ip' = Null
    /\ main' = "done"
    /\ UNCHANGED <<file, pos, key, latest_section, loop_count, ip_lock, apc, want, connection,
                   tries, wired, bound, failed, role, call>>

MainStep ==
    \/ ReadConfig /\ UNCHANGED <<socketVars, role, call>>
    \/ NextCall \/ NoType \/ AllCreated \/ (\E t \in Threads : StartThread(t)) \/ NegativeLength
    \/ AllStarted \/ Finish

Next == MainStep \/ (\E a \in Askers : SocketStep(a) \/ Abort(a)) \/ (\E t \in Threads : ThreadLeaves(t))

Spec == Init /\ [][Next]_vars

\* No thread is kept from running, and a mutex that is free for ever again and
\* again is had at last.
FairSpec == /\ Spec
            /\ WF_vars(MainStep)
            /\ \A a \in Askers : SF_vars(SocketStep(a) \/ Abort(a))
            /\ \A t \in Threads : WF_vars(ThreadLeaves(t))
-----------------------------------------------------------------------------
TypeOK ==
    /\ ConfigTypeOK
    /\ ip_lock \in Askers \cup {Nobody}
    /\ g_ip \in Cells \cup {Null}
    /\ apc \in [Askers -> {"off", "lock", "calloc", "compose", "composing", "unlock", "return", "use",
                        "created", "left"}]
    /\ want \in [Askers -> {"main_address", "responder_address", Null}]
    /\ connection \in [Askers -> Cells \cup {Null}]
    /\ tries \in [Askers -> 0 .. Tries]
    /\ failed \subseteq {"memory", "length", "network"}
    /\ role \in Roles
    /\ call \in 0 .. 4

\* A socket that is bound or connected is so to the address that was asked for,
\* although the threads connect to what stands in a buffer that others free and
\* fill again: main, which asks for both addresses, is done before they start.
\* Only a thread that is not alone may get less than the address, when another is
\* writing it again: never anything else (get_address, create_socket, main).
RightSocket ==
    main # "done" =>
        \A a \in Askers : wired[a] # Unwired =>
            \/ wired[a] = Address(want[a])
            \/ a # Main /\ NumThreads > 1 /\ wired[a] = Cut(Address(want[a]))

\* The shared buffer is the only one: none leaks, none is freed twice, in spite
\* of the callers that take turns in freeing it (get_address, release_config).
OneBuffer == {c \in Cells : buffer[c] # Free} = {g_ip} \ {Null}

\* A file for UDP that names both addresses, and does not end in an empty section.
Complete == /\ file.whole /\ Flat
            /\ file.doc # <<>> /\ file.doc[Len(file.doc)].pairs # <<>>
            /\ Said("general", "protocol") = "udp"
            /\ Said("general", "main_address") # None
            /\ Said("general", "responder_address") # None

\* The file gives the client one thread, or none.
OneThreadSaid ==
    LET said == Said("general", "num_threads")
    IN role = "client" => said # None /\ ConvertStringToInt(said) \in 0 .. 1

\* With a complete UDP configuration, one thread and a system that refuses
\* nothing, main reads the file, every socket gets its address and the process
\* does not end early; with more threads or a negative number of them it may
\* (read_config, create_socket).
OneThreadStarts ==
    Complete /\ OneThreadSaid /\ failed = {} =>
        /\ main \notin {"killed", "aborted"}
        /\ \A t \in Threads : apc[t] \in {"created", "left"} => wired[t] # Unwired

\* The start ends and so does the program, in one way or another, unless
\* get_address failed: then it keeps the mutex (lines 25 to 51 of config.c).
Ends == <>(main \in Ended \/ failed \cap {"memory", "length"} # {})

\* Against the log of create_socket, "Successfully created and configured".
AllWired == \A t \in Threads : At(t, "created") /\ failed = {} => wired[t] # Unwired

\* Against the same log, which names the address: the radio is connected to it.
OwnAddress == main # "done" =>
    \A t \in Threads : wired[t] # Unwired => wired[t] = Address(want[t])

\* What is not promised: two threads that start do not end the process.
NoRaceAborts == Complete /\ NumThreads >= 0 /\ failed = {} => main # "aborted"
=============================================================================
