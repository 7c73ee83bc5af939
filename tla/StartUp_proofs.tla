--------------------------- MODULE StartUp_proofs ---------------------------
(***************************************************************************)
(* For any number of threads and any files: the shared buffer of           *)
(* get_address is the only one, and every socket has the address that was  *)
(* asked for, or the beginning of it where two threads start.  The first   *)
(* rests on the mutex, the second on the order in which main creates its   *)
(* sockets and starts the threads.  The reader allocates nothing that is   *)
(* not freed but for repeated keys, gives every field what the file says,  *)
(* and with one thread the start succeeds.                                 *)
(***************************************************************************)
EXTENDS StartUp, SequenceTheorems, WellFoundedInduction, TLAPS

Labels == {"off", "lock", "calloc", "compose", "composing", "unlock", "return", "use", "created", "left"}
Kinds == {"main_address", "responder_address", Null}

Types ==
    /\ ip_lock \in Askers \cup {Nobody}
    /\ g_ip \in Cells \cup {Null}
    /\ buffer = [c \in Cells |-> buffer[c]]
    /\ apc \in [Askers -> Labels]
    /\ want \in [Askers -> Kinds]
    /\ connection \in [Askers -> Cells \cup {Null}]
    /\ wired = [a \in Askers |-> wired[a]]
    /\ role \in Roles
    /\ call \in 0 .. 4

\* The mutex belongs to the caller that is between lock and unlock, and there
\* g_ip_address is what that caller made of it.
Locking ==
    \A a \in Askers :
        /\ apc[a] \in {"calloc", "compose", "composing", "unlock"} => ip_lock = a
        /\ apc[a] = "calloc" => g_ip = Null
        /\ apc[a] \in {"compose", "composing", "unlock"} => g_ip # Null

Buffers == \A c \in Cells : buffer[c] # Free <=> c = g_ip

\* Main goes first: its two sockets, then the threads, and those of the client only.
Order ==
    /\ main \in {"open", "exit", "read", "killed", "aborted", "main", "start", "join", "done"}
    /\ main \in {"open", "read"} => call = 0
    /\ call = 0 => apc[Main] = "off" /\ g_ip = Null /\ \A a \in Askers : wired[a] = Unwired
    /\ call > 0 => want[Main] = Calls(role)[call][2] /\ apc[Main] # "off"
    /\ main \in {"open", "read", "main"} => \A t \in Threads : apc[t] = "off"
    /\ main \in {"start", "join"} => call = 4 /\ apc[Main] = "created"
    /\ \A t \in Threads : apc[t] # "off" => role = "client" /\ want[t] = "main_address"

\* No more threads run than the file says.
InNumber == main \in {"start", "join"} => \A t \in Threads : apc[t] # "off" => t <= NumThreads

\* What a cell may hold when only this address is asked for: the address, or a
\* part of it while one of the callers is writing.
Composing == \E a \in Askers : apc[a] = "composing"
MayHold(c, address) == \/ buffer[c] \in {Free, Empty, address}
                       \/ buffer[c] = Cut(address) /\ Composing

\* What stands in the buffer, while main is alone and when the threads are there.
Contents ==
    /\ main = "main" /\ apc[Main] \notin {"off", "lock"} =>
          \A c \in Cells : MayHold(c, Address(want[Main]))
    /\ main \in {"start", "join"} /\ role = "client" =>
          \A c \in Cells : MayHold(c, Address("main_address"))

Inv == Types /\ Locking /\ Buffers /\ Order /\ InNumber /\ Contents /\ RightSocket

\* An address is a pair, a part of one marked as such, and neither is one of the
\* marks for an unusable buffer.
LEMMA AddressIsPair ==
    ASSUME NEW x, NEW y
    PROVE  <<x, y>> \notin {Free, Empty, Unwired}
<1>1. Len(<<x, y>>) = 2  OBVIOUS
<1>2. Len(Free) = 1 /\ Len(Empty) = 1 /\ Len(Unwired) = 1  BY DEF Free, Empty, Unwired
<1>3. QED  BY <1>1, <1>2

LEMMA CutIsTriple ==
    ASSUME NEW address
    PROVE  /\ Cut(address) \notin {Free, Empty, Unwired}
           /\ \A x, y : Cut(address) # <<x, y>>
<1>1. Len(Cut(address)) = 3 /\ \A x, y : Len(<<x, y>>) = 2  BY DEF Cut
<1>2. Len(Free) = 1 /\ Len(Empty) = 1 /\ Len(Unwired) = 1  BY DEF Free, Empty, Unwired
<1>3. QED  BY <1>1, <1>2

LEMMA Marks == Free # Empty /\ Unwired # Free /\ Unwired # Empty
<1>1. Free[1] = "free" /\ Empty[1] = "empty" /\ Unwired[1] = "unwired"  BY DEF Free, Empty, Unwired
<1>2. QED  BY <1>1

LEMMA UsableIsAddress ==
    ASSUME NEW u \in Acceptable(Usable)
    PROVE  u \notin {Free, Empty, Unwired}
<1>1. CASE u \in Usable  BY <1>1, AddressIsPair DEF Usable, Address
<1>2. CASE u \notin Usable  BY <1>2, CutIsTriple DEF Acceptable
<1>3. QED  BY <1>1, <1>2

LEMMA AskersAre == Main \in Askers /\ Threads \subseteq Askers /\ Main \notin Threads
                   /\ Nobody \notin Askers /\ \A a \in Askers : a # Main => a \in Threads
BY SocketsAssumption DEF Askers, Main, Threads, Nobody

\* What the calls of main ask for.
LEMMA CallsAsk ==
    ASSUME NEW r \in {"client", "server"}
    PROVE  /\ \A n \in 1 .. 4 : Calls(r)[n][2] \in {"main_address", "responder_address"}
           /\ r = "client" => Calls(r)[4][2] = "main_address"
<1>1. CASE r = "client"  BY <1>1 DEF Calls
<1>2. CASE r = "server"  BY <1>2 DEF Calls
<1>3. QED  BY <1>1, <1>2

LEMMA NumberIsInt == NumThreads \in Int
<1>1. ASSUME NEW text PROVE ConvertStringToInt(text) \in Int
  <2>1. IntSize \in Nat \ {0} /\ \A n \in DOMAIN Numerals : Numerals[n] \in Int
      BY ConfigAssumption
  <2>2. CASE text \in DOMAIN Numerals
    <3> DEFINE v == Numerals[text]
               h == IntSize \div 2
    <3>1. v \in Int /\ h \in Int  BY <2>1, <2>2
    <3> HIDE DEF v, h
    <3>2. ((v + h) % IntSize) - h \in Int  BY <2>1, <3>1
    <3>3. QED  BY <2>2, <3>2 DEF ConvertStringToInt, v, h
  <2>3. CASE text \notin DOMAIN Numerals  BY <2>3 DEF ConvertStringToInt
  <2>4. QED  BY <2>2, <2>3
<1>2. QED  BY <1>1 DEF NumThreads, Number
-----------------------------------------------------------------------------
LEMMA InitInv == Init => Inv
<1> SUFFICES ASSUME Init PROVE Inv
    OBVIOUS
<1> USE DEF Init, ConfigInit, SocketsInit
<1>1. Types  BY AskersAre, RolesAssumption DEF Types, Labels, Kinds
<1>2. Locking  BY DEF Locking
<1>3. Buffers  BY SocketsAssumption DEF Buffers
<1>4. Order  BY AskersAre DEF Order
<1>5. InNumber /\ Contents  BY DEF InNumber, Contents
<1>6. RightSocket  BY DEF RightSocket
<1>7. QED  BY <1>1, <1>2, <1>3, <1>4, <1>5, <1>6 DEF Inv

\* main reads the file before it asks for anything.
LEMMA ReadInv ==
    ASSUME Inv, ReadConfig, UNCHANGED <<socketVars, role, call>>
    PROVE  Inv'
<1> USE DEF socketVars
<1>1. main \in {"open", "read"} /\ main' \in {"exit", "read", "killed", "aborted", "main"}
    BY DEF ReadConfig, OpenFails, OpenConfig, SkipEvent, Malformed, ReadSection, ReadPair,
           PairWithoutSection, EndOfFile, KeyFreedTwice
<1>2. Types'  BY DEF Inv, Types
<1>3. Locking'  BY DEF Inv, Locking
<1>4. Buffers'  BY DEF Inv, Buffers
<1>5. Order'  BY <1>1 DEF Inv, Order
<1>6. InNumber' /\ Contents'  BY <1>1 DEF Inv, Order, InNumber, Contents
<1>7. RightSocket'  BY <1>1 DEF Inv, Order, RightSocket
<1>8. QED  BY <1>2, <1>3, <1>4, <1>5, <1>6, <1>7 DEF Inv

LEMMA SameAddress ==
    ASSUME UNCHANGED <<config, file, role>>
    PROVE  (\A k : Address(k)' = Address(k)) /\ NumThreads' = NumThreads
BY DEF Address, Protocol, Text, NumThreads, Number

\* The callers whose socket is as it was are none the worse.
LEMMA SameSockets ==
    ASSUME Inv, UNCHANGED <<config, file, role>>, main = "done" => main' = "done",
           \A a \in Askers : \/ wired'[a] = wired[a] /\ want'[a] = want[a]
                             \/ wired'[a] = Unwired
    PROVE  RightSocket'
BY SameAddress DEF Inv, RightSocket

LEMMA NextCallInv ==
    ASSUME Inv, NextCall
    PROVE  Inv'
<1> USE DEF NextCall, Ask, Goto, configVars, MainIdle
<1>1. UNCHANGED <<config, file, main, role>> /\ main = "main" /\ call' \in 1 .. 4
    BY DEF Inv, Types
<1>2. Calls(role)[call'][2] \in {"main_address", "responder_address"}
    BY <1>1, CallsAsk, RolesAssumption DEF Inv, Types
<1>3. Types'  BY <1>1, <1>2, AskersAre DEF Inv, Types, Labels, Kinds
<1>4. Locking'  BY AskersAre DEF Inv, Types, Locking
<1>5. Buffers'  BY DEF Inv, Buffers
<1>6. Order'
    BY <1>1, AskersAre DEF Inv, Types, Order
<1>7. InNumber' /\ Contents'  BY <1>1, AskersAre DEF Inv, Types, InNumber, Contents
<1>8. RightSocket'
  <2>1. \A a \in Askers : a # Main => wired'[a] = wired[a] /\ want'[a] = want[a]
      BY DEF Inv, Types
  <2>2. wired'[Main] = Unwired  BY AskersAre DEF Inv, Types
  <2>3. QED  BY <1>1, <2>1, <2>2, SameSockets
<1>9. QED  BY <1>3, <1>4, <1>5, <1>6, <1>7, <1>8 DEF Inv

LEMMA AllCreatedInv ==
    ASSUME Inv, AllCreated
    PROVE  Inv'
<1> USE DEF AllCreated, MainIdle, socketVars, configVars
<1>1. Types' /\ Locking' /\ Buffers'  BY DEF Inv, Types, Locking, Buffers
<1>2. apc[Main] = "created" /\ \A t \in Threads : apc[t] = "off"  BY DEF Inv, Order
<1>3. Order' /\ InNumber'  BY <1>2 DEF Inv, Order, InNumber
<1>4. Contents'
  <2>1. \A c \in Cells : MayHold(c, Address(want[Main]))
      BY <1>2 DEF Inv, Contents
  <2>2. role = "client" => want[Main] = "main_address"
      BY CallsAsk, RolesAssumption DEF Inv, Types, Order
  <2>3. role = "client" => \A c \in Cells : MayHold(c, Address("main_address"))
      BY <2>1, <2>2
  <2>4. Composing' <=> Composing  BY DEF Composing
  <2>5. QED  BY <2>3, <2>4, SameAddress DEF Contents, MayHold
<1>5. RightSocket'  BY SameSockets
<1>6. QED  BY <1>1, <1>3, <1>4, <1>5 DEF Inv

LEMMA StartThreadInv ==
    ASSUME Inv, NEW t \in Threads, StartThread(t)
    PROVE  Inv'
<1> USE DEF StartThread, Ask, Goto, configVars
<1>1. role = "client"
  <2>1. t \in Nat /\ t > 0  BY DEF Threads
  <2>2. NumThreads # 0  BY <2>1
  <2>3. QED  BY <2>2 DEF NumThreads
<1>2. t \in Askers /\ t # Main  BY AskersAre
<1>3. Types'  BY <1>2 DEF Inv, Types, Labels, Kinds
<1>4. Locking'  BY <1>2 DEF Inv, Types, Locking
<1>5. Buffers'  BY DEF Inv, Buffers
<1>6. Order'  BY <1>1, <1>2, AskersAre DEF Inv, Types, Order
<1>7. Contents'
  <2>1. Composing => Composing'
      BY <1>2 DEF Composing, At, Inv, Types
  <2>2. \A c \in Cells : MayHold(c, Address("main_address"))
      BY <1>1 DEF Inv, Contents
  <2>3. QED  BY <2>1, <2>2, SameAddress DEF Contents, MayHold
<1>8. RightSocket'
  <2>1. \A a \in Askers : a # t => wired'[a] = wired[a] /\ want'[a] = want[a]
      BY DEF Inv, Types
  <2>2. wired'[t] = Unwired  BY <1>2 DEF Inv, Types
  <2>3. QED  BY <2>1, <2>2, SameSockets
<1>9. InNumber'
  <2>1. NumThreads' = NumThreads  BY SameAddress
  <2>2. \A u \in Threads : apc'[u] = apc[u] \/ u = t  BY <1>2 DEF Inv, Types
  <2>3. QED  BY <2>1, <2>2 DEF Inv, InNumber
<1>10. QED  BY <1>3, <1>4, <1>5, <1>6, <1>7, <1>8, <1>9 DEF Inv

LEMMA AllStartedInv ==
    ASSUME Inv, AllStarted
    PROVE  Inv'
<1> USE DEF AllStarted, socketVars, configVars
<1>1. Types' /\ Locking' /\ Buffers' /\ Order'  BY DEF Inv, Types, Locking, Buffers, Order
<1>2. InNumber'  BY SameAddress DEF Inv, InNumber
<1>3. Contents'  BY SameAddress DEF Inv, Contents, MayHold, Composing
<1>4. RightSocket'  BY SameSockets
<1>5. QED  BY <1>1, <1>2, <1>3, <1>4 DEF Inv

\* The process ends, or a caller of the mutex is killed with it.
LEMMA DiesInv ==
    ASSUME Inv, main \notin {"open", "read", "done"}, main' \in {"killed", "aborted"},
           UNCHANGED <<configVars, ip_lock, g_ip, buffer, apc, want, connection, wired, role, call>>
    PROVE  Inv'
<1> USE DEF configVars
<1>1. Types' /\ Locking' /\ Buffers' /\ Order'  BY DEF Inv, Types, Locking, Buffers, Order
<1>2. InNumber' /\ Contents'  BY DEF InNumber, Contents
<1>3. RightSocket'  BY SameSockets
<1>4. QED  BY <1>1, <1>2, <1>3 DEF Inv

LEMMA FinishInv ==
    ASSUME Inv, Finish
    PROVE  Inv'
<1> USE DEF Finish
<1>1. Types'  BY DEF Inv, Types
<1>2. Locking'  BY AskersAre DEF Inv, Locking, Order
<1>3. Buffers'  BY SocketsAssumption DEF Inv, Types, Buffers
<1>4. Order'  BY DEF Inv, Order
<1>5. InNumber' /\ Contents' /\ RightSocket'  BY DEF InNumber, Contents, RightSocket
<1>6. QED  BY <1>1, <1>2, <1>3, <1>4, <1>5 DEF Inv

LEMMA ThreadLeavesInv ==
    ASSUME Inv, NEW t \in Threads, ThreadLeaves(t)
    PROVE  Inv'
<1> USE DEF ThreadLeaves, Goto, At, configVars
<1>1. t \in Askers /\ t # Main  BY AskersAre
<1>2. Types'  BY <1>1 DEF Inv, Types, Labels
<1>3. Locking' /\ Buffers'  BY <1>1 DEF Inv, Types, Locking, Buffers
<1>4. Order'  BY <1>1, AskersAre DEF Inv, Types, Order
<1>5. InNumber'
  <2>1. \A u \in Threads : apc'[u] = apc[u] \/ (u = t /\ apc[u] # "off")  BY <1>1 DEF Inv, Types
  <2>2. QED  BY <2>1, SameAddress DEF Inv, InNumber
<1>6. Contents'
  <2>1. Composing => Composing'  BY <1>1 DEF Composing, Inv, Types
  <2>2. apc'[Main] = apc[Main]  BY <1>1, AskersAre DEF Inv, Types
  <2>3. QED  BY <2>1, <2>2, SameAddress DEF Inv, Contents, MayHold
<1>7. RightSocket'  BY SameSockets
<1>8. QED  BY <1>2, <1>3, <1>4, <1>5, <1>6, <1>7 DEF Inv
-----------------------------------------------------------------------------
(***************************************************************************)
(* The steps of get_address and create_socket, which leave main and the    *)
(* configuration alone.                                                    *)
(***************************************************************************)

Asking(a) == /\ main \notin Ended
             /\ apc[a] \notin {"off", "created", "left"}
             /\ UNCHANGED <<configVars, main, role, call>>

\* What all these steps have in common: a goes from one place to another in them.
LEMMA AskingOrder ==
    ASSUME Inv, NEW a \in Askers, Asking(a), NEW label \in Labels \ {"off"}, Goto(a, label),
           UNCHANGED want,
           \A b \in Askers : wired'[b] = wired[b] \/ b = a
    PROVE  Order' /\ InNumber' /\ apc' \in [Askers -> Labels]
                  /\ apc'[a] = label /\ \A b \in Askers : b # a => apc'[b] = apc[b]
<1> USE DEF Asking, Goto, configVars
<1>1. /\ apc' \in [Askers -> Labels]
      /\ apc'[a] = label /\ \A b \in Askers : b # a => apc'[b] = apc[b]
    BY DEF Inv, Types
<1>2. call # 0
    BY AskersAre DEF Inv, Order, Types, Ended
<1>3. a = Main => main = "main"
    BY DEF Inv, Order, Ended
<1>4. Order'  BY <1>1, <1>2, <1>3, AskersAre DEF Inv, Types, Order, Ended
<1>5. InNumber'
  <2>1. \A t \in Threads : apc'[t] = apc[t] \/ (t = a /\ apc[t] # "off")  BY <1>1, AskersAre
  <2>2. QED  BY <2>1, SameAddress DEF Inv, InNumber
<1>6. QED  BY <1>1, <1>4, <1>5

\* Who asks, when, and for what.
LEMMA AskingContents ==
    ASSUME Inv, NEW a \in Askers, Asking(a)
    PROVE  /\ a = Main => main = "main"
           /\ a # Main => main \in {"start", "join"} /\ role = "client" /\ want[a] = "main_address"
BY AskersAre DEF Inv, Order, Asking, Ended, Types

\* Nothing but an address that is asked for gets into a buffer.
LEMMA ContentsStay ==
    ASSUME Inv, NEW a \in Askers, Asking(a), apc[a] # "lock", UNCHANGED want,
           \A b \in Askers : b # a => apc'[b] = apc[b],
           \A c \in Cells : \/ buffer'[c] \in {Free, Empty, Address(want[a])}
                            \/ buffer'[c] = buffer[c] /\ (Composing => Composing')
                            \/ buffer'[c] = Cut(Address(want[a])) /\ Composing'
    PROVE  Contents'
<1>1. \A k : Address(k)' = Address(k)  BY SameAddress DEF Asking, configVars
<1>2. CASE a = Main
  <2>1. main = "main" /\ main' = "main" /\ apc[Main] # "off"
      BY <1>2, AskingContents DEF Asking
  <2>2. \A c \in Cells : MayHold(c, Address(want[Main]))
      BY <1>2, <2>1 DEF Inv, Contents
  <2>3. \A c \in Cells : MayHold(c, Address(want[Main]))'
      BY <1>1, <1>2, <2>2 DEF MayHold
  <2>4. QED  BY <2>1, <2>3 DEF Contents
<1>3. CASE a # Main
  <2>1. main' \in {"start", "join"} /\ main' = main /\ role = "client" /\ want[a] = "main_address"
      BY <1>3, AskingContents DEF Asking
  <2>2. \A c \in Cells : MayHold(c, Address("main_address"))
      BY <2>1 DEF Inv, Contents
  <2>3. \A c \in Cells : MayHold(c, Address("main_address"))'
      BY <1>1, <2>1, <2>2 DEF MayHold
  <2>4. QED  BY <2>1, <2>3 DEF Contents
<1>4. QED  BY <1>2, <1>3

LEMMA LockAndFreeInv ==
    ASSUME Inv, NEW a \in Askers, Asking(a), LockAndFree(a)
    PROVE  Inv'
<1> USE DEF LockAndFree, At
<1>1. /\ Order' /\ InNumber' /\ apc' \in [Askers -> Labels]
      /\ apc'[a] = "calloc" /\ \A b \in Askers : b # a => apc'[b] = apc[b]
    BY AskingOrder DEF Labels
<1>2. Types'  BY <1>1 DEF Inv, Types, Asking
<1>3. \A b \in Askers : apc[b] \notin {"calloc", "compose", "composing", "unlock"}
    BY AskersAre DEF Inv, Locking
<1>4. Locking'  BY <1>1, <1>3 DEF Locking
<1>5. \A c \in Cells : buffer'[c] = Free
    BY SocketsAssumption DEF Inv, Types, Buffers
<1>6. Buffers'  BY <1>5, SocketsAssumption DEF Buffers
<1>7. Contents'  BY <1>5 DEF Contents, MayHold
<1>8. RightSocket'  BY SameSockets DEF Asking, configVars
<1>9. QED  BY <1>1, <1>2, <1>4, <1>6, <1>7, <1>8 DEF Inv

LEMMA AllocateInv ==
    ASSUME Inv, NEW a \in Askers, Asking(a), Allocate(a)
    PROVE  Inv'
<1> USE DEF Allocate, At
<1>1. /\ Order' /\ InNumber' /\ apc' \in [Askers -> Labels]
      /\ apc'[a] = "compose" /\ \A b \in Askers : b # a => apc'[b] = apc[b]
    BY AskingOrder DEF Labels
<1>2. Types'  BY <1>1 DEF Inv, Types, Asking
<1>3. \A b \in Askers : b # a => apc[b] \notin {"calloc", "compose", "composing", "unlock"}
    BY AskersAre DEF Inv, Locking
<1>4. Locking'  BY <1>1, <1>3, SocketsAssumption DEF Inv, Locking
<1>5. \A c \in Cells : buffer'[c] \in {Free, Empty} /\ (buffer'[c] # Free <=> c = g_ip')
    BY SocketsAssumption, Marks DEF Inv, Types, Buffers, Locking
<1>6. Buffers'  BY <1>5 DEF Buffers
<1>7. Contents'  BY <1>5 DEF Contents, MayHold
<1>8. RightSocket'  BY SameSockets DEF Asking, configVars
<1>9. QED  BY <1>1, <1>2, <1>4, <1>6, <1>7, <1>8 DEF Inv

\* Who leaves the buffer alone does not write it.
LEMMA StillComposing ==
    ASSUME NEW a \in Askers, apc[a] # "composing", \A b \in Askers : b # a => apc'[b] = apc[b]
    PROVE  Composing => Composing'
BY DEF Composing

LEMMA AllocateFailsInv ==
    ASSUME Inv, NEW a \in Askers, Asking(a), AllocateFails(a)
    PROVE  Inv'
<1> USE DEF AllocateFails, At
<1>1. /\ Order' /\ InNumber' /\ apc' \in [Askers -> Labels]
      /\ apc'[a] = "use" /\ \A b \in Askers : b # a => apc'[b] = apc[b]
    BY AskingOrder DEF Labels
<1>2. Types'  BY <1>1 DEF Inv, Types, Asking
<1>3. Locking'  BY <1>1 DEF Inv, Locking
<1>4. Buffers'  BY DEF Inv, Buffers
<1>5. Contents'  BY <1>1, StillComposing, ContentsStay
<1>6. RightSocket'  BY SameSockets DEF Asking, configVars
<1>7. QED  BY <1>1, <1>2, <1>3, <1>4, <1>5, <1>6 DEF Inv

LEMMA ComposePartInv ==
    ASSUME Inv, NEW a \in Askers, Asking(a), ComposePart(a, Address(want[a]))
    PROVE  Inv'
<1> USE DEF ComposePart, At
<1>1. /\ Order' /\ InNumber' /\ apc' \in [Askers -> Labels]
      /\ apc'[a] = "composing" /\ \A b \in Askers : b # a => apc'[b] = apc[b]
    BY AskingOrder DEF Labels
<1>2. Types'  BY <1>1 DEF Inv, Types, Asking
<1>3. Locking'  BY <1>1 DEF Inv, Locking
<1>4. g_ip \in Cells /\ Cut(Address(want[a])) # Free
    BY CutIsTriple DEF Inv, Types, Locking
<1>5. Buffers'  BY <1>4 DEF Inv, Types, Buffers
<1>6. Contents'
  <2>1. \A c \in Cells : buffer'[c] \in {buffer[c], Cut(Address(want[a]))}
      BY DEF Inv, Types
  <2>2. Composing'  BY <1>1 DEF Composing
  <2>3. QED  BY <1>1, <2>1, <2>2, ContentsStay
<1>7. RightSocket'  BY SameSockets DEF Asking, configVars
<1>8. QED  BY <1>1, <1>2, <1>3, <1>5, <1>6, <1>7 DEF Inv

LEMMA ComposeInv ==
    ASSUME Inv, NEW a \in Askers, Asking(a), Compose(a, Address(want[a]))
    PROVE  Inv'
<1> USE DEF Compose, At
<1>1. /\ Order' /\ InNumber' /\ apc' \in [Askers -> Labels]
      /\ apc'[a] = "unlock" /\ \A b \in Askers : b # a => apc'[b] = apc[b]
    BY AskingOrder DEF Labels
<1>2. Types'  BY <1>1 DEF Inv, Types, Asking
<1>3. Locking'  BY <1>1 DEF Inv, Locking
<1>4. g_ip \in Cells /\ Address(want[a]) # Free
    BY AddressIsPair DEF Inv, Types, Locking, Address
<1>5. Buffers'  BY <1>4 DEF Inv, Types, Buffers
<1>6. Contents'
  <2>1. \A c \in Cells : buffer'[c] \in {Free, Address(want[a])}
      BY <1>4 DEF Inv, Types, Buffers
  <2>2. QED  BY <1>1, <2>1, ContentsStay
<1>7. RightSocket'  BY SameSockets DEF Asking, configVars
<1>8. QED  BY <1>1, <1>2, <1>3, <1>5, <1>6, <1>7 DEF Inv

LEMMA ComposeFailsInv ==
    ASSUME Inv, NEW a \in Askers, Asking(a), ComposeFails(a, Address(want[a]))
    PROVE  Inv'
<1> USE DEF ComposeFails, At
<1>1. /\ Order' /\ InNumber' /\ apc' \in [Askers -> Labels]
      /\ apc'[a] = "use" /\ \A b \in Askers : b # a => apc'[b] = apc[b]
    BY AskingOrder DEF Labels
<1>2. Types'  BY <1>1 DEF Inv, Types, Asking
<1>3. Locking'  BY <1>1, AskersAre DEF Inv, Locking
<1>4. \A c \in Cells : buffer'[c] = Free
    BY SocketsAssumption DEF Inv, Types, Buffers
<1>5. Buffers'  BY <1>4, SocketsAssumption DEF Buffers
<1>6. Contents'  BY <1>4 DEF Contents, MayHold
<1>7. RightSocket'  BY SameSockets DEF Asking, configVars
<1>8. QED  BY <1>1, <1>2, <1>3, <1>5, <1>6, <1>7 DEF Inv

LEMMA UnlockInv ==
    ASSUME Inv, NEW a \in Askers, Asking(a), Unlock(a)
    PROVE  Inv'
<1> USE DEF Unlock, At
<1>1. /\ Order' /\ InNumber' /\ apc' \in [Askers -> Labels]
      /\ apc'[a] = "return" /\ \A b \in Askers : b # a => apc'[b] = apc[b]
    BY AskingOrder DEF Labels
<1>2. Types'  BY <1>1 DEF Inv, Types, Asking
<1>3. Locking'  BY <1>1, AskersAre DEF Inv, Locking
<1>4. Buffers'  BY DEF Inv, Buffers
<1>5. Contents'  BY <1>1, StillComposing, ContentsStay
<1>6. RightSocket'  BY SameSockets DEF Asking, configVars
<1>7. QED  BY <1>1, <1>2, <1>3, <1>4, <1>5, <1>6 DEF Inv

\* What a socket of a may be bound or connected to.
Right(a, address) ==
    \/ address = Address(want[a])
    \/ a # Main /\ NumThreads > 1 /\ address = Cut(Address(want[a]))

\* Steps that touch neither the mutex nor the buffer, and go on after them.
LEMMA QuietInv ==
    ASSUME Inv, NEW a \in Askers, Asking(a), apc[a] \in {"return", "use"},
           Goto(a, "use") \/ Goto(a, "created") \/ UNCHANGED apc,
           UNCHANGED <<ip_lock, g_ip, buffer, want>>,
           connection' \in [Askers -> Cells \cup {Null}],
           NEW address, Right(a, address),
           \/ UNCHANGED wired
           \/ wired' = [wired EXCEPT ![a] = address]
    PROVE  Inv'
<1>1. \A b \in Askers : wired'[b] = wired[b] \/ b = a
    BY DEF Inv, Types
<1>2. /\ Order' /\ InNumber' /\ apc' \in [Askers -> Labels]
      /\ apc'[a] \in {"return", "use", "created"} /\ \A b \in Askers : b # a => apc'[b] = apc[b]
  <2>1. CASE UNCHANGED apc
    <3>1. Goto(a, apc[a]) /\ apc[a] \in Labels  BY <2>1 DEF Inv, Types, Goto, Labels
    <3>2. QED  BY <3>1, <1>1, AskingOrder
  <2>2. CASE Goto(a, "use")  BY <2>2, <1>1, AskingOrder DEF Labels
  <2>3. CASE Goto(a, "created")  BY <2>3, <1>1, AskingOrder DEF Labels
  <2>4. QED  BY <2>1, <2>2, <2>3
<1>3. Types'  BY <1>2 DEF Inv, Types, Asking
<1>4. Locking'  BY <1>2 DEF Inv, Locking
<1>5. Buffers'  BY DEF Inv, Buffers
<1>6. Contents'  BY <1>2, StillComposing, ContentsStay
<1>7. RightSocket'
  <2>1. \A b \in Askers : wired'[b] = wired[b] \/ (b = a /\ Right(b, wired'[b]))
      BY DEF Inv, Types
  <2>2. (\A k : Address(k)' = Address(k)) /\ NumThreads' = NumThreads /\ main' = main
      BY SameAddress DEF Asking, configVars
  <2>3. QED  BY <2>1, <2>2 DEF Inv, RightSocket, Right
<1>8. QED  BY <1>2, <1>3, <1>4, <1>5, <1>6, <1>7 DEF Inv

\* A caller and another one that writes the buffer are two threads.
LEMMA TwoThreads ==
    ASSUME Inv, NEW a \in Askers, Asking(a), apc[a] # "composing", Composing
    PROVE  a # Main /\ NumThreads > 1
<1>1. PICK b \in Askers : apc[b] = "composing" /\ b # a
    BY DEF Composing
<1>2. CASE main = "main"
    BY <1>1, <1>2, AskersAre DEF Inv, Order, Asking
<1>3. CASE main \in {"start", "join"}
  <2>1. a \in Threads /\ b \in Threads
      BY <1>1, <1>3, AskersAre DEF Inv, Order, Asking
  <2>2. a <= NumThreads /\ b <= NumThreads
      BY <1>1, <1>3, <2>1 DEF Inv, InNumber, Asking
  <2>3. a \in Nat /\ a >= 1 /\ b \in Nat /\ b >= 1
      BY <2>1 DEF Threads
  <2>4. a # Main
      BY <2>1, AskersAre
  <2>5. QED  BY <1>1, <2>2, <2>3, <2>4, NumberIsInt
<1>4. QED  BY <1>2, <1>3, AskingContents

\* The buffer a caller is about to use holds its address, a part of it that
\* another thread is writing, or nothing of use.
LEMMA UsedAddress ==
    ASSUME Inv, NEW a \in Askers, Asking(a), At(a, "use"), There(a) \in Acceptable(Usable)
    PROVE  Right(a, There(a))
<1>1. There(a) \notin {Free, Empty, Unwired}  BY UsableIsAddress
<1>2. connection[a] \in Cells /\ There(a) = buffer[connection[a]]
    BY <1>1 DEF There, Inv, Types
<1>3. MayHold(connection[a], Address(want[a]))
  <2>1. CASE a = Main
      BY <1>2, <2>1, AskingContents DEF Inv, Contents, At
  <2>2. CASE a # Main
      BY <1>2, <2>2, AskingContents DEF Inv, Contents
  <2>3. QED  BY <2>1, <2>2
<1>4. Composing => a # Main /\ NumThreads > 1
    BY TwoThreads DEF At
<1>5. QED  BY <1>1, <1>2, <1>3, <1>4 DEF MayHold, Right

LEMMA SocketStepInv ==
    ASSUME Inv, NEW a \in Askers, SocketStep(a)
    PROVE  Inv'
<1>1. Asking(a)  BY DEF SocketStep, Asking
<1>2. connection \in [Askers -> Cells \cup {Null}] /\ Right(a, Address(want[a]))
    BY DEF Inv, Types, Right
<1>3. CASE LockAndFree(a)  BY <1>1, <1>3, LockAndFreeInv
<1>4. CASE Allocate(a)  BY <1>1, <1>4, AllocateInv
<1>5. CASE AllocateFails(a)  BY <1>1, <1>5, AllocateFailsInv
<1>14. CASE ComposePart(a, Address(want[a]))  BY <1>1, <1>14, ComposePartInv
<1>6. CASE Compose(a, Address(want[a]))  BY <1>1, <1>6, ComposeInv
<1>7. CASE ComposeFails(a, Address(want[a]))  BY <1>1, <1>7, ComposeFailsInv
<1>8. CASE Unlock(a)  BY <1>1, <1>8, UnlockInv
<1>9. CASE Return(a)
  <2>1. connection' \in [Askers -> Cells \cup {Null}]  BY <1>2, <1>9 DEF Return, Inv, Types
  <2>2. QED  BY <1>1, <1>2, <1>9, <2>1, QuietInv DEF Return, At
<1>10. CASE PrintConfiguration /\ a = Main
  BY <1>1, <1>2, <1>10, QuietInv DEF PrintConfiguration, At
<1>11. CASE Bind(a, Usable) \/ Connect(a, Usable)
  <2>1. At(a, "use") /\ There(a) \in Acceptable(Usable) /\ Wire(a)  BY <1>11 DEF Bind, Connect
  <2>2. Right(a, There(a))  BY <1>1, <2>1, UsedAddress
  <2>3. QED  BY <1>1, <1>2, <2>1, <2>2, QuietInv DEF Wire, At
<1>12. CASE ConnectAgain(a, Usable)
  <2>1. Goto(a, "created") \/ UNCHANGED apc  BY <1>12 DEF ConnectAgain
  <2>2. QED  BY <1>1, <1>2, <1>12, <2>1, QuietInv DEF ConnectAgain, At
<1>13. QED
  BY <1>3, <1>4, <1>5, <1>6, <1>7, <1>8, <1>9, <1>10, <1>11, <1>12, <1>14
  DEF SocketStep, GetAddress, CreateSocket

LEMMA AbortInv ==
    ASSUME Inv, NEW a \in Askers, Abort(a)
    PROVE  Inv'
<1>1. main \notin {"open", "read", "done"}
    BY AskersAre DEF Abort, Ended, Inv, Order, Types, At
<1>2. UNCHANGED <<configVars, ip_lock, g_ip, buffer, apc, want, connection, wired, role, call>>
    BY DEF Abort, WireFails, RadioFails
<1>3. QED  BY <1>1, <1>2, DiesInv DEF Abort

LEMMA NoTypeInv ==
    ASSUME Inv, NoType \/ NegativeLength
    PROVE  Inv'
BY DiesInv DEF NoType, NegativeLength, socketVars

LEMMA InvInductive == Inv /\ [Next]_vars => Inv'
<1> SUFFICES ASSUME Inv, [Next]_vars PROVE Inv'
    OBVIOUS
<1>1. CASE ReadConfig /\ UNCHANGED <<socketVars, role, call>>  BY <1>1, ReadInv
<1>2. CASE NextCall  BY <1>2, NextCallInv
<1>3. CASE NoType \/ NegativeLength  BY <1>3, NoTypeInv
<1>4. CASE AllCreated  BY <1>4, AllCreatedInv
<1>5. CASE \E t \in Threads : StartThread(t)  BY <1>5, StartThreadInv
<1>6. CASE AllStarted  BY <1>6, AllStartedInv
<1>7. CASE Finish  BY <1>7, FinishInv
<1>8. CASE \E a \in Askers : SocketStep(a)  BY <1>8, SocketStepInv
<1>9. CASE \E a \in Askers : Abort(a)  BY <1>9, AbortInv
<1>10. CASE \E t \in Threads : ThreadLeaves(t)  BY <1>10, ThreadLeavesInv
<1>11. CASE UNCHANGED vars
  <2>1. UNCHANGED <<configVars, main, socketVars, role, call>>  BY <1>11 DEF vars
  <2>2. Types' /\ Locking' /\ Buffers' /\ Order'
      BY <2>1 DEF socketVars, Inv, Types, Locking, Buffers, Order
  <2>3. InNumber' /\ Contents'
      BY <2>1, SameAddress DEF socketVars, configVars, Inv, InNumber, Contents, MayHold, Composing
  <2>4. RightSocket'
      BY <2>1, SameSockets DEF socketVars, configVars
  <2>5. QED  BY <2>2, <2>3, <2>4 DEF Inv
<1>12. QED
  BY <1>1, <1>2, <1>3, <1>4, <1>5, <1>6, <1>7, <1>8, <1>9, <1>10, <1>11 DEF Next, MainStep

LEMMA InvHolds == Spec => []Inv
BY InitInv, InvInductive, PTL DEF Spec

\* A socket that is bound or connected is so to the address that was asked for,
\* for any number of threads and whatever the configuration file says: main is
\* done with both addresses before it starts the threads.  Only a thread that is
\* not alone may be connected to the beginning of its address, as far as another
\* thread has written it (main, get_address, create_socket).
THEOREM SocketsRight == Spec => []RightSocket
<1>1. Inv => RightSocket  BY DEF Inv
<1>2. QED  BY <1>1, InvHolds, PTL

\* There is never a second buffer behind g_ip_address, and none is freed twice:
\* the mutex keeps the callers of get_address apart.
THEOREM OneBufferOnly == Spec => []OneBuffer
<1>1. Inv => OneBuffer  BY SocketsAssumption DEF Inv, Types, Buffers, OneBuffer
<1>2. QED  BY <1>1, InvHolds, PTL
-----------------------------------------------------------------------------
(***************************************************************************)
(* The stream of events: what the parser delivers of a file are texts.     *)
(***************************************************************************)

\* Induction from 1 up to n, over the numbers in a set.
LEMMA Induction ==
    ASSUME NEW n \in Nat \ {0}, NEW good,
           1 \in good,
           \A k \in 1 .. n - 1 : k \in good => k + 1 \in good
    PROVE  n \in good
<1> DEFINE less == {p \in Nat \X Nat : p[1] < p[2]}
           bad == {k \in 1 .. n : k \notin good}
<1>1. IsWellFoundedOn(less, Nat)
    BY NatLessThanWellFounded, Zenon DEF OpToRel
<1>2. SUFFICES ASSUME bad # {} PROVE FALSE
    OBVIOUS
<1>3. bad \subseteq Nat
    OBVIOUS
<1> HIDE DEF less
<1>4. PICK k \in bad : \A j \in bad : <<j, k>> \notin less
    BY <1>1, <1>2, <1>3, WFMin
<1>5. k # 1 /\ k - 1 \in 1 .. n - 1 /\ (k - 1) + 1 = k
    OBVIOUS
<1>6. k - 1 \in bad
    BY <1>5
<1>7. <<k - 1, k>> \in less
    BY <1>3, <1>5, <1>6 DEF less
<1>8. QED  BY <1>4, <1>6, <1>7

\* f holds the sequences that the first n of seqs make up.
Joined(f, seqs, n) ==
    f = [i \in 1 .. n |-> IF i = 1 THEN seqs[i] ELSE f[i - 1] \o seqs[i]]

LEMMA JoinedExists ==
    ASSUME NEW n \in Nat \ {0}, NEW seqs
    PROVE  \E f : Joined(f, seqs, n)
<1> DEFINE good == {k \in Nat : \E f : Joined(f, seqs, k)}
<1>1. 1 \in good
  <2>1. Joined([i \in 1 .. 1 |-> seqs[i]], seqs, 1)  BY DEF Joined
  <2>2. QED  BY <2>1
<1>2. ASSUME NEW k \in 1 .. n - 1, k \in good PROVE k + 1 \in good
  <2>1. PICK f : Joined(f, seqs, k)
      BY <1>2
  <2> DEFINE more == f[k] \o seqs[k + 1]
             g == [i \in 1 .. k + 1 |-> IF i = k + 1 THEN more ELSE f[i]]
  <2>2. ASSUME NEW i \in 1 .. k + 1
        PROVE  g[i] = IF i = 1 THEN seqs[i] ELSE g[i - 1] \o seqs[i]
    <3>1. k \in Nat /\ k \in 1 .. k + 1 /\ k # k + 1 /\ k + 1 # 1 /\ (k + 1) - 1 = k
        OBVIOUS
    <3>2. CASE i = k + 1
      <4>1. g[k + 1] = more /\ g[k] = f[k]
        <5> HIDE DEF more
        <5>1. QED  BY <3>1
      <4> HIDE DEF g
      <4>2. QED  BY <3>1, <3>2, <4>1
    <3>3. CASE i # k + 1
      <4>1. i \in 1 .. k /\ (i # 1 => i - 1 \in 1 .. k + 1 /\ i - 1 # k + 1)
          BY <3>3
      <4>2. f[i] = IF i = 1 THEN seqs[i] ELSE f[i - 1] \o seqs[i]
          BY <2>1, <4>1 DEF Joined
      <4>3. QED  BY <3>3, <4>1, <4>2
    <3>4. QED  BY <3>2, <3>3
  <2>3. g = [i \in 1 .. k + 1 |-> g[i]]
      OBVIOUS
  <2> HIDE DEF g
  <2>4. Joined(g, seqs, k + 1)  BY <2>2, <2>3 DEF Joined
  <2>5. QED  BY <2>4
<1> HIDE DEF good
<1>3. n \in good  BY <1>1, <1>2, Induction
<1>4. QED  BY <1>3 DEF good

\* FlattenSeq is the last of them.
LEMMA FlattenIsJoined ==
    ASSUME NEW seqs, Len(seqs) \in Nat \ {0}
    PROVE  \E f : Joined(f, seqs, Len(seqs)) /\ FlattenSeq(seqs) = f[Len(seqs)]
<1> DEFINE f == CHOOSE f : Joined(f, seqs, Len(seqs))
<1>1. Joined(f, seqs, Len(seqs))
    BY JoinedExists, Zenon
<1>2. FlattenSeq(seqs) = f[Len(seqs)]
  <2>1. Len(seqs) # 0
      OBVIOUS
  <2>2. QED  BY <2>1, Zenon DEF FlattenSeq, Joined
<1>3. QED  BY <1>1, <1>2

LEMMA FlattenTyped ==
    ASSUME NEW S, NEW seqs \in Seq(Seq(S))
    PROVE  FlattenSeq(seqs) \in Seq(S)
<1>1. CASE Len(seqs) = 0
  <2>1. seqs = <<>> /\ <<>> \in Seq(S)  BY <1>1, EmptySeq
  <2>2. FlattenSeq(seqs) = seqs  BY <1>1, Zenon DEF FlattenSeq
  <2>3. QED  BY <2>1, <2>2
<1>2. CASE Len(seqs) # 0
  <2> DEFINE n == Len(seqs)
  <2>1. n \in Nat \ {0}  BY <1>2
  <2>2. PICK f : Joined(f, seqs, n) /\ FlattenSeq(seqs) = f[n]
      BY <2>1, FlattenIsJoined
  <2>3. \A i \in 1 .. n : seqs[i] \in Seq(S)
      OBVIOUS
  <2> HIDE DEF n
  <2> DEFINE good == {k \in 1 .. n : f[k] \in Seq(S)}
  <2>4. 1 \in good
      BY <2>1, <2>2, <2>3 DEF Joined
  <2>5. ASSUME NEW k \in 1 .. n - 1, k \in good PROVE k + 1 \in good
    <3>1. k + 1 \in 1 .. n /\ k + 1 # 1 /\ (k + 1) - 1 = k
        BY <2>1
    <3>2. f[k + 1] = f[(k + 1) - 1] \o seqs[k + 1]
        BY <2>2, <3>1 DEF Joined
    <3>3. f[k] \in Seq(S) /\ seqs[k + 1] \in Seq(S)
        BY <2>3, <2>5, <3>1
    <3>4. f[k + 1] \in Seq(S)
        BY <3>1, <3>2, <3>3
    <3>5. QED  BY <3>1, <3>4
  <2> HIDE DEF good
  <2>6. n \in good  BY <2>1, <2>4, <2>5, Induction
  <2>7. QED  BY <2>2, <2>6 DEF good
<1>3. QED  BY <1>1, <1>2

\* What an event is: a text or no scalar.
Texts == STRING \cup {Other, None}

LEMMA ShortSeqs ==
    ASSUME NEW S, NEW x \in S, NEW y \in S, NEW o \in S
    PROVE  /\ <<x>> \in Seq(S) /\ <<x, y>> \in Seq(S) /\ <<x, y, o>> \in Seq(S)
           /\ <<x, o, o, o, o>> \in Seq(S)
OBVIOUS

\* The sequences in a function on 1 .. n, joined.
LEMMA FlattenFunction ==
    ASSUME NEW S, NEW n \in Nat, NEW seqs \in [1 .. n -> Seq(S)]
    PROVE  FlattenSeq(seqs) \in Seq(S)
<1>1. \A T : seqs \in [1 .. n -> T] => seqs \in Seq(T)
    OBVIOUS
<1>2. seqs \in Seq(Seq(S))  BY <1>1
<1>3. QED  BY <1>2, FlattenTyped

Keyed == (STRING \ {Other}) \X STRING
Section == [name : STRING \ {Other}, pairs : Seq(Keyed)]

LEMMA EventsTyped ==
    ASSUME NEW doc \in Seq(Section)
    PROVE  Events(doc) \in Seq(Texts)
<1>1. Other \in Texts  BY DEF Texts
<1>2. ASSUME NEW pair \in Keyed PROVE PairEvents(pair) \in Seq(Texts)
  <2>1. pair[1] \in Texts /\ pair[2] \in Texts /\ pair = <<pair[1], pair[2]>>
      BY DEF Texts, Keyed
  <2> HIDE DEF Texts
  <2>2. pair \in Seq(Texts) /\ <<pair[1], Other, Other, Other, Other>> \in Seq(Texts)
      BY <1>1, <2>1, ShortSeqs
  <2>3. QED  BY <2>2 DEF PairEvents
<1>3. ASSUME NEW s \in Section PROVE SectionEvents(s) \in Seq(Texts)
  <2>1. s.name \in Texts /\ s.pairs \in Seq(Keyed)
      BY DEF Section, Texts
  <2> DEFINE pairs == FlattenSeq([i \in DOMAIN s.pairs |-> PairEvents(s.pairs[i])])
  <2>2. pairs \in Seq(Texts)
    <3>1. /\ DOMAIN s.pairs = 1 .. Len(s.pairs) /\ Len(s.pairs) \in Nat
          /\ \A i \in DOMAIN s.pairs : s.pairs[i] \in Keyed
        BY <2>1
    <3>2. [i \in DOMAIN s.pairs |-> PairEvents(s.pairs[i])] \in [1 .. Len(s.pairs) -> Seq(Texts)]
        BY <1>2, <3>1
    <3>3. QED  BY <3>1, <3>2, FlattenFunction
  <2>3. SectionEvents(s) = IF s.name = None THEN pairs ELSE <<s.name, Other>> \o pairs \o <<Other>>
      BY DEF SectionEvents
  <2> HIDE DEF pairs
  <2>4. <<s.name, Other>> \in Seq(Texts) /\ <<Other>> \in Seq(Texts)
      BY <1>1, <2>1, ShortSeqs
  <2>5. <<s.name, Other>> \o pairs \o <<Other>> \in Seq(Texts)
      BY <2>2, <2>4
  <2>6. QED  BY <2>2, <2>3, <2>5
<1> DEFINE middle == FlattenSeq([i \in DOMAIN doc |-> SectionEvents(doc[i])])
<1>4. middle \in Seq(Texts)
  <2>1. DOMAIN doc = 1 .. Len(doc) /\ Len(doc) \in Nat /\ \A i \in DOMAIN doc : doc[i] \in Section
      OBVIOUS
  <2>2. [i \in DOMAIN doc |-> SectionEvents(doc[i])] \in [1 .. Len(doc) -> Seq(Texts)]
      BY <1>3, <2>1
  <2>3. QED  BY <2>1, <2>2, FlattenFunction
<1>5. Events(doc) = <<Other, Other, Other>> \o middle \o <<Other, Other>>
    BY DEF Events
<1> HIDE DEF middle
<1>6. <<Other, Other, Other>> \in Seq(Texts) /\ <<Other, Other>> \in Seq(Texts)
    BY <1>1, ShortSeqs
<1>7. QED  BY <1>4, <1>5, <1>6

LEMMA FilesTyped ==
    ASSUME NEW f \in Files
    PROVE  f.events \in Seq(Texts)
<1>1. PICK doc \in Documents : \E n \in 0 .. Len(Events(doc)) :
          f = [doc |-> doc, events |-> SubSeq(Events(doc), 1, n), whole |-> n = Len(Events(doc))]
    BY DEF Files
<1>2. Events(doc) \in Seq(Texts)
    BY ConfigAssumption, EventsTyped DEF Section, Keyed
<1>3. \A n \in 0 .. Len(Events(doc)) : SubSeq(Events(doc), 1, n) \in Seq(Texts)
    BY <1>2
<1>4. QED  BY <1>1, <1>3
-----------------------------------------------------------------------------
(***************************************************************************)
(* Reading and freeing the configuration.                                  *)
(***************************************************************************)

Size == Len(file.events)

ReadTypes ==
    /\ file.events \in Seq(Texts)
    /\ pos \in 1 .. Size + 2
    /\ key \in 0 .. Size
    /\ latest_section \in {None} \cup {file.events[i] : i \in DOMAIN file.events}
    /\ loop_count \in 0 .. LoopLimit
    /\ config \in [Fields -> 0 .. Size]

\* The key whose value is at p stands in the file again, further on.
Again(p) == \E i \in p + 1 .. Size - 1 : file.events[i] = file.events[p - 1]

\* A string that was allocated for the value at p: the field still points to it,
\* or has got another value since.
FieldCell(p) ==
    /\ p \in 2 .. Size /\ p < pos
    /\ file.events[p - 1] \in Strings
    /\ config[<<"general", file.events[p - 1]>>] = p \/ Again(p)

\* What is on the heap, until it is freed and after that.
Allocated ==
    /\ main # "done" => \A cell \in heap : \/ cell \in Actions
                                           \/ cell = <<"section", 0>>
                                           \/ \E p \in 2 .. Size : cell = <<"field", p>> /\ FieldCell(p)
    /\ main \in {"main", "start", "join"} => <<"section", 0>> \notin heap
    /\ OnlyRepeatsLeak

SocketTypes ==
    /\ tries \in [Askers -> 0 .. Tries]
    /\ failed \subseteq {"memory", "length", "network"}

ReadInvariant == ReadTypes /\ Allocated /\ SocketTypes

LEMMA InitRead == Init => ReadInvariant
<1> SUFFICES ASSUME Init PROVE ReadInvariant
    OBVIOUS
<1> USE DEF Init, ConfigInit, SocketsInit
<1>1. file.events \in Seq(Texts)  BY FilesTyped
<1>2. Size \in Nat  BY <1>1 DEF Size
<1>3. ReadTypes  BY <1>1, <1>2, ConfigAssumption DEF ReadTypes
<1>4. Allocated  BY DEF Allocated, OnlyRepeatsLeak
<1>5. SocketTypes  BY SocketsAssumption DEF SocketTypes
<1>6. QED  BY <1>3, <1>4, <1>5 DEF ReadInvariant

\* Whatever leaves the heap and the fields alone does no harm.
LEMMA SameHeap ==
    ASSUME ReadInvariant, UNCHANGED <<file, pos, config, heap>>,
           main' # "done" \/ main' = main,
           main' \in {"main", "start", "join"} => main \in {"main", "start", "join"},
           main # "done" \/ main' = "done"
    PROVE  Allocated'
<1>1. \A p : FieldCell(p)' <=> FieldCell(p)  BY DEF FieldCell, Again, Size
<1>2. OnlyRepeatsLeak'  BY DEF ReadInvariant, Allocated, OnlyRepeatsLeak
<1>3. QED  BY <1>1, <1>2 DEF ReadInvariant, Allocated, Size

LEMMA SameTypes ==
    ASSUME ReadInvariant, UNCHANGED configVars
    PROVE  ReadTypes'
BY DEF ReadInvariant, ReadTypes, configVars, Size

\* Cells of strings stay such when the reader goes on.
LEMMA FieldCellStays ==
    ASSUME ReadTypes, UNCHANGED <<file, config>>, pos' \in Nat, pos <= pos'
    PROVE  \A p \in 2 .. Size : FieldCell(p) => FieldCell(p)'
<1>1. pos \in Nat  BY DEF ReadTypes
<1>2. QED  BY <1>1 DEF FieldCell, Again, Size

LEMMA ReadPairRead ==
    ASSUME ReadInvariant, ReadPair
    PROVE  ReadTypes' /\ Allocated'
<1> DEFINE k == file.events[pos]
           f == <<latest_section, k>>
<1>1. /\ main = "read" /\ main' = "read" /\ file' = file /\ latest_section' = latest_section
      /\ pos' = pos + 2 /\ key' = 0 /\ loop_count' = 0
      /\ config' = IF f \in Fields THEN [config EXCEPT ![f] = pos + 1] ELSE config
      /\ heap' = IF f \in StringFields THEN heap \cup {<<"field", pos + 1>>} ELSE heap
    BY DEF ReadPair
<1>2. Size \in Nat /\ DOMAIN file.events = 1 .. Size /\ pos \in Nat
    BY DEF ReadInvariant, ReadTypes, Size
<1>3. pos \in 1 .. Size /\ pos + 1 \in 1 .. Size
    BY <1>2 DEF ReadPair, Scalar
<1>4. f \in StringFields => f \in Fields /\ f = <<"general", k>> /\ k \in Strings
    BY DEF Fields, StringFields
<1>5. config' \in [Fields -> 0 .. Size]
    BY <1>1, <1>3 DEF ReadInvariant, ReadTypes
<1>6. ReadTypes'
    BY <1>1, <1>2, <1>3, <1>5, ConfigAssumption DEF ReadInvariant, ReadTypes, Size
<1>7. ASSUME NEW p \in 2 .. Size, FieldCell(p) PROVE FieldCell(p)'
  <2> DEFINE name == file.events[p - 1]
             g == <<"general", name>>
  <2>1. p < pos' /\ name \in Strings /\ g \in Fields
      BY <1>1, <1>2, <1>7 DEF FieldCell, Fields, StringFields
  <2>2. CASE name = k
    <3>1. pos \in p + 1 .. Size - 1
        BY <1>2, <1>3, <1>7 DEF FieldCell
    <3>2. Again(p)  BY <2>2, <3>1 DEF Again
    <3>3. QED  BY <1>1, <2>1, <3>2 DEF FieldCell, Again, Size
  <2>3. CASE name # k
    <3>1. config'[g] = config[g]
        BY <1>1, <2>1, <2>3 DEF ReadInvariant, ReadTypes
    <3>2. QED  BY <1>1, <1>7, <2>1, <3>1 DEF FieldCell, Again, Size
  <2>4. QED  BY <2>2, <2>3
<1>8. ASSUME f \in StringFields, NEW q \in 2 .. Size, q = pos + 1 PROVE FieldCell(q)'
  <2>1. q < pos' /\ q - 1 = pos
      BY <1>1, <1>2, <1>8
  <2>2. config'[<<"general", k>>] = q
      BY <1>1, <1>4, <1>8 DEF ReadInvariant, ReadTypes
  <2>3. QED  BY <1>1, <1>4, <1>8, <2>1, <2>2 DEF FieldCell, Size
<1>9. \A cell \in heap' : \/ cell \in Actions
                          \/ cell = <<"section", 0>>
                          \/ \E p \in 2 .. Size : cell = <<"field", p>> /\ FieldCell(p)'
  <2>1. SUFFICES ASSUME NEW cell \in heap', cell \notin Actions, cell # <<"section", 0>>
                 PROVE  \E p \in 2 .. Size : cell = <<"field", p>> /\ FieldCell(p)'
      OBVIOUS
  <2>2. CASE cell \in heap
    <3>1. PICK p \in 2 .. Size : cell = <<"field", p>> /\ FieldCell(p)
        BY <1>1, <2>1, <2>2 DEF ReadInvariant, Allocated
    <3>2. QED  BY <1>7, <3>1
  <2>3. CASE cell \notin heap
    <3>1. f \in StringFields /\ cell = <<"field", pos + 1>>
        BY <1>1, <2>1, <2>3
    <3>2. pos + 1 \in 2 .. Size  BY <1>2, <1>3
    <3>3. QED  BY <1>8, <3>1, <3>2
  <2>4. QED  BY <2>2, <2>3
<1>10. Allocated'
    BY <1>1, <1>9 DEF Allocated, OnlyRepeatsLeak, Size
<1>11. QED  BY <1>6, <1>10

LEMMA ReadConfigRead ==
    ASSUME ReadInvariant, ReadConfig
    PROVE  ReadTypes' /\ Allocated'
<1>1. CASE OpenFails \/ Malformed \/ PairWithoutSection \/ KeyFreedTwice
  <2>1. /\ UNCHANGED configVars
        /\ main \in {"open", "read"} /\ main' \in {"exit", "killed", "aborted"}
      BY <1>1 DEF OpenFails, Malformed, PairWithoutSection, KeyFreedTwice
  <2>2. ReadTypes'  BY <2>1, SameTypes
  <2>3. Allocated'  BY <2>1, SameHeap DEF configVars
  <2>4. QED  BY <2>2, <2>3
<1>2. CASE OpenConfig
  <2>1. ReadTypes'  BY <1>2 DEF OpenConfig, ReadInvariant, ReadTypes, Size
  <2>2. Allocated'  BY <1>2 DEF OpenConfig, Allocated, OnlyRepeatsLeak
  <2>3. QED  BY <2>1, <2>2
<1>3. CASE SkipEvent
  <2>1. /\ main = "read" /\ main' = "read" /\ loop_count' = loop_count + 1
        /\ pos' = IF pos \in DOMAIN file.events THEN pos + 1 ELSE pos
        /\ loop_count < LoopLimit
        /\ UNCHANGED <<file, key, latest_section, config, heap>>
      BY <1>3 DEF SkipEvent
  <2>2. Size \in Nat /\ pos \in 1 .. Size + 2 /\ DOMAIN file.events = 1 .. Size
      BY DEF ReadInvariant, ReadTypes, Size
  <2>3. pos' \in 1 .. Size + 2 /\ pos <= pos' /\ loop_count' \in 0 .. LoopLimit
      BY <2>1, <2>2, ConfigAssumption DEF ReadInvariant, ReadTypes
  <2>4. ReadTypes'  BY <2>1, <2>3 DEF ReadInvariant, ReadTypes, Size
  <2>5. \A p \in 2 .. Size : FieldCell(p) => FieldCell(p)'
      BY <2>1, <2>3, FieldCellStays DEF ReadInvariant
  <2>6. Allocated'
      BY <2>1, <2>5 DEF ReadInvariant, Allocated, OnlyRepeatsLeak, Size
  <2>7. QED  BY <2>4, <2>6
<1>4. CASE ReadSection
  <2>1. /\ main = "read" /\ main' = "read" /\ pos' = pos + 2 /\ loop_count' = 0 /\ key' = pos
        /\ latest_section' = file.events[pos] /\ heap' = heap \cup {<<"section", 0>>}
        /\ pos \in DOMAIN file.events
        /\ UNCHANGED <<file, config>>
      BY <1>4 DEF ReadSection, Scalar
  <2>2. Size \in Nat /\ pos \in 1 .. Size
      BY <2>1 DEF ReadInvariant, ReadTypes, Size
  <2>3. pos' \in 1 .. Size + 2 /\ key' \in 0 .. Size /\ loop_count' \in 0 .. LoopLimit
      BY <2>1, <2>2, ConfigAssumption
  <2>4. ReadTypes'  BY <2>1, <2>3 DEF ReadInvariant, ReadTypes, Size
  <2>5. \A p \in 2 .. Size : FieldCell(p) => FieldCell(p)'
      BY <2>1, <2>2, FieldCellStays DEF ReadInvariant
  <2>6. Allocated'
      BY <2>1, <2>5 DEF ReadInvariant, Allocated, OnlyRepeatsLeak, Size
  <2>7. QED  BY <2>4, <2>6
<1>5. CASE ReadPair  BY <1>5, ReadPairRead
<1>6. CASE EndOfFile
  <2>1. /\ main = "read" /\ main' = "main" /\ heap' = heap \ {<<"section", 0>>}
        /\ UNCHANGED <<file, pos, key, latest_section, loop_count, config>>
      BY <1>6 DEF EndOfFile
  <2>2. ReadTypes'  BY <2>1 DEF ReadInvariant, ReadTypes, Size
  <2>3. \A p : FieldCell(p)' <=> FieldCell(p)  BY <2>1 DEF FieldCell, Again, Size
  <2>4. Allocated'
      BY <2>1, <2>3 DEF ReadInvariant, Allocated, OnlyRepeatsLeak, Size
  <2>5. QED  BY <2>2, <2>4
<1>7. QED  BY <1>1, <1>2, <1>3, <1>4, <1>5, <1>6 DEF ReadConfig

\* release_config: what config points to goes, and the rest are the repeats.
LEMMA FinishRead ==
    ASSUME ReadInvariant, Finish
    PROVE  ReadInvariant'
<1>1. /\ main = "join" /\ main' = "done"
      /\ heap' = heap \ ({<<"field", config[f]>> : f \in StringFields} \cup Actions)
      /\ config' = [f \in Fields |-> IF f \in StringFields THEN 0 ELSE config[f]]
      /\ UNCHANGED <<file, pos, key, latest_section, loop_count, tries, failed>>
    BY DEF Finish, ReleaseConfig
<1>2. Size \in Nat  BY DEF ReadInvariant, ReadTypes, Size
<1>3. ReadTypes'
  <2>1. config' \in [Fields -> 0 .. Size]
      BY <1>1, <1>2 DEF ReadInvariant, ReadTypes
  <2>2. QED  BY <1>1, <2>1 DEF ReadInvariant, ReadTypes, Size
<1>4. ASSUME NEW cell \in heap'
      PROVE  \E p \in 2 .. Size : cell = <<"field", p>> /\ Again(p)
  <2>1. cell \in heap /\ cell \notin Actions /\ \A f \in StringFields : cell # <<"field", config[f]>>
      BY <1>1
  <2>2. PICK p \in 2 .. Size : cell = <<"field", p>> /\ FieldCell(p)
      BY <1>1, <2>1 DEF ReadInvariant, Allocated
  <2>3. QED  BY <2>1, <2>2 DEF FieldCell, StringFields
<1>5. OnlyRepeatsLeak'
  <2>1. SUFFICES ASSUME NEW cell \in heap'
                 PROVE  /\ cell[1] = "field"
                        /\ \E i \in cell[2] + 1 .. Len(file.events) - 1 :
                               file.events[i] = file.events[cell[2] - 1]
      BY <1>1 DEF OnlyRepeatsLeak
  <2>2. PICK p \in 2 .. Size : cell = <<"field", p>> /\ Again(p)
      BY <1>4
  <2>3. cell[1] = "field" /\ cell[2] = p
      BY <2>2
  <2>4. QED  BY <2>2, <2>3 DEF Again, Size
<1>6. Allocated'  BY <1>1, <1>5 DEF Allocated
<1>7. SocketTypes'  BY <1>1 DEF ReadInvariant, SocketTypes
<1>8. QED  BY <1>3, <1>6, <1>7 DEF ReadInvariant

\* The steps of main on the way, and of the threads: the configuration stays.
LEMMA OthersRead ==
    ASSUME ReadInvariant, SocketTypes', UNCHANGED configVars,
           main' = main \/ main' \in {"killed", "aborted", "start", "join"},
           main' \in {"start", "join"} => main \in {"main", "start", "join"},
           main = "done" => main' = "done"
    PROVE  ReadInvariant'
<1>1. ReadTypes'  BY SameTypes
<1>2. Allocated'  BY SameHeap DEF configVars
<1>3. QED  BY <1>1, <1>2 DEF ReadInvariant

LEMMA AskTypes ==
    ASSUME SocketTypes, UNCHANGED failed, NEW a \in Askers, NEW address, Ask(a, address)
    PROVE  SocketTypes'
BY SocketsAssumption DEF SocketTypes, Ask

LEMMA SocketStepTypes ==
    ASSUME SocketTypes, NEW a \in Askers, SocketStep(a)
    PROVE  SocketTypes'
<1>1. CASE GetAddress(a, Address(want[a]))
    BY <1>1 DEF GetAddress, LockAndFree, Allocate, AllocateFails, ComposePart, Compose, ComposeFails, Unlock,
                Return, SocketTypes
<1>2. CASE CreateSocket(a)
  <2>1. CASE Bind(a, Usable) \/ Connect(a, Usable)
      BY <2>1 DEF Bind, Connect, Wire, SocketTypes
  <2>2. CASE ConnectAgain(a, Usable)
    <3>1. failed' = failed \/ failed' = failed \cup {"network"}
        BY <2>2 DEF ConnectAgain, Refused
    <3>2. tries' = tries \/ (tries[a] # 0 /\ tries' = [tries EXCEPT ![a] = tries[a] - 1])
        BY <2>2 DEF ConnectAgain
    <3>3. tries[a] \in 0 .. Tries /\ Tries \in Nat  BY SocketsAssumption DEF SocketTypes
    <3>4. tries' \in [Askers -> 0 .. Tries]  BY <3>2, <3>3 DEF SocketTypes
    <3>5. QED  BY <3>1, <3>4 DEF SocketTypes
  <2>3. QED  BY <1>2, <2>1, <2>2 DEF CreateSocket
<1>3. CASE PrintConfiguration
    BY <1>3 DEF PrintConfiguration, SocketTypes
<1>4. QED  BY <1>1, <1>2, <1>3 DEF SocketStep

LEMMA NextRead == ReadInvariant /\ [Next]_vars => ReadInvariant'
<1> SUFFICES ASSUME ReadInvariant, [Next]_vars PROVE ReadInvariant'
    OBVIOUS
<1> USE DEF socketVars
<1>1. CASE ReadConfig /\ UNCHANGED <<socketVars, role, call>>
  <2>1. SocketTypes'  BY <1>1 DEF ReadInvariant, SocketTypes
  <2>2. QED  BY <1>1, <2>1, ReadConfigRead DEF ReadInvariant
<1>2. CASE NextCall
    BY <1>2, AskTypes, AskersAre, OthersRead DEF NextCall, ReadInvariant
<1>3. CASE NoType \/ NegativeLength
  <2>1. SocketTypes'  BY <1>3 DEF NoType, NegativeLength, ReadInvariant, SocketTypes
  <2>2. QED  BY <1>3, <2>1, OthersRead DEF NoType, NegativeLength
<1>4. CASE AllCreated \/ AllStarted
  <2>1. SocketTypes'  BY <1>4 DEF AllCreated, AllStarted, ReadInvariant, SocketTypes
  <2>2. QED  BY <1>4, <2>1, OthersRead DEF AllCreated, AllStarted
<1>5. CASE \E t \in Threads : StartThread(t)
    BY <1>5, AskTypes, AskersAre, OthersRead DEF StartThread, ReadInvariant
<1>6. CASE Finish  BY <1>6, FinishRead
<1>7. CASE \E a \in Askers : SocketStep(a)
  <2>1. SocketTypes'  BY <1>7, SocketStepTypes DEF ReadInvariant
  <2>2. QED  BY <1>7, <2>1, OthersRead DEF SocketStep
<1>8. CASE \E a \in Askers : Abort(a)
  <2>1. PICK a \in Askers : Abort(a)  BY <1>8
  <2>2. tries' = tries /\ (failed' = failed \/ failed' = failed \cup {"network"})
      BY <2>1 DEF Abort, WireFails, RadioFails, Refused
  <2>3. SocketTypes'  BY <2>2 DEF ReadInvariant, SocketTypes
  <2>4. main # "done" /\ main' = "aborted" /\ UNCHANGED configVars
      BY <2>1 DEF Abort, Ended
  <2>5. QED  BY <2>3, <2>4, OthersRead
<1>9. CASE \E t \in Threads : ThreadLeaves(t)
  <2>1. UNCHANGED <<configVars, main, tries, failed>>  BY <1>9 DEF ThreadLeaves
  <2>2. SocketTypes'  BY <2>1 DEF ReadInvariant, SocketTypes
  <2>3. QED  BY <2>1, <2>2, OthersRead
<1>10. CASE UNCHANGED vars
  <2>1. UNCHANGED <<configVars, main, tries, failed>>  BY <1>10 DEF vars
  <2>2. SocketTypes'  BY <2>1 DEF ReadInvariant, SocketTypes
  <2>3. QED  BY <2>1, <2>2, OthersRead
<1>11. QED
  BY <1>1, <1>2, <1>3, <1>4, <1>5, <1>6, <1>7, <1>8, <1>9, <1>10 DEF Next, MainStep

LEMMA ReadHolds == Spec => []ReadInvariant
BY InitRead, NextRead, PTL DEF Spec

\* The places in the file, the counters of the retries and all the rest that the
\* start of the program keeps are within their bounds, for any file.
THEOREM StartTypes == Spec => []TypeOK
<1>1. Inv /\ ReadInvariant => TypeOK
  <2> SUFFICES ASSUME Inv, ReadInvariant PROVE TypeOK
      OBVIOUS
  <2>1. ConfigTypeOK
      BY DEF ConfigTypeOK, Inv, Order, ReadInvariant, ReadTypes, Size
  <2>2. QED  BY <2>1 DEF TypeOK, Inv, Types, Labels, Kinds, ReadInvariant, SocketTypes
<1>2. QED  BY <1>1, InvHolds, ReadHolds, PTL

\* Whatever file is read, in whatever order and however often its keys come: when
\* main ends, nothing that read_config allocated is left but the strings of keys
\* that the file repeats (assign_key_value, release_config).
THEOREM RepeatsAloneLeak == Spec => []OnlyRepeatsLeak
<1>1. ReadInvariant => OnlyRepeatsLeak  BY DEF ReadInvariant, Allocated
<1>2. QED  BY <1>1, ReadHolds, PTL

-----------------------------------------------------------------------------
(***************************************************************************)
(* The reader and the document: where the sections and pairs of a document *)
(* without lists stand among its events, and that the reader, wherever it  *)
(* is, has taken for each field the last pair before it.                   *)
(***************************************************************************)

\* Where the parts of a joined sequence begin, less one, and that they stand there.
Parts(off, seqs, whole) ==
    /\ off \in [1 .. Len(seqs) + 1 -> Nat]
    /\ off[1] = 0
    /\ Len(whole) = off[Len(seqs) + 1]
    /\ \A k \in 1 .. Len(seqs) :
          /\ off[k + 1] = off[k] + Len(seqs[k])
          /\ \A x \in 1 .. Len(seqs[k]) : whole[off[k] + x] = seqs[k][x]

\* What stands where in s \o t.
LEMMA JoinIndex ==
    ASSUME NEW S, NEW s \in Seq(S), NEW t \in Seq(S)
    PROVE  /\ s \o t \in Seq(S) /\ Len(s \o t) = Len(s) + Len(t)
           /\ \A x \in 1 .. Len(s) : (s \o t)[x] = s[x]
           /\ \A x \in 1 .. Len(t) : (s \o t)[Len(s) + x] = t[x]
OBVIOUS

\* Part k stands at its place in whole.
Stands(off, whole, seqs, k) ==
    /\ off[k + 1] = off[k] + Len(seqs[k])
    /\ \A x \in 1 .. Len(seqs[k]) : off[k] + x \in 1 .. Len(whole) /\ whole[off[k] + x] = seqs[k][x]

\* One part more is joined: it stands behind the others, which stay.
LEMMA StandsOn ==
    ASSUME NEW S, NEW seqs, NEW off, NEW s \in Seq(S), NEW t \in Seq(S), NEW m \in Nat,
           \A k \in 1 .. m : Stands(off, s, seqs, k),
           t = seqs[m + 1], off[m + 1] = Len(s), off[(m + 1) + 1] = Len(s \o t)
    PROVE  s \o t \in Seq(S) /\ \A k \in 1 .. m + 1 : Stands(off, s \o t, seqs, k)
<1>1. /\ s \o t \in Seq(S) /\ Len(s \o t) = Len(s) + Len(t) /\ Len(s) \in Nat /\ Len(t) \in Nat
      /\ \A x \in 1 .. Len(s) : (s \o t)[x] = s[x]
      /\ \A x \in 1 .. Len(t) : (s \o t)[Len(s) + x] = t[x]
    BY JoinIndex
<1> DEFINE whole == s \o t
<1> HIDE DEF whole
<1>2. /\ Len(whole) = Len(s) + Len(t)
      /\ \A x \in 1 .. Len(s) : whole[x] = s[x]
      /\ \A x \in 1 .. Len(t) : whole[Len(s) + x] = t[x]
    BY <1>1 DEF whole
<1>3. ASSUME NEW k \in 1 .. m PROVE Stands(off, whole, seqs, k)
  <2>1. \A y \in 1 .. Len(s) : y \in 1 .. Len(whole) /\ whole[y] = s[y]
      BY <1>1, <1>2
  <2>2. Stands(off, s, seqs, k)
      OBVIOUS
  <2>3. QED  BY <2>1, <2>2, Zenon DEF Stands
<1>4. Stands(off, whole, seqs, m + 1)
    BY <1>1, <1>2 DEF Stands, whole
<1>5. QED
  <2>1. \A k \in 1 .. m + 1 : k \in 1 .. m \/ k = m + 1
      OBVIOUS
  <2>2. QED  BY <1>1, <1>3, <1>4, <2>1 DEF whole

\* The parts of FlattenSeq, by induction over the joined prefixes.
LEMMA FlattenParts ==
    ASSUME NEW S, NEW seqs \in Seq(Seq(S))
    PROVE  \E off : Parts(off, seqs, FlattenSeq(seqs))
<1> DEFINE n == Len(seqs)
<1>1. CASE n = 0
  <2>1. FlattenSeq(seqs) = seqs  BY <1>1, Zenon DEF FlattenSeq
  <2>2. Parts([k \in 1 .. 1 |-> 0], seqs, seqs)  BY <1>1 DEF Parts
  <2>3. QED  BY <2>1, <2>2
<1>2. CASE n # 0
  <2>1. n \in Nat \ {0} /\ \A k \in 1 .. n : seqs[k] \in Seq(S)
      BY <1>2
  <2>2. PICK f : Joined(f, seqs, n) /\ FlattenSeq(seqs) = f[n]
      BY <2>1, FlattenIsJoined
  <2> HIDE DEF n
  <2> DEFINE off == [k \in 1 .. n + 1 |-> IF k = 1 THEN 0 ELSE Len(f[k - 1])]
             good == {m \in 1 .. n : f[m] \in Seq(S) /\ \A k \in 1 .. m : Stands(off, f[m], seqs, k)}
  <2>3. off[1] = 0 /\ \A k \in 1 .. n : off[k + 1] = Len(f[k])
    <3>1. ASSUME NEW k \in 1 .. n PROVE off[k + 1] = Len(f[k])
      <4>1. k + 1 \in 1 .. n + 1 /\ k + 1 # 1 /\ (k + 1) - 1 = k  BY <2>1
      <4>2. QED  BY <4>1
    <3>2. QED  BY <2>1, <3>1
  <2>4. f[1] = seqs[1] /\ \A k \in 1 .. n - 1 : f[k + 1] = f[k] \o seqs[k + 1]
    <3>1. f[1] = seqs[1]  BY <2>1, <2>2 DEF Joined
    <3>2. ASSUME NEW k \in 1 .. n - 1 PROVE f[k + 1] = f[k] \o seqs[k + 1]
      <4>1. k + 1 \in 1 .. n /\ k + 1 # 1 /\ (k + 1) - 1 = k  BY <2>1
      <4>2. f[k + 1] = f[(k + 1) - 1] \o seqs[k + 1]  BY <2>2, <4>1 DEF Joined
      <4>3. QED  BY <4>1, <4>2
    <3>3. QED  BY <3>1, <3>2
  <2> HIDE DEF off
  <2>5. 1 \in good
    <3>1. 1 \in 1 .. n /\ f[1] \in Seq(S) /\ seqs[1] = f[1]  BY <2>1, <2>4
    <3>2. off[1 + 1] = Len(f[1]) /\ off[1] = 0  BY <2>3, <3>1
    <3>3. Stands(off, f[1], seqs, 1)
        BY <3>1, <3>2 DEF Stands
    <3>4. QED  BY <3>1, <3>3
  <2>6. ASSUME NEW m \in 1 .. n - 1, m \in good PROVE m + 1 \in good
    <3>1. f[m] \in Seq(S) /\ \A k \in 1 .. m : Stands(off, f[m], seqs, k)
        BY <2>6
    <3> HIDE DEF good
    <3>2. m \in Nat /\ m \in 1 .. n /\ m + 1 \in 1 .. n
        BY <2>1
    <3>3. seqs[m + 1] \in Seq(S) /\ f[m + 1] = f[m] \o seqs[m + 1]
        BY <2>1, <2>4, <3>2
    <3>4. off[m + 1] = Len(f[m]) /\ off[(m + 1) + 1] = Len(f[m + 1])
        BY <2>3, <3>2
    <3>5. f[m + 1] \in Seq(S) /\ \A k \in 1 .. m + 1 : Stands(off, f[m + 1], seqs, k)
      <4> DEFINE s == f[m]
                 t == seqs[m + 1]
      <4>1. /\ s \in Seq(S) /\ t \in Seq(S) /\ m \in Nat /\ f[m + 1] = s \o t /\ t = seqs[m + 1]
            /\ \A k \in 1 .. m : Stands(off, s, seqs, k)
            /\ off[m + 1] = Len(s)
          BY <3>1, <3>2, <3>3, <3>4
      <4>2. off[(m + 1) + 1] = Len(s \o t)
          BY <3>4, <4>1
      <4> HIDE DEF s, t
      <4>3. s \o t \in Seq(S) /\ \A k \in 1 .. m + 1 : Stands(off, s \o t, seqs, k)
          BY <4>1, <4>2, StandsOn
      <4>4. QED  BY <4>1, <4>3
    <3>6. QED  BY <3>2, <3>5 DEF good
  <2> HIDE DEF good
  <2>7. n \in good  BY <2>1, <2>5, <2>6, Induction
  <2>8. /\ f[n] \in Seq(S)
        /\ \A k \in 1 .. n : /\ off[k + 1] = off[k] + Len(seqs[k])
                             /\ \A x \in 1 .. Len(seqs[k]) : f[n][off[k] + x] = seqs[k][x]
      BY <2>7 DEF good, Stands
  <2>9. \A k \in 1 .. n : f[k] \in Seq(S)
    <3>1. ASSUME NEW k \in 1 .. n PROVE f[k] \in Seq(S)
      <4> DEFINE upto == {m \in 1 .. k : f[m] \in Seq(S)}
      <4>1. k \in Nat \ {0} /\ 1 \in upto  BY <2>1, <2>4
      <4>2. ASSUME NEW m \in 1 .. k - 1, m \in upto PROVE m + 1 \in upto
        <5>1. m + 1 \in 1 .. k /\ m \in 1 .. n - 1 /\ m + 1 \in 1 .. n  BY <2>1
        <5>2. f[m] \in Seq(S) /\ seqs[m + 1] \in Seq(S) /\ f[m + 1] = f[m] \o seqs[m + 1]
            BY <2>1, <2>4, <4>2, <5>1
        <5>3. f[m + 1] \in Seq(S)  BY <5>2, JoinIndex
        <5>4. QED  BY <5>1, <5>3
      <4> HIDE DEF upto
      <4>3. k \in upto  BY <4>1, <4>2, Induction
      <4>4. QED  BY <4>3 DEF upto
    <3>2. QED  BY <3>1
  <2>10. off \in [1 .. n + 1 -> Nat]
    <3> USE DEF off
    <3>1. ASSUME NEW k \in 1 .. n + 1, k # 1 PROVE Len(f[k - 1]) \in Nat
      <4>1. k - 1 \in 1 .. n  BY <2>1, <3>1
      <4>2. f[k - 1] \in Seq(S)  BY <2>9, <4>1
      <4>3. QED  BY <4>2
    <3>2. QED  BY <3>1
  <2>11. Len(f[n]) = off[n + 1]  BY <2>1, <2>3
  <2>12. Parts(off, seqs, f[n])
      BY <2>3, <2>8, <2>10, <2>11 DEF Parts, n
  <2>13. QED  BY <2>2, <2>12
<1>3. QED  BY <1>1, <1>2

\* The events of a section's pairs, two for each pair without a list.
PairsOf(section) == FlattenSeq([i \in DOMAIN section.pairs |-> PairEvents(section.pairs[i])])

LEMMA PairsStand ==
    ASSUME NEW s \in Section, \A p \in DOMAIN s.pairs : s.pairs[p][2] # Other
    PROVE  /\ PairsOf(s) \in Seq(Texts) /\ Len(PairsOf(s)) = 2 * Len(s.pairs)
           /\ \A j \in 1 .. Len(s.pairs) : /\ PairsOf(s)[2 * j - 1] = s.pairs[j][1]
                                           /\ PairsOf(s)[2 * j] = s.pairs[j][2]
<1> DEFINE n == Len(s.pairs)
           seqs == [i \in DOMAIN s.pairs |-> PairEvents(s.pairs[i])]
<1>1. n \in Nat /\ DOMAIN s.pairs = 1 .. n /\ \A j \in 1 .. n : s.pairs[j] \in Keyed
    BY DEF Section
<1>2. ASSUME NEW j \in 1 .. n
      PROVE  /\ seqs[j] \in Seq(Texts) /\ Len(seqs[j]) = 2
             /\ seqs[j][1] = s.pairs[j][1] /\ seqs[j][2] = s.pairs[j][2]
  <2> DEFINE x == s.pairs[j][1]
             y == s.pairs[j][2]
  <2>1. x \in Texts /\ y \in Texts /\ s.pairs[j] = <<x, y>>
      BY <1>1 DEF Keyed, Texts
  <2>2. seqs[j] = <<x, y>>
    <3>1. seqs[j] = PairEvents(s.pairs[j]) /\ y # Other  BY <1>1
    <3>2. QED  BY <2>1, <3>1 DEF PairEvents
  <2> HIDE DEF seqs
  <2>3. s.pairs[j][1] = x /\ s.pairs[j][2] = y
      OBVIOUS
  <2> HIDE DEF x, y
  <2>4. <<x, y>> \in Seq(Texts) /\ Len(<<x, y>>) = 2 /\ <<x, y>>[1] = x /\ <<x, y>>[2] = y
      BY <2>1
  <2>5. QED  BY <2>2, <2>3, <2>4
<1>3. seqs \in [1 .. n -> Seq(Texts)]
    BY <1>1, <1>2
<1> HIDE DEF n, seqs
<1>4. \A T : seqs \in [1 .. n -> T] => seqs \in Seq(T)
    BY <1>1
<1>5. seqs \in Seq(Seq(Texts)) /\ Len(seqs) = n
    BY <1>1, <1>3, <1>4
<1>6. PICK off : Parts(off, seqs, FlattenSeq(seqs))
    BY <1>5, FlattenParts
<1> DEFINE good == {k \in 1 .. n + 1 : off[k] = 2 * (k - 1)}
<1>7. 1 \in good
    BY <1>1, <1>6 DEF Parts
<1>8. ASSUME NEW k \in 1 .. (n + 1) - 1, k \in good PROVE k + 1 \in good
  <2>1. k \in 1 .. n /\ k + 1 \in 1 .. n + 1 /\ off[k] = 2 * (k - 1)  BY <1>1, <1>8
  <2>2. off[k + 1] = off[k] + 2  BY <1>2, <1>5, <1>6, <2>1 DEF Parts
  <2>3. QED  BY <1>1, <2>1, <2>2
<1>9. ASSUME NEW k \in 1 .. n + 1 PROVE off[k] = 2 * (k - 1)
  <2> DEFINE upto == {m \in 1 .. k : m \in good}
  <2>1. k \in Nat \ {0} /\ 1 \in upto  BY <1>1, <1>7
  <2>2. ASSUME NEW m \in 1 .. k - 1, m \in upto PROVE m + 1 \in upto
    <3> HIDE DEF good
    <3>1. m + 1 \in 1 .. k /\ m \in 1 .. (n + 1) - 1  BY <1>1
    <3>2. QED  BY <1>8, <2>2, <3>1
  <2> HIDE DEF upto
  <2>3. k \in upto  BY <2>1, <2>2, Induction
  <2>4. QED  BY <2>3 DEF upto
<1> HIDE DEF good
<1>10. PairsOf(s) = FlattenSeq(seqs)
    BY DEF PairsOf, seqs
<1>11. PairsOf(s) \in Seq(Texts)
    BY <1>5, <1>10, FlattenTyped
<1>12. n + 1 \in 1 .. n + 1  BY <1>1
<1>13. Len(PairsOf(s)) = 2 * n
    BY <1>1, <1>5, <1>6, <1>9, <1>10, <1>12 DEF Parts
<1>14. ASSUME NEW j \in 1 .. n
       PROVE  PairsOf(s)[2 * j - 1] = s.pairs[j][1] /\ PairsOf(s)[2 * j] = s.pairs[j][2]
  <2>1. j \in 1 .. n + 1 /\ off[j] = 2 * (j - 1)  BY <1>1, <1>9
  <2>2. \A x \in 1 .. 2 : PairsOf(s)[off[j] + x] = seqs[j][x]
      BY <1>2, <1>5, <1>6, <1>10 DEF Parts
  <2>3. PairsOf(s)[off[j] + 1] = seqs[j][1] /\ PairsOf(s)[off[j] + 2] = seqs[j][2]
      BY <2>2
  <2>4. off[j] + 1 = 2 * j - 1 /\ off[j] + 2 = 2 * j
      BY <1>1, <2>1
  <2>5. QED  BY <1>2, <2>3, <2>4
<1>15. QED  BY <1>11, <1>13, <1>14 DEF n

\* What stands where in a \o all \o c.
LEMMA Between ==
    ASSUME NEW S, NEW a \in Seq(S), NEW all \in Seq(S), NEW c \in Seq(S)
    PROVE  /\ a \o all \o c \in Seq(S) /\ Len(a \o all \o c) = Len(a) + Len(all) + Len(c)
           /\ \A i \in 1 .. Len(a) : (a \o all \o c)[i] = a[i]
           /\ \A i \in 1 .. Len(all) : (a \o all \o c)[Len(a) + i] = all[i]
           /\ \A i \in 1 .. Len(c) : (a \o all \o c)[Len(a) + Len(all) + i] = c[i]
<1> DEFINE b == a \o all
           e == b \o c
<1>1. /\ b \in Seq(S) /\ Len(b) = Len(a) + Len(all)
      /\ \A i \in 1 .. Len(a) : b[i] = a[i]
      /\ \A i \in 1 .. Len(all) : b[Len(a) + i] = all[i]
    BY JoinIndex
<1> HIDE DEF b
<1>2. /\ e \in Seq(S) /\ Len(e) = Len(b) + Len(c)
      /\ \A i \in 1 .. Len(b) : e[i] = b[i]
      /\ \A i \in 1 .. Len(c) : e[Len(b) + i] = c[i]
  <2>1. b \in Seq(S)  BY <1>1
  <2>2. QED  BY <2>1, JoinIndex
<1> HIDE DEF e
<1>3. Len(a) \in Nat /\ Len(all) \in Nat /\ Len(c) \in Nat
    OBVIOUS
<1>4. /\ e \in Seq(S) /\ Len(e) = Len(a) + Len(all) + Len(c)
      /\ \A i \in 1 .. Len(a) : e[i] = a[i]
      /\ \A i \in 1 .. Len(all) : e[Len(a) + i] = all[i]
      /\ \A i \in 1 .. Len(c) : e[Len(a) + Len(all) + i] = c[i]
    BY <1>1, <1>2, <1>3
<1>5. QED  BY <1>4 DEF e, b

\* The events e are those of a section with its pairs.
SectionIn(s, e) ==
    LET n == Len(s.pairs)
    IN /\ n \in Nat /\ e \in Seq(Texts) /\ Len(e) = 2 * n + 3
       /\ e[1] = s.name /\ e[2] = Other /\ e[2 * n + 3] = Other
       /\ \A j \in 1 .. n : e[2 * j + 1] = s.pairs[j][1] /\ e[2 * j + 2] = s.pairs[j][2]

\* A section with a name and without lists.
FlatSection(s) == s.name # None /\ \A p \in DOMAIN s.pairs : s.pairs[p][2] # Other

LEMMA SectionStands ==
    ASSUME NEW s \in Section, FlatSection(s)
    PROVE  SectionIn(s, SectionEvents(s))
<1> DEFINE n == Len(s.pairs)
           e == SectionEvents(s)
<1> USE DEF FlatSection
<1>1. e = <<s.name, Other>> \o PairsOf(s) \o <<Other>>
    BY DEF SectionEvents, PairsOf
<1>0. n \in Nat
    BY DEF Section
<1> HIDE DEF e
<1>2. /\ PairsOf(s) \in Seq(Texts) /\ Len(PairsOf(s)) = 2 * n
      /\ \A j \in 1 .. n : PairsOf(s)[2 * j - 1] = s.pairs[j][1] /\ PairsOf(s)[2 * j] = s.pairs[j][2]
    BY PairsStand
<1>3. s.name \in Texts /\ Other \in Texts /\ n \in Nat
    BY <1>0 DEF Section, Texts
<1> HIDE DEF n
<1>4. /\ e \in Seq(Texts) /\ Len(e) = 2 * n + 3
      /\ e[1] = s.name /\ e[2] = Other /\ e[2 * n + 3] = Other
      /\ \A i \in 1 .. 2 * n : e[i + 2] = PairsOf(s)[i]
  <2> DEFINE all == PairsOf(s)
  <2>1. all \in Seq(Texts) /\ Len(all) = 2 * n /\ e = <<s.name, Other>> \o all \o <<Other>>
      BY <1>1, <1>2
  <2> HIDE DEF all
  <2>2. /\ e \in Seq(Texts) /\ Len(e) = Len(all) + 3
        /\ e[1] = s.name /\ e[2] = Other /\ e[Len(all) + 3] = Other
        /\ \A i \in 1 .. Len(all) : e[i + 2] = all[i]
    <3> DEFINE a == <<s.name, Other>>
               c == <<Other>>
    <3>1. /\ a \in Seq(Texts) /\ Len(a) = 2 /\ a[1] = s.name /\ a[2] = Other
          /\ c \in Seq(Texts) /\ Len(c) = 1 /\ c[1] = Other
        BY <1>3, ShortSeqs
    <3>2. e = a \o all \o c
        BY <2>1
    <3> HIDE DEF a, c
    <3>3. /\ e \in Seq(Texts) /\ Len(e) = Len(a) + Len(all) + Len(c)
          /\ \A i \in 1 .. Len(a) : e[i] = a[i]
          /\ \A i \in 1 .. Len(all) : e[Len(a) + i] = all[i]
          /\ \A i \in 1 .. Len(c) : e[Len(a) + Len(all) + i] = c[i]
      <4>1. a \in Seq(Texts) /\ all \in Seq(Texts) /\ c \in Seq(Texts)
          BY <2>1, <3>1
      <4>2. /\ a \o all \o c \in Seq(Texts) /\ Len(a \o all \o c) = Len(a) + Len(all) + Len(c)
            /\ \A i \in 1 .. Len(a) : (a \o all \o c)[i] = a[i]
            /\ \A i \in 1 .. Len(all) : (a \o all \o c)[Len(a) + i] = all[i]
            /\ \A i \in 1 .. Len(c) : (a \o all \o c)[Len(a) + Len(all) + i] = c[i]
          BY <4>1, Between
      <4>3. QED  BY <3>2, <4>2
    <3>4. Len(all) \in Nat
        BY <1>3, <2>1
    <3>5. QED  BY <3>1, <3>3, <3>4
  <2>3. QED  BY <2>1, <2>2 DEF all
<1>5. ASSUME NEW j \in 1 .. n PROVE e[2 * j + 1] = s.pairs[j][1] /\ e[2 * j + 2] = s.pairs[j][2]
  <2>1. 2 * j - 1 \in 1 .. 2 * n /\ 2 * j \in 1 .. 2 * n /\ (2 * j - 1) + 2 = 2 * j + 1
      BY <1>3
  <2>2. e[(2 * j - 1) + 2] = PairsOf(s)[2 * j - 1] /\ e[2 * j + 2] = PairsOf(s)[2 * j]
      BY <1>4, <2>1
  <2>3. QED  BY <1>2, <2>1, <2>2
<1>6. QED  BY <1>3, <1>4, <1>5 DEF SectionIn, n, e

\* A section whose name stands at p, its pairs, and the next part of the file.
SectionAt(p, next, section, events) ==
    /\ next = p + 2 * Len(section.pairs) + 3
    /\ events[p] = section.name /\ events[p + 1] = Other /\ events[next - 1] = Other
    /\ \A j \in 1 .. Len(section.pairs) : /\ events[p + 2 * j] = section.pairs[j][1]
                                          /\ events[p + 2 * j + 1] = section.pairs[j][2]

\* Where the sections of a document without lists stand among its events.
Layout(off, doc, events) ==
    /\ off \in [1 .. Len(doc) + 1 -> Nat] /\ off[1] = 4
    /\ Len(events) = off[Len(doc) + 1] + 1
    /\ \A p \in 1 .. 3 : events[p] = Other
    /\ events[off[Len(doc) + 1]] = Other /\ events[off[Len(doc) + 1] + 1] = Other
    /\ \A i \in 1 .. Len(doc) : SectionAt(off[i], off[i + 1], doc[i], events)

\* Places that never go back stand in order.
LEMMA PartsGrow ==
    ASSUME NEW n \in Nat, NEW off \in [1 .. n + 1 -> Nat],
           \A k \in 1 .. n : off[k] <= off[k + 1],
           NEW i \in 1 .. n + 1, NEW j \in 1 .. n + 1, i <= j
    PROVE  off[i] <= off[j]
<1> DEFINE good == {k \in 1 .. j - i + 1 : off[i] <= off[i + k - 1]}
<1>1. j - i + 1 \in Nat \ {0} /\ 1 \in good
    OBVIOUS
<1>2. ASSUME NEW k \in 1 .. (j - i + 1) - 1, k \in good PROVE k + 1 \in good
  <2>1. /\ i + k - 1 \in 1 .. n /\ (i + k - 1) + 1 = i + (k + 1) - 1 /\ off[i] <= off[i + k - 1]
        /\ k + 1 \in 1 .. j - i + 1 /\ i + (k + 1) - 1 \in 1 .. n + 1 /\ i + k - 1 \in 1 .. n + 1
      BY <1>2
  <2>2. off[i + k - 1] <= off[i + (k + 1) - 1]
      BY <2>1
  <2>3. off[i] <= off[i + (k + 1) - 1]
      BY <2>1, <2>2
  <2>4. QED  BY <2>1, <2>3
<1> HIDE DEF good
<1>3. j - i + 1 \in good
    BY <1>1, <1>2, Induction
<1>4. i + (j - i + 1) - 1 = j
    OBVIOUS
<1>5. QED  BY <1>3, <1>4 DEF good

\* A section whose events stand from p on.
LEMMA SectionThere ==
    ASSUME NEW section, NEW s, SectionIn(section, s), NEW events, NEW p \in Nat, NEW next,
           next = p + Len(s), \A x \in 1 .. Len(s) : events[p + x - 1] = s[x]
    PROVE  SectionAt(p, next, section, events)
<1> DEFINE n == Len(section.pairs)
<1>1. /\ n \in Nat /\ Len(s) = 2 * n + 3
      /\ s[1] = section.name /\ s[2] = Other /\ s[2 * n + 3] = Other
      /\ \A j \in 1 .. n : s[2 * j + 1] = section.pairs[j][1] /\ s[2 * j + 2] = section.pairs[j][2]
    BY DEF SectionIn
<1> HIDE DEF n
<1>2. next = p + 2 * n + 3 /\ next - 1 = p + (2 * n + 3) - 1
    BY <1>1
<1>3. 1 \in 1 .. Len(s) /\ 2 \in 1 .. Len(s) /\ 2 * n + 3 \in 1 .. Len(s)
    BY <1>1
<1>4. events[p] = section.name /\ events[p + 1] = Other /\ events[next - 1] = Other
  <2>1. p + 1 - 1 = p /\ p + 2 - 1 = p + 1
      OBVIOUS
  <2>2. events[p + 1 - 1] = s[1] /\ events[p + 2 - 1] = s[2] /\ events[p + (2 * n + 3) - 1] = s[2 * n + 3]
      BY <1>3
  <2>3. QED  BY <1>1, <1>2, <2>1, <2>2
<1>5. ASSUME NEW j \in 1 .. n
      PROVE  events[p + 2 * j] = section.pairs[j][1] /\ events[p + 2 * j + 1] = section.pairs[j][2]
  <2>1. /\ 2 * j + 1 \in 1 .. Len(s) /\ p + (2 * j + 1) - 1 = p + 2 * j
        /\ 2 * j + 2 \in 1 .. Len(s) /\ p + (2 * j + 2) - 1 = p + 2 * j + 1
    <3> DEFINE l == Len(s)
    <3>1. l = 2 * n + 3 /\ n \in Nat /\ j \in Nat /\ 1 <= j /\ j <= n  BY <1>1
    <3> HIDE DEF l
    <3>2. 2 * j + 1 \in 1 .. l /\ 2 * j + 2 \in 1 .. l  BY <3>1
    <3>3. p + (2 * j + 1) - 1 = p + 2 * j /\ p + (2 * j + 2) - 1 = p + 2 * j + 1  BY <3>1
    <3>4. QED  BY <3>2, <3>3 DEF l
  <2>2. events[p + (2 * j + 1) - 1] = s[2 * j + 1] /\ events[p + (2 * j + 2) - 1] = s[2 * j + 2]
      BY <2>1
  <2>3. QED  BY <1>1, <2>1, <2>2
<1>6. QED  BY <1>2, <1>4, <1>5 DEF SectionAt, n

\* libyaml's events of a document without lists have such a layout.
LEMMA EventsStand ==
    ASSUME NEW doc \in Seq(Section), \A i \in DOMAIN doc : FlatSection(doc[i])
    PROVE  \E off : Layout(off, doc, Events(doc))
<1> DEFINE n == Len(doc)
           seqs == [i \in DOMAIN doc |-> SectionEvents(doc[i])]
           middle == FlattenSeq(seqs)
           events == Events(doc)
<1>1. n \in Nat /\ DOMAIN doc = 1 .. n /\ \A i \in 1 .. n : doc[i] \in Section
    OBVIOUS
<1>2. ASSUME NEW i \in 1 .. n PROVE SectionIn(doc[i], seqs[i])
    BY <1>1, SectionStands
<1>3. seqs \in [1 .. n -> Seq(Texts)]
    BY <1>1, <1>2 DEF SectionIn
<1>4. events = <<Other, Other, Other>> \o middle \o <<Other, Other>>
    BY DEF Events
<1> HIDE DEF n, seqs
<1>5. \A T : seqs \in [1 .. n -> T] => seqs \in Seq(T)
    BY <1>1
<1>6. seqs \in Seq(Seq(Texts)) /\ Len(seqs) = n
    BY <1>1, <1>3, <1>5
<1>7. PICK from : Parts(from, seqs, middle)
    BY <1>6, FlattenParts
<1>8. middle \in Seq(Texts)
    BY <1>6, FlattenTyped
<1> HIDE DEF middle, events
<1>9. /\ Len(events) = Len(middle) + 5
      /\ \A p \in 1 .. 3 : events[p] = Other
      /\ \A p \in 1 .. Len(middle) : events[3 + p] = middle[p]
      /\ events[Len(middle) + 4] = Other /\ events[Len(middle) + 5] = Other
  <2> DEFINE a == <<Other, Other, Other>>
             c == <<Other, Other>>
  <2>1. /\ a \in Seq(Texts) /\ Len(a) = 3 /\ (\A p \in 1 .. 3 : a[p] = Other)
        /\ c \in Seq(Texts) /\ Len(c) = 2 /\ c[1] = Other /\ c[2] = Other
    <3>1. Other \in Texts  BY DEF Texts
    <3>2. QED  BY <3>1, ShortSeqs
  <2>2. events = a \o middle \o c
      BY <1>4
  <2> HIDE DEF a, c
  <2>3. /\ Len(a \o middle \o c) = Len(a) + Len(middle) + Len(c)
        /\ \A i \in 1 .. Len(a) : (a \o middle \o c)[i] = a[i]
        /\ \A i \in 1 .. Len(middle) : (a \o middle \o c)[Len(a) + i] = middle[i]
        /\ \A i \in 1 .. Len(c) : (a \o middle \o c)[Len(a) + Len(middle) + i] = c[i]
    <3>1. a \in Seq(Texts) /\ c \in Seq(Texts)  BY <2>1
    <3>2. QED  BY <1>8, <3>1, Between
  <2>4. Len(middle) \in Nat  BY <1>8
  <2>5. /\ Len(events) = 3 + Len(middle) + 2
        /\ \A i \in 1 .. 3 : events[i] = a[i]
        /\ \A i \in 1 .. Len(middle) : events[3 + i] = middle[i]
        /\ \A i \in 1 .. 2 : events[3 + Len(middle) + i] = c[i]
      BY <2>1, <2>2, <2>3
  <2>6. 3 + Len(middle) + 1 = Len(middle) + 4 /\ 3 + Len(middle) + 2 = Len(middle) + 5
      BY <2>4
  <2>7. events[3 + Len(middle) + 1] = c[1] /\ events[3 + Len(middle) + 2] = c[2]
      BY <2>5
  <2>8. QED  BY <2>1, <2>5, <2>6, <2>7
<1>10. /\ from \in [1 .. n + 1 -> Nat] /\ from[1] = 0 /\ Len(middle) = from[n + 1]
       /\ \A k \in 1 .. n : /\ from[k + 1] = from[k] + Len(seqs[k])
                            /\ \A x \in 1 .. Len(seqs[k]) : middle[from[k] + x] = seqs[k][x]
    BY <1>6, <1>7 DEF Parts
<1>11. ASSUME NEW i \in 1 .. n
       PROVE  SectionAt(from[i] + 4, from[i + 1] + 4, doc[i], events)
  <2> DEFINE s == seqs[i]
             p == from[i]
             next == from[i + 1]
  <2>1. i \in 1 .. n + 1 /\ i + 1 \in 1 .. n + 1 /\ n + 1 \in 1 .. n + 1 /\ i + 1 <= n + 1
      BY <1>1
  <2>2. SectionIn(doc[i], s) /\ Len(s) \in Nat
      BY <1>2 DEF SectionIn
  <2>3. p \in Nat /\ next \in Nat /\ next = p + Len(s) /\ \A x \in 1 .. Len(s) : middle[p + x] = s[x]
      BY <1>10, <2>1
  <2>4. next <= Len(middle) /\ Len(middle) \in Nat
    <3>1. \A k \in 1 .. n : from[k] <= from[k + 1]
      <4> TAKE k \in 1 .. n
      <4>1. Len(seqs[k]) \in Nat /\ from[k] \in Nat  BY <1>1, <1>2, <1>10 DEF SectionIn
      <4>2. from[k + 1] = from[k] + Len(seqs[k])  BY <1>10
      <4>3. QED  BY <4>1, <4>2
    <3>2. from[i + 1] <= from[n + 1]
        BY <1>1, <1>10, <2>1, <3>1, PartsGrow
    <3>3. QED  BY <1>8, <1>10, <3>2
  <2> HIDE DEF s, p, next
  <2>5. ASSUME NEW x \in 1 .. Len(s) PROVE events[(p + 4) + x - 1] = s[x]
    <3>1. p + x \in 1 .. Len(middle) /\ (p + 4) + x - 1 = 3 + (p + x)
        BY <2>2, <2>3, <2>4
    <3>2. QED  BY <1>9, <2>3, <3>1
  <2>6. p + 4 \in Nat /\ next + 4 = (p + 4) + Len(s)
      BY <2>2, <2>3
  <2>7. SectionAt(p + 4, next + 4, doc[i], events)
      BY <2>2, <2>5, <2>6, SectionThere
  <2>8. QED  BY <2>7 DEF p, next
<1> DEFINE off == [k \in 1 .. n + 1 |-> from[k] + 4]
<1>12. /\ off \in [1 .. n + 1 -> Nat] /\ off[1] = 4 /\ off[n + 1] = Len(middle) + 4
       /\ \A i \in 1 .. n : SectionAt(off[i], off[i + 1], doc[i], events)
  <2>1. \A i \in 1 .. n : off[i] = from[i] + 4 /\ off[i + 1] = from[i + 1] + 4
      BY <1>1
  <2>2. off \in [1 .. n + 1 -> Nat] /\ off[1] = 4 /\ off[n + 1] = Len(middle) + 4
      BY <1>1, <1>10
  <2> HIDE DEF off
  <2>3. QED  BY <1>11, <2>1, <2>2
<1> HIDE DEF off
<1>13. Layout(off, doc, events)
  <2>1. Len(events) = off[n + 1] + 1 /\ events[off[n + 1]] = Other /\ events[off[n + 1] + 1] = Other
    <3>1. Len(middle) \in Nat  BY <1>8
    <3>2. QED  BY <1>9, <1>12, <3>1
  <2>2. QED  BY <1>9, <1>12, <2>1 DEF Layout, n
<1>14. QED  BY <1>13 DEF events

\* Pair j of section i gives the field f its value.
Gives(doc, f, i, j) ==
    /\ i \in 1 .. Len(doc) /\ j \in 1 .. Len(doc[i].pairs)
    /\ doc[i].name = f[1] /\ doc[i].pairs[j][1] = f[2]

\* The reader is at p, in a section or between two of them.
Inside(off, doc, p, latest) ==
    \E i \in 1 .. Len(doc) : \E j \in 1 .. Len(doc[i].pairs) + 1 :
        p = off[i] + 2 * j /\ latest = doc[i].name
Outside(off, doc, p) ==
    \/ p \in 1 .. 3
    \/ \E i \in 1 .. Len(doc) + 1 : p = off[i]
    \/ p = off[Len(doc) + 1] + 1 \/ p = off[Len(doc) + 1] + 2

\* The field f has the value that it was given last before p.
LastBefore(off, doc, f, p, v) ==
    \/ v = 0 /\ \A i, j : Gives(doc, f, i, j) => off[i] + 2 * j >= p
    \/ \E i, j : /\ Gives(doc, f, i, j) /\ off[i] + 2 * j < p /\ v = off[i] + 2 * j + 1
                 /\ \A k, l : Gives(doc, f, k, l) /\ off[k] + 2 * l < p
                                => off[k] + 2 * l <= off[i] + 2 * j

\* A document without lists, and where it stands.
Placed(off, doc, events) ==
    /\ doc \in Seq(Section) /\ \A i \in DOMAIN doc : FlatSection(doc[i])
    /\ Layout(off, doc, events)

\* Where section i stands, and what its name and pairs are.
Span(off, doc, events, i) ==
    /\ Len(doc[i].pairs) \in Nat /\ off[i] \in Nat /\ off[i + 1] \in Nat
    /\ off[i] >= 4 /\ off[i + 1] = off[i] + 2 * Len(doc[i].pairs) + 3
    /\ off[i + 1] < Len(events) /\ Len(events) \in Nat
    /\ doc[i].name # Other
    /\ \A j \in 1 .. Len(doc[i].pairs) : /\ doc[i].pairs[j] \in Keyed
                                         /\ doc[i].pairs[j][1] # Other /\ doc[i].pairs[j][2] # Other

LEMMA SectionSpan ==
    ASSUME NEW off, NEW doc, NEW events, Placed(off, doc, events), NEW i \in 1 .. Len(doc)
    PROVE  Span(off, doc, events, i)
<1> DEFINE n == Len(doc)
<1>1. /\ n \in Nat /\ DOMAIN doc = 1 .. n /\ \A k \in 1 .. n : doc[k] \in Section /\ FlatSection(doc[k])
      /\ Layout(off, doc, events)
    BY DEF Placed
<1>2. \A k \in 1 .. n : Len(doc[k].pairs) \in Nat
    BY <1>1 DEF Section
<1>3. /\ off \in [1 .. n + 1 -> Nat] /\ off[1] = 4 /\ Len(events) = off[n + 1] + 1
      /\ \A k \in 1 .. n : off[k + 1] = off[k] + 2 * Len(doc[k].pairs) + 3
    BY <1>1 DEF Layout, SectionAt
<1> HIDE DEF n
<1>4. \A k \in 1 .. n : off[k] <= off[k + 1]
  <2> TAKE k \in 1 .. n
  <2>1. off[k] \in Nat
    <3>1. k \in 1 .. n + 1  BY <1>1
    <3>2. QED  BY <1>3, <3>1
  <2>2. off[k + 1] = off[k] + 2 * Len(doc[k].pairs) + 3 /\ Len(doc[k].pairs) \in Nat
      BY <1>2, <1>3
  <2>3. QED  BY <2>1, <2>2
<1>5. i \in 1 .. n
    BY DEF n
<1>6. /\ 1 \in 1 .. n + 1 /\ i \in 1 .. n + 1 /\ i + 1 \in 1 .. n + 1 /\ n + 1 \in 1 .. n + 1
      /\ 1 <= i /\ i + 1 <= n + 1
    BY <1>1, <1>5
<1>7. off[1] <= off[i] /\ off[i + 1] <= off[n + 1]
  <2>1. off[1] <= off[i]  BY <1>1, <1>3, <1>4, <1>6, PartsGrow
  <2>2. off[i + 1] <= off[n + 1]  BY <1>1, <1>3, <1>4, <1>6, PartsGrow
  <2>3. QED  BY <2>1, <2>2
<1>8. off[i] \in Nat /\ off[i + 1] \in Nat /\ off[n + 1] \in Nat
    BY <1>3, <1>6
<1>9. off[i] >= 4 /\ off[i + 1] < Len(events) /\ Len(events) \in Nat
    BY <1>3, <1>7, <1>8
<1>10. doc[i] \in Section /\ FlatSection(doc[i])
    BY <1>1, <1>5
<1>11. doc[i].name # Other /\ doc[i].pairs \in Seq(Keyed)
    BY <1>10 DEF Section
<1>12. \A j \in 1 .. Len(doc[i].pairs) : doc[i].pairs[j] \in Keyed /\ doc[i].pairs[j][2] # Other
    BY <1>10, <1>11 DEF FlatSection
<1>13. \A pair \in Keyed : pair[1] # Other
    BY DEF Keyed
<1>14. off[i + 1] = off[i] + 2 * Len(doc[i].pairs) + 3 /\ Len(doc[i].pairs) \in Nat
    BY <1>2, <1>3, <1>5
<1>15. \A j \in 1 .. Len(doc[i].pairs) : /\ doc[i].pairs[j] \in Keyed
                                         /\ doc[i].pairs[j][1] # Other /\ doc[i].pairs[j][2] # Other
    BY <1>12, <1>13, Zenon
<1>16. QED  BY <1>8, <1>9, <1>11, <1>14, <1>15 DEF Span

\* Sections stand in the order of the document.
LEMMA SectionsApart ==
    ASSUME NEW off, NEW doc, NEW events, Placed(off, doc, events),
           NEW i \in 1 .. Len(doc), NEW k \in 1 .. Len(doc), i < k
    PROVE  off[i + 1] <= off[k]
<1> DEFINE n == Len(doc)
<1>1. n \in Nat /\ off \in [1 .. n + 1 -> Nat]
  <2>1. doc \in Seq(Section) /\ Layout(off, doc, events)  BY DEF Placed
  <2>2. n \in Nat  BY <2>1
  <2> HIDE DEF n
  <2>3. Layout(off, doc, events) /\ Len(doc) = n  BY <2>1 DEF n
  <2>4. QED  BY <2>2, <2>3 DEF Layout
<1>2. \A m \in 1 .. n : off[m] <= off[m + 1]
  <2> TAKE m \in 1 .. n
  <2>1. off[m] \in Nat /\ off[m + 1] = off[m] + 2 * Len(doc[m].pairs) + 3 /\ Len(doc[m].pairs) \in Nat
      BY SectionSpan DEF Span
  <2>2. QED  BY <2>1
<1>3. i + 1 \in 1 .. n + 1 /\ k \in 1 .. n + 1 /\ i + 1 <= k
    BY <1>1
<1> DEFINE a == i + 1
<1>4. a \in 1 .. n + 1 /\ a <= k
    BY <1>3
<1> HIDE DEF n, a
<1>5. off[a] <= off[k]
  <2>1. k \in 1 .. n + 1  BY <1>3
  <2>2. QED  BY <1>1, <1>2, <1>4, <2>1, PartsGrow, Zenon
<1>6. QED  BY <1>5 DEF a

\* The key of a pair, and its value.
LEMMA KeyThere ==
    ASSUME NEW off, NEW doc, NEW events, Placed(off, doc, events),
           NEW i \in 1 .. Len(doc), NEW j \in 1 .. Len(doc[i].pairs)
    PROVE  /\ j \in Nat /\ off[i] + 2 * j \in Nat /\ off[i] + 2 * j + 1 \in Nat
           /\ off[i] + 2 * j + 1 < Len(events)
           /\ events[off[i] + 2 * j] = doc[i].pairs[j][1]
           /\ events[off[i] + 2 * j + 1] = doc[i].pairs[j][2]
           /\ events[off[i] + 2 * j] # Other /\ events[off[i] + 2 * j + 1] # Other
<1>1. /\ Len(doc[i].pairs) \in Nat /\ off[i] \in Nat /\ off[i + 1] = off[i] + 2 * Len(doc[i].pairs) + 3
      /\ off[i + 1] < Len(events) /\ Len(events) \in Nat
      /\ doc[i].pairs[j][1] # Other /\ doc[i].pairs[j][2] # Other
  <2>1. Span(off, doc, events, i)  BY SectionSpan
  <2>2. QED  BY <2>1 DEF Span
<1>2. SectionAt(off[i], off[i + 1], doc[i], events)
    BY DEF Placed, Layout
<1>3. events[off[i] + 2 * j] = doc[i].pairs[j][1] /\ events[off[i] + 2 * j + 1] = doc[i].pairs[j][2]
    BY <1>2 DEF SectionAt
<1>4. j \in Nat /\ 1 <= j /\ j <= Len(doc[i].pairs)
    BY <1>1
<1> DEFINE m == Len(doc[i].pairs)
           p == off[i]
<1>5. /\ m \in Nat /\ p \in Nat /\ j \in Nat /\ j <= m /\ Len(events) \in Nat
      /\ p + 2 * m + 3 < Len(events)
    BY <1>1, <1>4
<1> HIDE DEF m, p
<1>6. p + 2 * j \in Nat /\ p + 2 * j + 1 \in Nat /\ p + 2 * j + 1 < Len(events)
    BY <1>5
<1>7. QED  BY <1>1, <1>3, <1>4, <1>6 DEF p

\* Pairs stand in the order of the document, two places apart at least.
LEMMA KeysApart ==
    ASSUME NEW off, NEW doc, NEW events, Placed(off, doc, events),
           NEW i \in 1 .. Len(doc), NEW j \in 1 .. Len(doc[i].pairs),
           NEW k \in 1 .. Len(doc), NEW l \in 1 .. Len(doc[k].pairs),
           i < k \/ (i = k /\ j < l)
    PROVE  off[i] + 2 * j + 1 < off[k] + 2 * l
<1>1. /\ off[i] \in Nat /\ off[k] \in Nat /\ j \in Nat /\ l \in Nat /\ l >= 1
      /\ Len(doc[i].pairs) \in Nat /\ j <= Len(doc[i].pairs)
      /\ off[i + 1] = off[i] + 2 * Len(doc[i].pairs) + 3
  <2>1. Span(off, doc, events, i) /\ Span(off, doc, events, k)  BY SectionSpan
  <2>2. off[k] \in Nat /\ Len(doc[k].pairs) \in Nat  BY <2>1 DEF Span
  <2>3. QED  BY <2>1, <2>2 DEF Span
<1>2. CASE i = k /\ j < l  BY <1>1, <1>2
<1>3. CASE i < k
  <2>1. off[i + 1] <= off[k]  BY <1>3, SectionsApart
  <2> DEFINE m == Len(doc[i].pairs)
             p == off[i]
             q == off[k]
  <2>2. p \in Nat /\ q \in Nat /\ m \in Nat /\ j <= m /\ p + 2 * m + 3 <= q
      BY <1>1, <2>1
  <2> HIDE DEF m, p, q
  <2>3. p + 2 * j + 1 < q + 2 * l
      BY <1>1, <2>2
  <2>4. QED  BY <2>3 DEF p, q
<1>4. QED  BY <1>2, <1>3

\* Where the sections of the file that is read stand.
Off == CHOOSE off : Layout(off, file.doc, file.events)

\* No pair that gives f a value has its key there.
NoneWithin(off, doc, f, p, next) ==
    \A i, j : Gives(doc, f, i, j) => /\ off[i] + 2 * j \in Nat
                                     /\ off[i] + 2 * j < p \/ off[i] + 2 * j >= next

\* The reader goes from p to next and meets no value for f.
LEMMA LastStays ==
    ASSUME NEW off, NEW doc, NEW f, NEW v, NEW p \in Nat, NEW next \in Nat, p <= next,
           LastBefore(off, doc, f, p, v), NoneWithin(off, doc, f, p, next)
    PROVE  LastBefore(off, doc, f, next, v)
<1> USE DEF NoneWithin
<1>1. CASE v = 0 /\ \A i, j : Gives(doc, f, i, j) => off[i] + 2 * j >= p
  <2>1. ASSUME NEW i, NEW j, Gives(doc, f, i, j) PROVE off[i] + 2 * j >= next
    <3> DEFINE q == off[i] + 2 * j
    <3>1. q \in Nat /\ q >= p /\ (q < p \/ q >= next)  BY <1>1, <2>1
    <3> HIDE DEF q
    <3>2. q >= next  BY <3>1
    <3>3. QED  BY <3>2 DEF q
  <2>2. QED  BY <1>1, <2>1 DEF LastBefore
<1>2. CASE \E i, j : /\ Gives(doc, f, i, j) /\ off[i] + 2 * j < p /\ v = off[i] + 2 * j + 1
                     /\ \A k, l : Gives(doc, f, k, l) /\ off[k] + 2 * l < p
                                    => off[k] + 2 * l <= off[i] + 2 * j
  <2>1. PICK i, j : /\ Gives(doc, f, i, j) /\ off[i] + 2 * j < p /\ v = off[i] + 2 * j + 1
                    /\ \A k, l : Gives(doc, f, k, l) /\ off[k] + 2 * l < p
                                   => off[k] + 2 * l <= off[i] + 2 * j
      BY <1>2
  <2>2. off[i] + 2 * j < next
    <3> DEFINE q == off[i] + 2 * j
    <3>1. q \in Nat /\ q < p  BY <2>1
    <3> HIDE DEF q
    <3>2. q < next  BY <3>1
    <3>3. QED  BY <3>2 DEF q
  <2>3. ASSUME NEW k, NEW l, Gives(doc, f, k, l), off[k] + 2 * l < next
        PROVE  off[k] + 2 * l <= off[i] + 2 * j
    <3>1. off[k] + 2 * l < p
      <4> DEFINE q == off[k] + 2 * l
      <4>1. q \in Nat /\ q < next /\ (q < p \/ q >= next)  BY <2>3
      <4> HIDE DEF q
      <4>2. q < p  BY <4>1
      <4>3. QED  BY <4>2 DEF q
    <3>2. QED  BY <2>1, <2>3, <3>1
  <2>4. QED  BY <2>1, <2>2, <2>3 DEF LastBefore
<1>3. QED  BY <1>1, <1>2 DEF LastBefore

\* Of two pairs, one stands before the other or they are the same.
LEMMA OneKey ==
    ASSUME NEW off, NEW doc, NEW events, Placed(off, doc, events),
           NEW i \in 1 .. Len(doc), NEW j \in 1 .. Len(doc[i].pairs),
           NEW k \in 1 .. Len(doc), NEW l \in 1 .. Len(doc[k].pairs)
    PROVE  \/ i = k /\ j = l
           \/ off[k] + 2 * l + 1 < off[i] + 2 * j /\ (k < i \/ (k = i /\ l < j))
           \/ off[i] + 2 * j + 1 < off[k] + 2 * l /\ (i < k \/ (i = k /\ j < l))
<1>1. j \in Nat /\ l \in Nat /\ i \in Nat /\ k \in Nat
    BY KeyThere
<1>2. CASE i < k \/ (i = k /\ j < l)  BY <1>2, KeysApart
<1>3. CASE k < i \/ (k = i /\ l < j)  BY <1>3, KeysApart
<1>4. CASE i = k /\ j = l  BY <1>4
<1>5. QED  BY <1>1, <1>2, <1>3, <1>4

\* The value of the pair at p is taken: it is the last so far.
LEMMA LastTaken ==
    ASSUME NEW off, NEW doc, NEW events, Placed(off, doc, events), NEW f,
           NEW i, NEW j, Gives(doc, f, i, j), NEW p, p = off[i] + 2 * j
    PROVE  LastBefore(off, doc, f, p + 2, p + 1)
<1>1. i \in 1 .. Len(doc) /\ j \in 1 .. Len(doc[i].pairs)
    BY DEF Gives
<1>2. p \in Nat
    BY <1>1, KeyThere
<1>3. ASSUME NEW k, NEW l, Gives(doc, f, k, l), off[k] + 2 * l < p + 2 PROVE off[k] + 2 * l <= p
  <2>1. k \in 1 .. Len(doc) /\ l \in 1 .. Len(doc[k].pairs)
      BY <1>3 DEF Gives
  <2> DEFINE q == off[k] + 2 * l
  <2>2. q \in Nat
      BY <2>1, KeyThere
  <2>3. q = p \/ q + 1 < p \/ p + 1 < q
      BY <1>1, <2>1, OneKey
  <2> HIDE DEF q
  <2>4. q < p + 2
      BY <1>3 DEF q
  <2>5. q <= p
      BY <1>2, <2>2, <2>3, <2>4
  <2>6. QED  BY <2>5 DEF q
<1>4. p < p + 2
    BY <1>2
<1>5. QED  BY <1>3, <1>4 DEF LastBefore

\* At the end of the file the field has what the file says.
LEMMA LastIsSaid ==
    ASSUME NEW f, Placed(Off, file.doc, file.events), NEW v,
           NEW p, LastBefore(Off, file.doc, f, p, v), p \in Nat, p > Len(file.events),
           config[f] = v
    PROVE  Text(f) = Said(f[1], f[2])
<1> DEFINE doc == file.doc
           events == file.events
           given == Given(f[1], f[2])
<1>1. \A i, j : Gives(doc, f, i, j) =>
          /\ i \in 1 .. Len(doc) /\ j \in 1 .. Len(doc[i].pairs)
          /\ Off[i] + 2 * j \in Nat /\ Off[i] + 2 * j < p /\ j \in 1 .. Len(events)
          /\ events[Off[i] + 2 * j + 1] = doc[i].pairs[j][2]
          /\ Off[i] + 2 * j + 1 # 0
  <2> SUFFICES ASSUME NEW i, NEW j, Gives(doc, f, i, j)
               PROVE  /\ i \in 1 .. Len(doc) /\ j \in 1 .. Len(doc[i].pairs)
                      /\ Off[i] + 2 * j \in Nat /\ Off[i] + 2 * j < p /\ j \in 1 .. Len(events)
                      /\ events[Off[i] + 2 * j + 1] = doc[i].pairs[j][2]
                      /\ Off[i] + 2 * j + 1 # 0
      OBVIOUS
  <2>1. i \in 1 .. Len(doc) /\ j \in 1 .. Len(doc[i].pairs)
      BY DEF Gives
  <2>2. /\ j \in Nat /\ Off[i] + 2 * j \in Nat /\ Off[i] + 2 * j + 1 < Len(events)
        /\ events[Off[i] + 2 * j + 1] = doc[i].pairs[j][2]
    <3> DEFINE off == Off
    <3>1. Placed(off, doc, events)
        OBVIOUS
    <3> HIDE DEF doc, events, off
    <3>2. /\ j \in Nat /\ off[i] + 2 * j \in Nat /\ off[i] + 2 * j + 1 < Len(events)
          /\ events[off[i] + 2 * j + 1] = doc[i].pairs[j][2]
        BY <2>1, <3>1, KeyThere
    <3>3. QED  BY <3>2 DEF off
  <2>3. Off[i] \in Nat /\ Len(events) \in Nat /\ j >= 1
      BY <2>1, SectionSpan DEF Span
  <2> DEFINE o == Off[i]
  <2> HIDE DEF o, events
  <2>4. /\ o \in Nat /\ Len(events) \in Nat /\ j >= 1 /\ j \in Nat /\ o + 2 * j + 1 < Len(events)
        /\ p > Len(events)
      BY <2>2, <2>3 DEF o, events
  <2>5. o + 2 * j < p /\ j \in 1 .. Len(events) /\ o + 2 * j + 1 # 0
      BY <2>4
  <2>6. QED  BY <2>1, <2>2, <2>5 DEF o
<1>2. DOMAIN doc = 1 .. Len(doc) /\ \A i \in 1 .. Len(doc) : DOMAIN doc[i].pairs = 1 .. Len(doc[i].pairs)
  <2>1. doc \in Seq(Section)  BY DEF Placed
  <2>2. DOMAIN doc = 1 .. Len(doc) /\ \A i \in 1 .. Len(doc) : doc[i] \in Section  BY <2>1
  <2>3. \A s \in Section : DOMAIN s.pairs = 1 .. Len(s.pairs)  BY DEF Section
  <2>4. QED  BY <2>2, <2>3
<1>3. \A i, j : <<i, j>> \in given <=> Gives(doc, f, i, j)
  <2> SUFFICES ASSUME NEW i, NEW j PROVE <<i, j>> \in given <=> Gives(doc, f, i, j)
      OBVIOUS
  <2>1. <<i, j>> \in given <=> /\ i \in DOMAIN doc /\ j \in 1 .. Len(events)
                               /\ doc[i].name = f[1] /\ j \in DOMAIN doc[i].pairs
                               /\ doc[i].pairs[j][1] = f[2]
      BY DEF Given
  <2>2. QED  BY <1>1, <1>2, <2>1 DEF Gives
<1>4. \A place \in given : place = <<place[1], place[2]>>
    BY DEF Given
<1> HIDE DEF given
<1>5. CASE v = 0 /\ \A i, j : Gives(doc, f, i, j) => Off[i] + 2 * j >= p
  <2>1. \A i, j : ~Gives(doc, f, i, j)
    <3> SUFFICES ASSUME NEW i, NEW j, Gives(doc, f, i, j) PROVE FALSE
        OBVIOUS
    <3> DEFINE q == Off[i] + 2 * j
    <3>1. q \in Nat /\ q < p /\ q >= p  BY <1>1, <1>5
    <3> HIDE DEF q
    <3>2. QED  BY <3>1
  <2>2. given = {}
      BY <1>3, <1>4, <2>1
  <2>3. QED  BY <1>5, <2>2 DEF Text, Said, given
<1>6. CASE \E i, j : /\ Gives(doc, f, i, j) /\ Off[i] + 2 * j < p /\ v = Off[i] + 2 * j + 1
                     /\ \A k, l : Gives(doc, f, k, l) /\ Off[k] + 2 * l < p
                                    => Off[k] + 2 * l <= Off[i] + 2 * j
  <2>1. PICK i, j : /\ Gives(doc, f, i, j) /\ v = Off[i] + 2 * j + 1
                    /\ \A k, l : Gives(doc, f, k, l) /\ Off[k] + 2 * l < p
                                   => Off[k] + 2 * l <= Off[i] + 2 * j
      BY <1>6
  <2>2. ASSUME NEW k, NEW l, Gives(doc, f, k, l)
        PROVE  k < i \/ (k = i /\ l <= j)
    <3>1. /\ Off[k] + 2 * l \in Nat /\ Off[k] + 2 * l <= Off[i] + 2 * j /\ Off[i] + 2 * j \in Nat
          /\ k \in 1 .. Len(doc) /\ l \in 1 .. Len(doc[k].pairs)
          /\ i \in 1 .. Len(doc) /\ j \in 1 .. Len(doc[i].pairs)
        BY <1>1, <2>1, <2>2
    <3>2. \/ i = k /\ j = l
          \/ k < i \/ (k = i /\ l < j)
          \/ Off[i] + 2 * j + 1 < Off[k] + 2 * l
        BY <3>1, OneKey
    <3>3. j \in Nat /\ l \in Nat
        BY <3>1, KeyThere
    <3> DEFINE a == Off[i] + 2 * j
               b == Off[k] + 2 * l
    <3>4. a \in Nat /\ b \in Nat /\ b <= a  BY <3>1
    <3> HIDE DEF a, b
    <3>5. ~(a + 1 < b)  BY <3>4
    <3>6. QED  BY <3>2, <3>3, <3>5 DEF a, b
  <2>3. i \in Nat /\ j \in Nat /\ \A k, l : Gives(doc, f, k, l) => k \in Nat /\ l \in Nat
    <3>1. \A k, l : Gives(doc, f, k, l) => k \in Nat /\ l \in Nat
      <4> SUFFICES ASSUME NEW k, NEW l, Gives(doc, f, k, l) PROVE k \in Nat /\ l \in Nat
          OBVIOUS
      <4>1. k \in 1 .. Len(doc) /\ l \in 1 .. Len(doc[k].pairs)  BY <1>1
      <4>2. QED  BY <4>1, KeyThere
    <3>2. QED  BY <2>1, <3>1
  <2>4. <<i, j>> \in given /\ given # {}
      BY <1>3, <2>1
  <2>5. LastPlace(given) = <<i, j>>
    <3> DEFINE last(l) == \A o \in given : o[1] < l[1] \/ (o[1] = l[1] /\ o[2] <= l[2])
    <3>1. last(<<i, j>>)
      <4> SUFFICES ASSUME NEW o \in given PROVE o[1] < i \/ (o[1] = i /\ o[2] <= j)
          OBVIOUS
      <4>1. Gives(doc, f, o[1], o[2])  BY <1>3, <1>4
      <4>2. QED  BY <2>2, <4>1
    <3>2. ASSUME NEW l \in given, last(l) PROVE l = <<i, j>>
      <4>1. l = <<l[1], l[2]>> /\ Gives(doc, f, l[1], l[2])
          BY <1>3, <1>4
      <4>2. l[1] < i \/ (l[1] = i /\ l[2] <= j)
          BY <2>2, <4>1
      <4>3. i < l[1] \/ (i = l[1] /\ j <= l[2])
        <5>1. <<i, j>>[1] = i /\ <<i, j>>[2] = j  OBVIOUS
        <5>2. QED  BY <2>4, <3>2, <5>1
      <4>4. l[1] \in Nat /\ l[2] \in Nat /\ i \in Nat /\ j \in Nat
          BY <2>3, <4>1
      <4>5. l[1] = i /\ l[2] = j
          BY <4>2, <4>3, <4>4
      <4>6. QED  BY <4>1, <4>5
    <3> HIDE DEF last
    <3>3. (CHOOSE l \in given : last(l)) = <<i, j>>
        BY <2>4, <3>1, <3>2
    <3>4. QED  BY <3>3 DEF LastPlace, last
  <2>6. Said(f[1], f[2]) = doc[i].pairs[j][2]
    <3>1. <<i, j>>[1] = i /\ <<i, j>>[2] = j  OBVIOUS
    <3>2. QED  BY <2>4, <2>5, <3>1 DEF Said, given
  <2>7. Text(f) = events[Off[i] + 2 * j + 1] /\ events[Off[i] + 2 * j + 1] = doc[i].pairs[j][2]
      BY <1>1, <2>1 DEF Text
  <2>8. QED  BY <2>6, <2>7
<1>7. QED  BY <1>5, <1>6 DEF LastBefore

\* What stands between the sections, and what the reader makes of it.
LEMMA AtBetween ==
    ASSUME NEW off, NEW doc, NEW events, Placed(off, doc, events), NEW p, Outside(off, doc, p),
           p \in 1 .. Len(events)
    PROVE  \/ events[p] = Other /\ Outside(off, doc, p + 1)
           \/ events[p] # Other /\ events[p + 1] = Other /\ Inside(off, doc, p + 2, events[p])
<1> DEFINE n == Len(doc)
           last == off[n + 1]
<1>1. /\ n \in Nat /\ off \in [1 .. n + 1 -> Nat] /\ off[1] = 4 /\ Len(events) = last + 1 /\ last \in Nat
      /\ \A q \in 1 .. 3 : events[q] = Other
      /\ events[last] = Other /\ events[last + 1] = Other
  <2>1. doc \in Seq(Section) /\ Layout(off, doc, events)  BY DEF Placed
  <2>2. n \in Nat /\ n + 1 \in 1 .. n + 1  BY <2>1
  <2> HIDE DEF n
  <2>3. Layout(off, doc, events) /\ Len(doc) = n  BY <2>1 DEF n
  <2>4. QED  BY <2>2, <2>3 DEF Layout
<1>2. CASE p \in 1 .. 3
  <2>1. p + 1 \in 1 .. 3 \/ (p + 1 = off[1] /\ 1 \in 1 .. n + 1)
      BY <1>1, <1>2
  <2>2. QED  BY <1>1, <1>2, <2>1 DEF Outside
<1>3. CASE \E i \in 1 .. n : p = off[i]
  <2>1. PICK i \in 1 .. n : p = off[i]  BY <1>3
  <2>2. SectionAt(off[i], off[i + 1], doc[i], events)
      BY DEF Placed, Layout
  <2>3. events[p] = doc[i].name /\ events[p + 1] = Other
      BY <2>1, <2>2 DEF SectionAt
  <2>4. doc[i].name # Other /\ Len(doc[i].pairs) \in Nat
      BY SectionSpan DEF Span
  <2>5. 1 \in 1 .. Len(doc[i].pairs) + 1 /\ p + 2 = off[i] + 2 * 1
      BY <2>1, <2>4
  <2>6. QED  BY <2>3, <2>4, <2>5 DEF Inside
<1>4. CASE p = last
  <2>1. p + 1 = last + 1  BY <1>4
  <2>2. QED  BY <1>1, <1>4, <2>1 DEF Outside
<1>5. CASE p = last + 1
  <2>1. p + 1 = last + 2  BY <1>1, <1>5
  <2>2. QED  BY <1>1, <1>5, <2>1 DEF Outside
<1>6. p # last + 2
    BY <1>1
<1>7. QED
  <2>1. \A i \in 1 .. n + 1 : i \in 1 .. n \/ i = n + 1  BY <1>1
  <2>2. QED  BY <1>2, <1>3, <1>4, <1>5, <1>6, <2>1 DEF Outside

\* The reader is at the end of a section, or at a pair of it.
EndOrPair(off, doc, events, p, latest) ==
    \/ events[p] = Other /\ Outside(off, doc, p + 1)
    \/ /\ events[p] # Other /\ events[p + 1] # Other /\ p + 1 \in 1 .. Len(events)
       /\ Inside(off, doc, p + 2, latest)
       /\ \E i \in 1 .. Len(doc) : \E j \in 1 .. Len(doc[i].pairs) :
             /\ p = off[i] + 2 * j /\ latest = doc[i].name
             /\ events[p] = doc[i].pairs[j][1]

\* What stands in a section.
LEMMA AtInside ==
    ASSUME NEW off, NEW doc, NEW events, Placed(off, doc, events), NEW p, NEW latest,
           Inside(off, doc, p, latest)
    PROVE  EndOrPair(off, doc, events, p, latest)
<1> USE DEF EndOrPair
<1>0. PICK i \in 1 .. Len(doc) :
          \E j \in 1 .. Len(doc[i].pairs) + 1 : p = off[i] + 2 * j /\ latest = doc[i].name
    BY DEF Inside
<1>1. PICK j \in 1 .. Len(doc[i].pairs) + 1 : p = off[i] + 2 * j /\ latest = doc[i].name
    BY <1>0
<1> DEFINE m == Len(doc[i].pairs)
<1>2. m \in Nat /\ off[i] \in Nat /\ off[i + 1] = off[i] + 2 * m + 3 /\ i \in Nat /\ Len(doc) \in Nat
  <2>1. Len(doc) \in Nat  BY DEF Placed
  <2>2. i \in Nat  BY <2>1
  <2>3. m \in Nat /\ off[i] \in Nat /\ off[i + 1] = off[i] + 2 * m + 3
      BY SectionSpan DEF Span
  <2>4. QED  BY <2>1, <2>2, <2>3
<1>3. CASE j = m + 1
  <2>1. SectionAt(off[i], off[i + 1], doc[i], events)
      BY DEF Placed, Layout
  <2>2. events[off[i + 1] - 1] = Other
      BY <2>1 DEF SectionAt
  <2> DEFINE o == off[i]
             next == off[i + 1]
  <2>3. o \in Nat /\ next = o + 2 * m + 3 /\ p = o + 2 * (m + 1) /\ m \in Nat
      BY <1>1, <1>2, <1>3
  <2> HIDE DEF m, o, next
  <2>4. p = next - 1 /\ p + 1 = next
      BY <2>3
  <2>5. i + 1 \in 1 .. Len(doc) + 1
      BY <1>2
  <2>6. QED  BY <2>2, <2>4, <2>5 DEF Outside, next
<1>4. CASE j # m + 1
  <2>1. j \in 1 .. m /\ j + 1 \in 1 .. m + 1
    <3>1. m \in Nat /\ j \in 1 .. m + 1 /\ j # m + 1  BY <1>2, <1>4
    <3> HIDE DEF m
    <3>2. QED  BY <3>1
  <2>2. /\ j \in Nat /\ off[i] + 2 * j + 1 < Len(events) /\ off[i] + 2 * j \in Nat
        /\ events[off[i] + 2 * j] = doc[i].pairs[j][1]
        /\ events[off[i] + 2 * j] # Other /\ events[off[i] + 2 * j + 1] # Other
      BY <2>1, KeyThere
  <2>3. Len(events) \in Nat
      BY SectionSpan DEF Span
  <2> DEFINE o == off[i]
  <2>4. o \in Nat /\ p = o + 2 * j /\ j \in Nat /\ o + 2 * j + 1 < Len(events)
      BY <1>1, <1>2, <2>2
  <2> HIDE DEF o
  <2>5. p + 2 = o + 2 * (j + 1) /\ p + 1 = o + 2 * j + 1 /\ p + 1 \in 1 .. Len(events)
      BY <2>3, <2>4
  <2>6. Inside(off, doc, p + 2, latest)
      BY <1>1, <2>1, <2>5 DEF Inside, o
  <2>7. QED  BY <1>1, <2>1, <2>2, <2>5, <2>6 DEF o
<1>5. QED  BY <1>3, <1>4

\* And neither place is beyond the end.
LEMMA WithinFile ==
    ASSUME NEW off, NEW doc, NEW events, Placed(off, doc, events), NEW p, NEW latest,
           Outside(off, doc, p) \/ Inside(off, doc, p, latest)
    PROVE  p \in Nat /\ p <= Len(events) + 1
<1> DEFINE n == Len(doc)
           last == off[n + 1]
<1>1. /\ n \in Nat /\ off \in [1 .. n + 1 -> Nat] /\ off[1] = 4 /\ Len(events) = last + 1 /\ last \in Nat
  <2>1. doc \in Seq(Section) /\ Layout(off, doc, events)  BY DEF Placed
  <2>2. n \in Nat /\ n + 1 \in 1 .. n + 1  BY <2>1
  <2> HIDE DEF n
  <2>3. Layout(off, doc, events) /\ Len(doc) = n  BY <2>1 DEF n
  <2>4. QED  BY <2>2, <2>3 DEF Layout
<1>2. \A i \in 1 .. n : /\ off[i] \in Nat /\ off[i] >= 4 /\ Len(doc[i].pairs) \in Nat
                       /\ off[i + 1] = off[i] + 2 * Len(doc[i].pairs) + 3 /\ off[i + 1] < Len(events)
    BY SectionSpan DEF Span
<1>3. last >= 4
  <2>1. CASE n = 0  BY <1>1, <2>1
  <2>2. CASE n # 0
    <3>1. n \in 1 .. n  BY <1>1, <2>2
    <3>2. QED  BY <1>1, <1>2, <3>1
  <2>3. QED  BY <2>1, <2>2
<1>4. CASE Inside(off, doc, p, latest)
  <2>1. PICK i \in 1 .. n : \E j \in 1 .. Len(doc[i].pairs) + 1 : p = off[i] + 2 * j
      BY <1>4 DEF Inside
  <2>2. PICK j \in 1 .. Len(doc[i].pairs) + 1 : p = off[i] + 2 * j
      BY <2>1
  <2> DEFINE m == Len(doc[i].pairs)
             o == off[i]
  <2>3. o \in Nat /\ m \in Nat /\ o + 2 * m + 3 < Len(events) /\ j \in 1 .. m + 1 /\ p = o + 2 * j
        /\ Len(events) \in Nat
      BY <1>1, <1>2, <2>2
  <2> HIDE DEF m, o
  <2>4. QED  BY <2>3
<1>5. CASE Outside(off, doc, p)
  <2>1. CASE p \in 1 .. 3  BY <1>1, <1>3, <2>1
  <2>2. CASE \E i \in 1 .. n : p = off[i]
    <3>1. PICK i \in 1 .. n : p = off[i]  BY <2>2
    <3> DEFINE m == Len(doc[i].pairs)
               o == off[i]
    <3>2. o \in Nat /\ m \in Nat /\ o + 2 * m + 3 < Len(events) /\ p = o /\ Len(events) \in Nat
        BY <1>1, <1>2, <3>1
    <3> HIDE DEF m, o
    <3>3. QED  BY <3>2
  <2>3. CASE p \in {last, last + 1, last + 2}  BY <1>1, <2>3
  <2>4. \A i \in 1 .. n + 1 : i \in 1 .. n \/ i = n + 1  BY <1>1
  <2>5. QED  BY <1>5, <2>1, <2>2, <2>3, <2>4 DEF Outside
<1>6. QED  BY <1>4, <1>5

\* What the reader has made of a whole file without lists.
FollowsFile ==
    file.whole /\ Flat =>
        /\ Placed(Off, file.doc, file.events)
        /\ main \in {"open", "read"} => \/ Outside(Off, file.doc, pos)
                                        \/ Inside(Off, file.doc, pos, latest_section)
        /\ Read => pos > Len(file.events)
        /\ main # "done" => \A f \in Fields : LastBefore(Off, file.doc, f, pos, config[f])

\* At the start no field has a value, and the first pair is still to come.
LEMMA InitFollows == Init => FollowsFile
<1> SUFFICES ASSUME Init, file.whole, Flat PROVE FollowsFile
    BY DEF FollowsFile
<1> USE DEF Init, ConfigInit
<1>1. PICK doc \in Documents : \E n \in 0 .. Len(Events(doc)) :
          file = [doc |-> doc, events |-> SubSeq(Events(doc), 1, n), whole |-> n = Len(Events(doc))]
    BY DEF Files
<1>2. doc \in Seq(Section)
    BY ConfigAssumption DEF Section, Keyed
<1>3. Events(doc) \in Seq(Texts)
    BY <1>2, EventsTyped
<1>4. file.doc = doc /\ file.events = Events(doc)
  <2>1. \A e \in Seq(Texts) : SubSeq(e, 1, Len(e)) = e
      OBVIOUS
  <2>2. PICK n \in 0 .. Len(Events(doc)) :
            file = [doc |-> doc, events |-> SubSeq(Events(doc), 1, n), whole |-> n = Len(Events(doc))]
      BY <1>1
  <2>3. /\ file.doc = doc /\ file.events = SubSeq(Events(doc), 1, n)
        /\ file.whole = (n = Len(Events(doc)))
      BY <2>2
  <2>4. n = Len(Events(doc))
      BY <2>3
  <2>5. QED  BY <1>3, <2>1, <2>3, <2>4
<1>5. \A i \in DOMAIN doc : FlatSection(doc[i])
    BY <1>4 DEF Flat, FlatSection
<1>6. \E off : Layout(off, doc, Events(doc))
    BY <1>2, <1>5, EventsStand
<1>7. Layout(Off, file.doc, file.events)
    BY <1>4, <1>6 DEF Off
<1>8. Placed(Off, file.doc, file.events)
    BY <1>2, <1>4, <1>5, <1>7 DEF Placed
<1>9. \A f \in Fields : LastBefore(Off, file.doc, f, pos, config[f])
  <2> SUFFICES ASSUME NEW f \in Fields PROVE LastBefore(Off, file.doc, f, pos, config[f])
      OBVIOUS
  <2>1. ASSUME NEW i, NEW j, Gives(file.doc, f, i, j) PROVE Off[i] + 2 * j >= pos
    <3>1. i \in 1 .. Len(file.doc) /\ j \in 1 .. Len(file.doc[i].pairs)
        BY <2>1 DEF Gives
    <3>2. Off[i] \in Nat /\ Off[i] >= 4 /\ j \in Nat
        BY <1>8, <3>1, SectionSpan DEF Span
    <3> DEFINE o == Off[i]
    <3> HIDE DEF o
    <3>3. o \in Nat /\ o >= 4 /\ j \in Nat  BY <3>2 DEF o
    <3>4. o + 2 * j >= 1  BY <3>3
    <3>5. QED  BY <3>4 DEF o
  <2>2. config[f] = 0
      OBVIOUS
  <2>3. QED  BY <2>1, <2>2 DEF LastBefore
<1>10. Outside(Off, file.doc, pos)
    BY DEF Outside
<1>11. QED  BY <1>8, <1>9, <1>10 DEF FollowsFile, Read

LEMMA FieldsArePairs == \A f \in Fields : f = <<f[1], f[2]>>
<1>1. \A f \in StringFields : f = <<f[1], f[2]>>
    BY DEF StringFields
<1>2. \A f \in Integer : f = <<f[1], f[2]>>
    BY ConfigAssumption
<1>3. QED  BY <1>1, <1>2 DEF Fields

\* The steps of the reader, in a whole file without lists.
LEMMA ReadFollows ==
    ASSUME FollowsFile, ReadTypes, ReadConfig
    PROVE  FollowsFile'
<1> SUFFICES ASSUME file.whole, Flat, file' = file
             PROVE  FollowsFile'
  <2>1. file' = file
      BY DEF ReadConfig, OpenFails, OpenConfig, SkipEvent, Malformed, ReadSection, ReadPair,
             PairWithoutSection, EndOfFile, KeyFreedTwice, configVars
  <2>2. QED  BY <2>1 DEF FollowsFile, Flat
<1> DEFINE doc == file.doc
           events == file.events
<1>1. /\ Placed(Off, doc, events) /\ Off' = Off
      /\ main # "done" => \A f \in Fields : LastBefore(Off, doc, f, pos, config[f])
      /\ main \in {"open", "read"} => Outside(Off, doc, pos) \/ Inside(Off, doc, pos, latest_section)
    BY DEF FollowsFile, Off
<1>2. /\ DOMAIN events = 1 .. Len(events) /\ Len(events) \in Nat /\ pos \in Nat /\ pos >= 1
      /\ config \in [Fields -> 0 .. Len(events)]
    BY DEF ReadTypes, Size
<1>3. ASSUME NEW f, NEW i, NEW j, Gives(doc, f, i, j)
      PROVE  /\ i \in 1 .. Len(doc) /\ j \in 1 .. Len(doc[i].pairs)
             /\ Off[i] + 2 * j \in Nat
             /\ Scalar(Off[i] + 2 * j) /\ Scalar(Off[i] + 2 * j + 1)
  <2>1. i \in 1 .. Len(doc) /\ j \in 1 .. Len(doc[i].pairs)
      BY <1>3 DEF Gives
  <2> DEFINE q == Off[i] + 2 * j
  <2>2. /\ q \in Nat /\ q + 1 < Len(events) /\ events[q] # Other /\ events[q + 1] # Other /\ q >= 1
    <3> HIDE DEF doc, events
    <3>1. /\ j \in Nat /\ Off[i] + 2 * j \in Nat /\ Off[i] + 2 * j + 1 < Len(events)
          /\ events[Off[i] + 2 * j] # Other /\ events[Off[i] + 2 * j + 1] # Other
        BY <1>1, <2>1, KeyThere
    <3>2. Off[i] \in Nat /\ Off[i] >= 4
        BY <1>1, <2>1, SectionSpan DEF Span
    <3> DEFINE o == Off[i]
    <3>3. o \in Nat /\ o >= 4 /\ j \in Nat  BY <3>1, <3>2
    <3> HIDE DEF o
    <3>4. o + 2 * j >= 1  BY <3>3
    <3>5. QED  BY <3>1, <3>4 DEF o
  <2> HIDE DEF q, events
  <2>3. q \in 1 .. Len(events) /\ q + 1 \in 1 .. Len(events)
      BY <1>2, <2>2
  <2>4. Scalar(q) /\ Scalar(q + 1)
      BY <1>2, <2>2, <2>3 DEF Scalar, events
  <2>5. QED  BY <2>1, <2>2, <2>4 DEF q
<1>4. CASE OpenFails \/ Malformed \/ PairWithoutSection \/ KeyFreedTwice \/ OpenConfig
  <2>1. /\ UNCHANGED <<file, pos, latest_section, config>> /\ main \in {"open", "read"}
        /\ main' \in {"exit", "killed", "aborted", "read"}
      BY <1>4 DEF OpenFails, Malformed, PairWithoutSection, KeyFreedTwice, OpenConfig, configVars
  <2>2. QED  BY <1>1, <2>1 DEF FollowsFile, Read
<1>5. CASE EndOfFile
  <2>1. /\ UNCHANGED <<file, pos, latest_section, config>> /\ main = "read" /\ main' = "main"
        /\ pos > Len(events)
      BY <1>5 DEF EndOfFile, AtEnd
  <2>2. QED  BY <1>1, <2>1 DEF FollowsFile, Read
<1>6. CASE SkipEvent
  <2>0. pos <= Len(events) + 1
    <3>1. main = "read"  BY <1>6 DEF SkipEvent
    <3> HIDE DEF doc, events
    <3>2. QED  BY <1>1, <3>1, WithinFile
  <2>1. /\ UNCHANGED <<file, latest_section, config>> /\ main = "read" /\ main' = "read" /\ pos' = pos + 1
        /\ pos \in 1 .. Len(events) /\ ~Scalar(pos) /\ events[pos] = Other
      BY <1>2, <1>6, <2>0 DEF SkipEvent, AtEnd, Scalar
  <2>2. Outside(Off, doc, pos + 1)
    <3> HIDE DEF doc, events
    <3>1. QED  BY <1>1, <2>1, AtBetween, AtInside DEF EndOrPair
  <2>3. ASSUME NEW f \in Fields PROVE LastBefore(Off, doc, f, pos + 1, config[f])
    <3>1. \A i, j : Gives(doc, f, i, j) => Off[i] + 2 * j \in Nat /\ Off[i] + 2 * j # pos
        BY <1>3, <2>1
    <3>2. NoneWithin(Off, doc, f, pos, pos + 1)
      <4> SUFFICES ASSUME NEW i, NEW j, Gives(doc, f, i, j)
                   PROVE  /\ Off[i] + 2 * j \in Nat
                          /\ Off[i] + 2 * j < pos \/ Off[i] + 2 * j >= pos + 1
          BY DEF NoneWithin
      <4> DEFINE q == Off[i] + 2 * j
      <4>1. q \in Nat /\ q # pos  BY <3>1
      <4> HIDE DEF q
      <4>2. q < pos \/ q >= pos + 1  BY <1>2, <4>1
      <4>3. QED  BY <4>1, <4>2 DEF q
    <3>3. pos + 1 \in Nat /\ pos <= pos + 1 /\ LastBefore(Off, doc, f, pos, config[f])
        BY <1>1, <1>2, <2>1
    <3>4. QED  BY <1>2, <3>2, <3>3, LastStays
  <2>4. QED  BY <1>1, <2>1, <2>2, <2>3 DEF FollowsFile, Read
<1>7. CASE ReadSection
  <2>1. /\ UNCHANGED <<file, config>> /\ main = "read" /\ main' = "read" /\ pos' = pos + 2
        /\ latest_section' = events[pos]
        /\ pos \in 1 .. Len(events) /\ Scalar(pos) /\ ~Scalar(pos + 1) /\ events[pos] # Other
        /\ pos + 1 \in 1 .. Len(events) => events[pos + 1] = Other
      BY <1>2, <1>7 DEF ReadSection, Scalar
  <2>2. Inside(Off, doc, pos + 2, events[pos])
    <3> HIDE DEF doc, events
    <3>1. QED  BY <1>1, <2>1, AtBetween, AtInside DEF EndOrPair
  <2>3. ASSUME NEW f \in Fields PROVE LastBefore(Off, doc, f, pos + 2, config[f])
    <3>1. ASSUME NEW i, NEW j, Gives(doc, f, i, j)
          PROVE  /\ Off[i] + 2 * j \in Nat
                 /\ Off[i] + 2 * j < pos \/ Off[i] + 2 * j >= pos + 2
      <4> DEFINE q == Off[i] + 2 * j
      <4>1. q \in Nat /\ Scalar(q) /\ Scalar(q + 1)  BY <1>3, <3>1
      <4> HIDE DEF q
      <4>2. q # pos /\ q # pos + 1  BY <2>1, <4>1
      <4>3. q < pos \/ q >= pos + 2  BY <1>2, <4>1, <4>2
      <4>4. QED  BY <4>1, <4>3 DEF q
    <3>2. NoneWithin(Off, doc, f, pos, pos + 2)
        BY <3>1 DEF NoneWithin
    <3>3. pos + 2 \in Nat /\ pos <= pos + 2 /\ LastBefore(Off, doc, f, pos, config[f])
        BY <1>1, <1>2, <2>1
    <3>4. QED  BY <1>2, <3>2, <3>3, LastStays
  <2>4. QED  BY <1>1, <2>1, <2>2, <2>3 DEF FollowsFile, Read
<1>8. CASE ReadPair
  <2> DEFINE g == <<latest_section, events[pos]>>
  <2>1. /\ UNCHANGED <<file, latest_section>> /\ main = "read" /\ main' = "read" /\ pos' = pos + 2
        /\ config' = IF g \in Fields THEN [config EXCEPT ![g] = pos + 1] ELSE config
        /\ pos \in 1 .. Len(events) /\ events[pos] # Other
        /\ pos + 1 \in 1 .. Len(events) /\ events[pos + 1] # Other
      BY <1>2, <1>8 DEF ReadPair, Scalar
  <2>2. /\ Inside(Off, doc, pos + 2, latest_section)
        /\ \E i \in 1 .. Len(doc) : \E j \in 1 .. Len(doc[i].pairs) :
              /\ pos = Off[i] + 2 * j /\ latest_section = doc[i].name
              /\ events[pos] = doc[i].pairs[j][1]
    <3> HIDE DEF doc, events
    <3>1. Inside(Off, doc, pos, latest_section)
        BY <1>1, <2>1, AtBetween
    <3>2. EndOrPair(Off, doc, events, pos, latest_section)
        BY <1>1, <3>1, AtInside, Zenon
    <3>3. QED  BY <2>1, <3>2 DEF EndOrPair
  <2>0. PICK i \in 1 .. Len(doc) : \E j \in 1 .. Len(doc[i].pairs) :
              /\ pos = Off[i] + 2 * j /\ latest_section = doc[i].name
              /\ events[pos] = doc[i].pairs[j][1]
      BY <2>2
  <2>3. PICK j \in 1 .. Len(doc[i].pairs) : /\ pos = Off[i] + 2 * j /\ latest_section = doc[i].name
                                           /\ events[pos] = doc[i].pairs[j][1]
      BY <2>0
  <2>4. ASSUME NEW f \in Fields, f = g PROVE LastBefore(Off, doc, f, pos + 2, config'[f])
    <3>1. config'[f] = pos + 1
        BY <1>2, <2>1, <2>4
    <3>2. f[1] = latest_section /\ f[2] = events[pos]
        BY <2>4
    <3>3. Gives(doc, f, i, j)
        BY <2>3, <3>2 DEF Gives
    <3> HIDE DEF doc
    <3>4. LastBefore(Off, doc, f, pos + 2, pos + 1)
        BY <1>1, <2>3, <3>3, LastTaken
    <3>5. QED  BY <3>1, <3>4
  <2>5. ASSUME NEW f \in Fields, f # g PROVE LastBefore(Off, doc, f, pos + 2, config'[f])
    <3>1. config'[f] = config[f]
        BY <1>2, <2>1, <2>5
    <3>2. ASSUME NEW k, NEW l, Gives(doc, f, k, l)
          PROVE  /\ Off[k] + 2 * l \in Nat
                 /\ Off[k] + 2 * l < pos \/ Off[k] + 2 * l >= pos + 2
      <4> DEFINE q == Off[k] + 2 * l
      <4>1. q \in Nat /\ k \in 1 .. Len(doc) /\ l \in 1 .. Len(doc[k].pairs)
          BY <1>3, <3>2
      <4>2. ~(k = i /\ l = j)
        <5>1. SUFFICES ASSUME k = i, l = j PROVE FALSE
            OBVIOUS
        <5>2. f[1] = latest_section /\ f[2] = events[pos]
            BY <2>3, <3>2, <5>1 DEF Gives
        <5>3. QED  BY <2>5, <5>2, FieldsArePairs
      <4>3. q + 1 < pos \/ pos + 1 < q
        <5> DEFINE off == Off
        <5> HIDE DEF doc, events
        <5>1. Placed(off, doc, events) /\ pos = off[i] + 2 * j /\ q = off[k] + 2 * l
            BY <1>1, <2>3
        <5> HIDE DEF off, q
        <5>2. \/ off[k] + 2 * l + 1 < off[i] + 2 * j
              \/ off[i] + 2 * j + 1 < off[k] + 2 * l
            BY <4>1, <4>2, <5>1, OneKey
        <5>3. QED  BY <5>1, <5>2
      <4> HIDE DEF q
      <4>4. q < pos \/ q >= pos + 2  BY <1>2, <4>1, <4>3
      <4>5. QED  BY <4>1, <4>4 DEF q
    <3>3. NoneWithin(Off, doc, f, pos, pos + 2)
        BY <3>2 DEF NoneWithin
    <3>4. pos + 2 \in Nat /\ pos <= pos + 2 /\ LastBefore(Off, doc, f, pos, config[f])
      <4>1. pos + 2 \in Nat /\ pos <= pos + 2  BY <1>2
      <4>2. main # "done"  BY <2>1
      <4>3. LastBefore(Off, doc, f, pos, config[f])  BY <1>1, <4>2, Zenon
      <4>4. QED  BY <4>1, <4>3
    <3>5. LastBefore(Off, doc, f, pos + 2, config[f])
        BY <1>2, <3>3, <3>4, LastStays
    <3>6. QED  BY <3>1, <3>5
  <2>6. \A f \in Fields : LastBefore(Off, doc, f, pos + 2, config'[f])
      BY <2>4, <2>5
  <2>7. QED  BY <1>1, <2>1, <2>2, <2>6 DEF FollowsFile, Read
<1>9. QED  BY <1>4, <1>5, <1>6, <1>7, <1>8 DEF ReadConfig

\* The steps in which nothing is read.
LEMMA OthersFollow ==
    ASSUME FollowsFile, UNCHANGED configVars,
           main' = main \/ main' \in {"killed", "aborted", "start", "join"},
           main' \in {"start", "join"} => main \in {"main", "start", "join"},
           main = "done" => main' = "done"
    PROVE  FollowsFile'
<1>1. Off' = Off /\ (Flat' <=> Flat) /\ file' = file
    BY DEF Off, Flat, configVars
<1>2. QED  BY <1>1 DEF FollowsFile, Read, configVars

LEMMA NextFollows == FollowsFile /\ ReadInvariant /\ [Next]_vars => FollowsFile'
<1> SUFFICES ASSUME FollowsFile, ReadInvariant, [Next]_vars PROVE FollowsFile'
    OBVIOUS
<1>1. CASE ReadConfig
    BY <1>1, ReadFollows DEF ReadInvariant
<1>2. CASE NextCall \/ NoType \/ NegativeLength \/ AllCreated \/ AllStarted
           \/ \E t \in Threads : StartThread(t)
    BY <1>2, OthersFollow DEF NextCall, NoType, NegativeLength, AllCreated, AllStarted, StartThread
<1>3. CASE Finish
  <2>1. file' = file /\ main' = "done"  BY <1>3 DEF Finish
  <2>2. Off' = Off /\ (Flat' <=> Flat)  BY <2>1 DEF Off, Flat
  <2>3. QED  BY <2>1, <2>2 DEF FollowsFile, Read
<1>4. CASE \E a \in Askers : SocketStep(a) \/ Abort(a)
    BY <1>4, OthersFollow DEF SocketStep, Abort, Ended
<1>5. CASE \E t \in Threads : ThreadLeaves(t)
    BY <1>5, OthersFollow DEF ThreadLeaves
<1>6. CASE UNCHANGED vars
    BY <1>6, OthersFollow DEF vars
<1>7. QED  BY <1>1, <1>2, <1>3, <1>4, <1>5, <1>6 DEF Next, MainStep

LEMMA FollowsHolds == Spec => []FollowsFile
<1>1. Init => FollowsFile  BY InitFollows
<1>2. QED  BY <1>1, NextFollows, ReadHolds, PTL DEF Spec

\* At the end of a file the last value of a key is what the file says.
LEMMA ReadAsSaid == FollowsFile /\ ReadInvariant => ConfigIsFile
<1> SUFFICES ASSUME FollowsFile, ReadInvariant, Read, file.whole, Flat, NEW f \in Fields
           PROVE  Text(f) = Said(f[1], f[2])
    BY DEF ConfigIsFile
<1>1. /\ Placed(Off, file.doc, file.events) /\ LastBefore(Off, file.doc, f, pos, config[f])
      /\ pos > Len(file.events)
    BY DEF FollowsFile, Read
<1>2. pos \in Nat
    BY DEF ReadInvariant, ReadTypes
<1>3. QED  BY <1>1, <1>2, LastIsSaid

\* Whatever file without lists is read to its end, with its sections and keys in
\* any order and any number: every field has the value that the file gives last
\* to its key in its section (read_config, assign_key_value).
THEOREM FileIsRead == Spec => []ConfigIsFile
BY ReadAsSaid, FollowsHolds, ReadHolds, PTL

-----------------------------------------------------------------------------
(***************************************************************************)
(* A file that is whole, has no lists and ends in a pair is read to its    *)
(* end: never so many events without a scalar that main gives up, no pair  *)
(* without a section, and no key left at the end.                          *)
(***************************************************************************)

\* The reader at p has met so many events since the last scalar, and is about to
\* go on: only the name of a section without pairs leaves key behind.
Steady(off, doc, p, latest, loops, k) ==
    \/ p \in 1 .. 3 /\ loops = p - 1
    \/ loops \in 0 .. 3 /\ \E i \in 1 .. Len(doc) : p = off[i]
    \/ \E i \in 1 .. Len(doc) : \E j \in 1 .. Len(doc[i].pairs) + 1 :
          p = off[i] + 2 * j /\ latest = doc[i].name /\ loops = 0 /\ (k # 0 => j = 1)
    \/ p = off[Len(doc) + 1] /\ loops = 1 /\ k = 0
    \/ p = off[Len(doc) + 1] + 1 /\ loops = 2 /\ k = 0
    \/ p = off[Len(doc) + 1] + 2 /\ k = 0

\* A document does not end in a section without pairs.
EndsInPair(doc) == doc # <<>> /\ doc[Len(doc)].pairs # <<>>

\* What the reader meets at p, and how it goes on.
GoesOn(off, doc, events, p, latest, loops, k) ==
    \/ /\ p \in 1 .. Len(events) /\ events[p] = Other /\ loops \in 0 .. 2
       /\ Steady(off, doc, p + 1, latest, loops + 1, k)
    \/ /\ p \in 1 .. Len(events) /\ events[p] # Other /\ events[p + 1] = Other /\ loops \in 0 .. 3
       /\ \A q : Steady(off, doc, p + 2, events[p], 0, q)
    \/ /\ p \in 1 .. Len(events) /\ events[p] # Other /\ loops \in 0 .. 3
       /\ p + 1 \in 1 .. Len(events) /\ events[p + 1] # Other
       /\ latest # None /\ Steady(off, doc, p + 2, latest, 0, 0)
    \/ p = Len(events) + 1 /\ k = 0

\* Where it may be, the reader meets what lets it go on.
LEMMA SteadyAt ==
    ASSUME NEW off, NEW doc, NEW events, Placed(off, doc, events), EndsInPair(doc),
           NEW p, NEW latest, NEW loops, NEW k, Steady(off, doc, p, latest, loops, k)
    PROVE  GoesOn(off, doc, events, p, latest, loops, k)
<1> USE DEF GoesOn
<1> DEFINE n == Len(doc)
           last == off[n + 1]
<1>1. /\ n \in Nat /\ off \in [1 .. n + 1 -> Nat] /\ off[1] = 4 /\ Len(events) = last + 1 /\ last \in Nat
      /\ \A q \in 1 .. 3 : events[q] = Other
      /\ events[last] = Other /\ events[last + 1] = Other
  <2>1. doc \in Seq(Section) /\ Layout(off, doc, events)  BY DEF Placed
  <2>2. n \in Nat /\ n + 1 \in 1 .. n + 1  BY <2>1
  <2> HIDE DEF n
  <2>3. Layout(off, doc, events) /\ Len(doc) = n  BY <2>1 DEF n
  <2>4. QED  BY <2>2, <2>3 DEF Layout
<1>2. n >= 1 /\ n \in 1 .. n /\ 1 \in 1 .. n /\ Len(doc[n].pairs) \in Nat /\ Len(doc[n].pairs) >= 1
  <2>1. doc \in Seq(Section) /\ doc # <<>>  BY DEF Placed, EndsInPair
  <2>2. n >= 1 /\ n \in 1 .. n /\ 1 \in 1 .. n  BY <2>1
  <2>3. doc[n] \in Section  BY <2>1, <2>2
  <2>4. doc[n].pairs \in Seq(Keyed) /\ doc[n].pairs # <<>>  BY <2>3 DEF Section, EndsInPair
  <2>5. QED  BY <2>2, <2>4
<1>3. last >= 4
  <2>1. 4 <= off[n] /\ off[n] \in Nat /\ off[n + 1] = off[n] + 2 * Len(doc[n].pairs) + 3
      BY <1>2, SectionSpan DEF Span
  <2>2. QED  BY <1>2, <2>1
<1>4. CASE p \in 1 .. 3 /\ loops = p - 1
  <2>1. p \in 1 .. Len(events) /\ events[p] = Other /\ loops \in 0 .. 2
      BY <1>1, <1>3, <1>4
  <2>2. CASE p # 3
    <3>1. p + 1 \in 1 .. 3 /\ loops + 1 = (p + 1) - 1  BY <1>4, <2>2
    <3>2. QED  BY <2>1, <3>1 DEF Steady
  <2>3. CASE p = 3
    <3>1. p + 1 = off[1] /\ loops + 1 \in 0 .. 3  BY <1>1, <1>4, <2>3
    <3>2. QED  BY <1>2, <2>1, <3>1 DEF Steady
  <2>4. QED  BY <2>2, <2>3
<1>5. CASE loops \in 0 .. 3 /\ \E i \in 1 .. n : p = off[i]
  <2>1. PICK i \in 1 .. n : p = off[i]  BY <1>5
  <2>2. SectionAt(off[i], off[i + 1], doc[i], events)
      BY DEF Placed, Layout
  <2>3. events[p] = doc[i].name /\ events[p + 1] = Other
      BY <2>1, <2>2 DEF SectionAt
  <2>4. /\ doc[i].name # Other /\ Len(doc[i].pairs) \in Nat /\ off[i] \in Nat /\ off[i] >= 4
        /\ off[i + 1] = off[i] + 2 * Len(doc[i].pairs) + 3 /\ off[i + 1] < Len(events)
      BY SectionSpan DEF Span
  <2>5. 1 \in 1 .. Len(doc[i].pairs) + 1 /\ p + 2 = off[i] + 2 * 1
      BY <2>1, <2>4
  <2>6. \A q : Steady(off, doc, p + 2, events[p], 0, q)
      BY <2>3, <2>5 DEF Steady
  <2> DEFINE m == Len(doc[i].pairs)
             o == off[i]
  <2>7. o \in Nat /\ o >= 4 /\ m \in Nat /\ o + 2 * m + 3 < Len(events) /\ Len(events) \in Nat /\ p = o
      BY <1>1, <2>1, <2>4
  <2> HIDE DEF m, o
  <2>8. p \in 1 .. Len(events)
      BY <2>7
  <2>9. QED  BY <1>5, <2>3, <2>4, <2>6, <2>8
<1>6. CASE \E i \in 1 .. n : \E j \in 1 .. Len(doc[i].pairs) + 1 :
              p = off[i] + 2 * j /\ latest = doc[i].name /\ loops = 0 /\ (k # 0 => j = 1)
  <2>1. PICK i \in 1 .. n : \E j \in 1 .. Len(doc[i].pairs) + 1 :
              p = off[i] + 2 * j /\ latest = doc[i].name /\ loops = 0 /\ (k # 0 => j = 1)
      BY <1>6
  <2>2. PICK j \in 1 .. Len(doc[i].pairs) + 1 :
              p = off[i] + 2 * j /\ latest = doc[i].name /\ loops = 0 /\ (k # 0 => j = 1)
      BY <2>1
  <2> DEFINE m == Len(doc[i].pairs)
             o == off[i]
             next == off[i + 1]
  <2>3. /\ o \in Nat /\ o >= 4 /\ m \in Nat /\ next = o + 2 * m + 3 /\ next < Len(events)
      BY SectionSpan DEF Span
  <2>4. latest # None
    <3>1. FlatSection(doc[i])  BY <1>1 DEF Placed
    <3>2. QED  BY <2>2, <3>1 DEF FlatSection
  <2>5. SectionAt(o, next, doc[i], events)
      BY DEF Placed, Layout
  <2>6. events[next - 1] = Other
      BY <2>5 DEF SectionAt
  <2>7. j \in 1 .. m + 1 /\ p = o + 2 * j
      BY <2>2
  <2>8. CASE j = m + 1
    <3>1. p = next - 1 /\ p + 1 = next /\ p \in 1 .. Len(events)
      <4> HIDE DEF m, o, next
      <4>1. QED  BY <1>1, <2>3, <2>7, <2>8
    <3>2. events[p] = Other /\ loops \in 0 .. 2
        BY <2>2, <2>6, <3>1
    <3>3. CASE i # n
      <4>1. i + 1 \in 1 .. n  BY <1>1, <3>3
      <4>2. Steady(off, doc, p + 1, latest, loops + 1, k)
          BY <2>2, <3>1, <4>1 DEF Steady
      <4>3. QED  BY <3>1, <3>2, <4>2
    <3>4. CASE i = n
      <4>1. m >= 1 /\ j # 1
          BY <1>2, <2>3, <2>8, <3>4
      <4>2. k = 0 /\ loops + 1 = 1 /\ p + 1 = last
          BY <2>2, <3>1, <3>4, <4>1
      <4>3. Steady(off, doc, p + 1, latest, loops + 1, k)
          BY <4>2 DEF Steady
      <4>4. QED  BY <3>1, <3>2, <4>3
    <3>5. QED  BY <3>3, <3>4
  <2>9. CASE j # m + 1
    <3>1. j \in 1 .. m /\ j + 1 \in 1 .. m + 1
      <4> HIDE DEF m
      <4>1. QED  BY <2>3, <2>7, <2>9
    <3>2. /\ j \in Nat /\ off[i] + 2 * j + 1 < Len(events) /\ off[i] + 2 * j \in Nat
          /\ events[off[i] + 2 * j] # Other /\ events[off[i] + 2 * j + 1] # Other
        BY <3>1, KeyThere
    <3>3. p \in 1 .. Len(events) /\ p + 1 \in 1 .. Len(events) /\ p + 2 = o + 2 * (j + 1)
      <4>1. o + 2 * j + 1 < Len(events) /\ j \in Nat /\ o \in Nat /\ o >= 4 /\ p = o + 2 * j
          BY <2>3, <2>7, <3>2
      <4>2. Len(events) \in Nat  BY <1>1
      <4> HIDE DEF o, m, next
      <4>3. QED  BY <4>1, <4>2
    <3>4. Steady(off, doc, p + 2, latest, 0, 0)
        BY <2>2, <3>1, <3>3 DEF Steady
    <3>5. events[p] # Other /\ events[p + 1] # Other
        BY <2>2, <3>2
    <3>6. QED  BY <2>2, <2>4, <3>3, <3>4, <3>5
  <2>10. QED  BY <2>8, <2>9
<1>7. CASE p = last /\ loops = 1 /\ k = 0
  <2>1. p \in 1 .. Len(events) /\ p + 1 = last + 1 /\ loops + 1 = 2
      BY <1>1, <1>3, <1>7
  <2>2. Steady(off, doc, p + 1, latest, loops + 1, k)
      BY <1>7, <2>1 DEF Steady
  <2>3. QED  BY <1>1, <1>7, <2>1, <2>2
<1>8. CASE p = last + 1 /\ loops = 2 /\ k = 0
  <2>1. p \in 1 .. Len(events) /\ p + 1 = last + 2
      BY <1>1, <1>3, <1>8
  <2>2. Steady(off, doc, p + 1, latest, loops + 1, k)
      BY <1>8, <2>1 DEF Steady
  <2>3. QED  BY <1>1, <1>8, <2>1, <2>2
<1>9. CASE p = last + 2 /\ k = 0
    BY <1>1, <1>9
<1>10. QED  BY <1>4, <1>5, <1>6, <1>7, <1>8, <1>9 DEF Steady

\* A file that is whole, has no lists and ends in a pair is read to its end.
Fine == file.whole /\ Flat /\ EndsInPair(file.doc)

ReadsOn ==
    Fine /\ main \in {"open", "read"} => Steady(Off, file.doc, pos, latest_section, loop_count, key)

LEMMA InitReadsOn == Init => ReadsOn
BY DEF Init, ConfigInit, ReadsOn, Steady

\* The steps of the reader, in such a file.
LEMMA ReadReadsOn ==
    ASSUME ReadsOn, FollowsFile, ReadTypes, LoopLimit >= 4, ReadConfig
    PROVE  ReadsOn' /\ (Fine => main' \notin {"killed", "aborted"})
<1>0. main \in {"open", "read"} /\ file' = file
    BY DEF ReadConfig, OpenFails, OpenConfig, SkipEvent, Malformed, ReadSection, ReadPair,
           PairWithoutSection, EndOfFile, KeyFreedTwice, configVars
<1> SUFFICES ASSUME Fine
             PROVE  /\ main' \in {"open", "read"} =>
                          Steady(Off, file.doc, pos', latest_section', loop_count', key')
                    /\ main' \notin {"killed", "aborted"}
  <2>1. Off' = Off /\ (Fine' <=> Fine)  BY <1>0 DEF Off, Fine, Flat
  <2>2. QED  BY <1>0, <2>1 DEF ReadsOn
<1> DEFINE doc == file.doc
           events == file.events
<1>1. /\ Placed(Off, doc, events) /\ EndsInPair(doc)
      /\ Steady(Off, doc, pos, latest_section, loop_count, key)
    BY <1>0 DEF ReadsOn, FollowsFile, Fine
<1>2. GoesOn(Off, doc, events, pos, latest_section, loop_count, key)
  <2> DEFINE off == Off
  <2>1. /\ Placed(off, doc, events) /\ EndsInPair(doc)
        /\ Steady(off, doc, pos, latest_section, loop_count, key)
      BY <1>1
  <2> HIDE DEF doc, events, off
  <2>2. GoesOn(off, doc, events, pos, latest_section, loop_count, key)
      BY <2>1, SteadyAt
  <2>3. QED  BY <2>2 DEF off
<1>3. /\ DOMAIN events = 1 .. Len(events) /\ Len(events) \in Nat /\ pos \in Nat /\ pos >= 1
      /\ LoopLimit \in Nat
    BY ConfigAssumption DEF ReadTypes, Size
<1> HIDE DEF doc
<1>4. CASE OpenFails \/ OpenConfig
  <2>1. main' \in {"exit", "read"} /\ UNCHANGED <<pos, latest_section, loop_count, key>>
      BY <1>4 DEF OpenFails, OpenConfig, configVars
  <2>2. QED  BY <1>1, <2>1 DEF doc
<1>5. CASE SkipEvent
  <2>1. /\ pos \in 1 .. Len(events) /\ events[pos] = Other /\ pos' = pos + 1
        /\ loop_count' = loop_count + 1 /\ main' = "read" /\ UNCHANGED <<latest_section, key>>
      BY <1>2, <1>3, <1>5 DEF SkipEvent, AtEnd, Scalar, GoesOn
  <2>2. ~(pos > Len(events))
      BY <1>3, <2>1
  <2>3. Steady(Off, doc, pos + 1, latest_section, loop_count + 1, key)
      BY <1>2, <2>1, <2>2 DEF GoesOn
  <2>4. QED  BY <2>1, <2>3 DEF doc
<1>6. ~Malformed
    BY <1>2, <1>3 DEF GoesOn, Malformed, AtEnd, Scalar
<1>7. CASE ReadSection
  <2>1. /\ pos \in 1 .. Len(events) /\ events[pos] # Other /\ pos' = pos + 2 /\ main' = "read"
        /\ pos + 1 \in 1 .. Len(events) => events[pos + 1] = Other
        /\ loop_count' = 0 /\ latest_section' = events[pos]
      BY <1>3, <1>7 DEF ReadSection, Scalar
  <2>2. QED  BY <1>2, <1>3, <2>1 DEF doc, GoesOn
<1>8. CASE ReadPair
  <2>1. /\ pos \in 1 .. Len(events) /\ events[pos] # Other /\ pos' = pos + 2 /\ main' = "read"
        /\ pos + 1 \in 1 .. Len(events) /\ events[pos + 1] # Other
        /\ loop_count' = 0 /\ latest_section' = latest_section /\ key' = 0
      BY <1>3, <1>8 DEF ReadPair, Scalar
  <2>2. QED  BY <1>2, <1>3, <2>1 DEF doc, GoesOn
<1>9. ~PairWithoutSection
    BY <1>2, <1>3 DEF GoesOn, PairWithoutSection, Scalar
<1>10. ~KeyFreedTwice
    BY <1>2, <1>3 DEF GoesOn, KeyFreedTwice, AtEnd
<1>11. CASE EndOfFile
    BY <1>11 DEF EndOfFile
<1>12. QED  BY <1>4, <1>5, <1>6, <1>7, <1>8, <1>9, <1>10, <1>11 DEF ReadConfig

-----------------------------------------------------------------------------
(***************************************************************************)
(* With one thread, callers of get_address do not meet, and none loses the *)
(* buffer it was given before it has used it.                              *)
(***************************************************************************)

\* A complete UDP file, at most one thread in it, and nothing that failed.
OneThread == Complete /\ OneThreadSaid /\ failed = {}

\* What a caller has been given, or is about to be given, stands in the buffer.
Holding(a) ==
    /\ apc[a] \in {"unlock", "return"} => g_ip \in Cells /\ buffer[g_ip] = Address(want[a])
    /\ apc[a] = "use" => connection[a] \in Cells /\ buffer[connection[a]] = Address(want[a])
    /\ a # Main /\ apc[a] \in {"created", "left"} => wired[a] # Unwired

\* Nothing is bound before the one socket of main that is.
Unbound ==
    \/ call = 0
    \/ main = "main" /\ ~Tcp /\ (call < 3 \/ (call = 3 /\ apc[Main] # "created"))
    => bound = {}

Served == OneThread => main \notin {"killed", "aborted"} /\ \A a \in Askers : Holding(a)

OneInv == Unbound /\ Served

\* What main has made of such a file.
LEMMA SaidIsRead ==
    ASSUME Complete, ConfigIsFile, Read
    PROVE  /\ Protocol = "udp" /\ ~Tcp
           /\ Usable = {Address("main_address"), Address("responder_address")}
           /\ OneThreadSaid => NumThreads \in 0 .. 1
<1>1. /\ General("protocol") \in Fields /\ General("main_address") \in Fields
      /\ General("responder_address") \in Fields /\ General("num_threads") \in Fields
    BY KeysAssumption DEF Fields, StringFields, General
<1>2. \A k : General(k) \in Fields => Text(General(k)) = Said("general", k)
  <2>1. \A k : General(k)[1] = "general" /\ General(k)[2] = k  BY DEF General
  <2>2. \A f \in Fields : Text(f) = Said(f[1], f[2])  BY DEF Complete, ConfigIsFile
  <2>3. QED  BY <2>1, <2>2
<1>3. Protocol = "udp" /\ ~Tcp
    BY <1>1, <1>2 DEF Complete, Protocol, Tcp
<1>4. Usable = {Address("main_address"), Address("responder_address")}
  <2>1. \A k \in {"main_address", "responder_address"} :
            Address(k)[1] = "udp" /\ Address(k)[2] # None
      BY <1>1, <1>2, <1>3 DEF Complete, Address
  <2>2. QED  BY <2>1 DEF Usable
<1>5. ASSUME OneThreadSaid, role = "client" PROVE NumThreads \in 0 .. 1
  <2> DEFINE said == Said("general", "num_threads")
  <2>1. said # None /\ ConvertStringToInt(said) \in 0 .. 1
      BY <1>5 DEF OneThreadSaid
  <2>2. Text(General("num_threads")) = said
      BY <1>1, <1>2
  <2>3. config[General("num_threads")] # 0
      BY <2>1, <2>2 DEF Text
  <2>4. NumThreads = ConvertStringToInt(said)
      BY <1>5, <2>2, <2>3 DEF NumThreads, Number
  <2>5. QED  BY <2>1, <2>4
<1>6. role # "client" => NumThreads = 0
    BY DEF NumThreads
<1>7. QED  BY <1>3, <1>4, <1>5, <1>6

\* With one thread there is one caller of get_address at a time.
LEMMA OneCaller ==
    ASSUME Inv, NumThreads <= 1, main \notin Ended,
           NEW a \in Askers, apc[a] \notin {"off", "created", "left"},
           NEW b \in Askers, apc[b] \notin {"off", "created", "left"}
    PROVE  a = b
<1>1. main \in {"main", "start", "join"}
    BY AskersAre DEF Inv, Order, Ended
<1>2. CASE main = "main"
    BY <1>2, AskersAre DEF Inv, Order
<1>3. CASE main \in {"start", "join"}
  <2>1. a \in Threads /\ b \in Threads
      BY <1>3, AskersAre DEF Inv, Order
  <2>2. a <= NumThreads /\ b <= NumThreads
      BY <1>3, <2>1 DEF Inv, InNumber
  <2>3. a \in Nat /\ a >= 1 /\ b \in Nat /\ b >= 1
      BY <2>1 DEF Threads
  <2>4. QED  BY <2>2, <2>3, NumberIsInt
<1>4. QED  BY <1>1, <1>2, <1>3

\* What a caller asks for is an address that libzmq can use.
LEMMA AskedIsUsable ==
    ASSUME Inv, Complete, ConfigIsFile, Read, NEW a \in Askers, apc[a] # "off"
    PROVE  Address(want[a]) \in Usable
<1>1. want[a] \in {"main_address", "responder_address"}
  <2>1. CASE a # Main  BY <2>1, AskersAre DEF Inv, Order
  <2>2. CASE a = Main
    <3>1. call \in 1 .. 4  BY <2>2 DEF Inv, Order, Types
    <3>2. QED  BY <2>2, <3>1, CallsAsk, RolesAssumption DEF Inv, Order, Types
  <2>3. QED  BY <2>1, <2>2
<1>2. QED  BY <1>1, SaidIsRead

\* What depends on the file and the configuration alone.
LEMMA SameFile ==
    ASSUME UNCHANGED <<configVars, role>>
    PROVE  /\ Complete' = Complete /\ OneThreadSaid' = OneThreadSaid
           /\ Tcp' = Tcp /\ NumThreads' = NumThreads /\ Usable' = Usable
           /\ \A k : Address(k)' = Address(k)
<1>1. \A f : Text(f)' = Text(f)  BY DEF Text, configVars
<1>2. \A k : Address(k)' = Address(k)  BY <1>1 DEF Address, Protocol
<1>3. Usable' = Usable  BY <1>2 DEF Usable
<1>4. Tcp' = Tcp  BY <1>1 DEF Tcp, Protocol
<1>5. Complete' = Complete /\ OneThreadSaid' = OneThreadSaid
    BY DEF Complete, OneThreadSaid, Flat, Said, Given, LastPlace, configVars
<1>6. NumThreads' = NumThreads
    BY <1>1 DEF NumThreads, Number, configVars
<1>7. QED  BY <1>2, <1>3, <1>4, <1>5, <1>6

\* A step of a caller: the others are not on their way, and keep what they have.
LEMMA StepServed ==
    ASSUME Inv, OneInv, ConfigIsFile, NEW a \in Askers, SocketStep(a)
    PROVE  Served'
<1> SUFFICES ASSUME OneThread'
             PROVE  main' \notin {"killed", "aborted"} /\ \A b \in Askers : Holding(b)'
    BY DEF Served
<1> USE DEF SocketStep
<1>1. UNCHANGED <<configVars, main, role, call>> /\ apc[a] \notin {"off", "created", "left"}
      /\ main \notin Ended
    OBVIOUS
<1>2. failed' = {} /\ failed = {}
  <2>1. failed' = {}  BY DEF OneThread
  <2>2. CASE GetAddress(a, Address(want[a]))
      BY <2>1, <2>2 DEF GetAddress, LockAndFree, Allocate, AllocateFails, ComposePart, Compose, ComposeFails, Unlock, Return
  <2>3. CASE CreateSocket(a)
      BY <2>1, <2>3 DEF CreateSocket, Bind, Connect, ConnectAgain, Refused
  <2>4. CASE a = Main /\ PrintConfiguration
      BY <2>1, <2>4 DEF PrintConfiguration
  <2>5. QED  BY <2>1, <2>2, <2>3, <2>4
<1>3. OneThread
  <2>1. UNCHANGED <<configVars, role>>  BY <1>1
  <2>2. (Complete' <=> Complete) /\ (OneThreadSaid' <=> OneThreadSaid)
      BY <2>1, SameFile
  <2>3. Complete' /\ OneThreadSaid'  BY DEF OneThread
  <2>4. QED  BY <1>2, <2>2, <2>3 DEF OneThread
<1>0. Read
    BY <1>1, AskersAre DEF Inv, Order, Types, Ended, Read
<1>4. /\ Types /\ NumThreads <= 1 /\ \A b \in Askers : Holding(b)
      /\ Usable' = Usable /\ \A k : Address(k)' = Address(k)
  <2>1. NumThreads \in 0 .. 1  BY <1>3, <1>0, SaidIsRead DEF OneThread
  <2>2. QED  BY <1>1, <1>3, <2>1, SameFile DEF OneInv, Served, Inv
<1>5. \A b \in Askers : b # a => apc[b] \in {"off", "created", "left"}
    BY <1>1, <1>4, OneCaller
<1>6. Address(want[a]) \in Usable
    BY <1>1, <1>3, <1>0, AskedIsUsable DEF OneThread
<1>7. At(a, "use") => There(a) = Address(want[a]) /\ There(a) \notin {Free, Empty, Unwired}
  <2>1. At(a, "use") => connection[a] \in Cells /\ buffer[connection[a]] = Address(want[a])
      BY <1>4 DEF Holding, At
  <2>2. At(a, "use") => There(a) = Address(want[a])
      BY <2>1, SocketsAssumption DEF There
  <2>3. QED  BY <1>6, <2>2, UsableIsAddress DEF Acceptable
<1>8. \A b \in Askers : b # a => apc'[b] = apc[b] /\ wired'[b] = wired[b]
    BY <1>4 DEF GetAddress, CreateSocket, LockAndFree, Allocate, AllocateFails, ComposePart, Compose, ComposeFails,
             Unlock, Return, Bind, Connect, ConnectAgain, Wire, PrintConfiguration, Goto, Types
<1>9. \A b \in Askers : b # a => Holding(b)'
    BY <1>4, <1>5, <1>8 DEF Holding
<1>10. CASE LockAndFree(a) \/ Allocate(a) \/ ComposePart(a, Address(want[a]))
  <2>1. apc'[a] \in {"calloc", "compose", "composing"}
      BY <1>4, <1>10 DEF LockAndFree, Allocate, ComposePart, Goto, Types
  <2>2. Holding(a)'  BY <2>1 DEF Holding
  <2>3. QED  BY <1>1, <1>9, <2>2 DEF Ended
<1>11. ~AllocateFails(a) /\ ~ComposeFails(a, Address(want[a]))
    BY <1>2 DEF AllocateFails, ComposeFails
<1>12. CASE Compose(a, Address(want[a]))
  <2>1. g_ip \in Cells
      BY <1>12 DEF Compose, At, Inv, Types, Locking
  <2>2. apc'[a] = "unlock" /\ g_ip' = g_ip /\ want' = want /\ buffer'[g_ip] = Address(want[a])
      BY <1>4, <1>12, <2>1 DEF Compose, Goto, Types
  <2>3. Holding(a)'
    <3>1. Address(want[a])' = Address(want[a])
        BY <1>1, <2>2 DEF Address, Protocol, Text, configVars
    <3>2. QED  BY <2>1, <2>2, <3>1 DEF Holding
  <2>4. QED  BY <1>1, <1>9, <2>3 DEF Ended
<1>13. CASE Unlock(a)
  <2>1. /\ apc[a] = "unlock" /\ apc'[a] = "return" /\ g_ip' = g_ip /\ want' = want /\ buffer' = buffer
      BY <1>4, <1>13 DEF Unlock, At, Goto, Types
  <2>2. Holding(a)'
    <3>1. Address(want[a])' = Address(want[a])
        BY <1>1, <2>1 DEF Address, Protocol, Text, configVars
    <3>2. QED  BY <1>4, <2>1, <3>1 DEF Holding
  <2>3. QED  BY <1>1, <1>9, <2>2 DEF Ended
<1>14. CASE Return(a)
  <2>1. /\ apc[a] = "return" /\ apc'[a] = "use" /\ connection'[a] = g_ip /\ want' = want
        /\ buffer' = buffer
      BY <1>4, <1>14 DEF Return, At, Goto, Types
  <2>2. Holding(a)'
    <3>1. Address(want[a])' = Address(want[a])
        BY <1>1, <2>1 DEF Address, Protocol, Text, configVars
    <3>2. QED  BY <1>4, <2>1, <3>1 DEF Holding
  <2>3. QED  BY <1>1, <1>9, <2>2 DEF Ended
<1>15. CASE a = Main /\ PrintConfiguration
  <2>1. apc'[a] = "created"
      BY <1>4, <1>15 DEF PrintConfiguration, Goto, Types
  <2>2. Holding(a)'  BY <1>15, <2>1 DEF Holding
  <2>3. QED  BY <1>1, <1>9, <2>2 DEF Ended
<1>16. CASE Bind(a, Usable) \/ Connect(a, Usable)
  <2>1. At(a, "use") /\ apc'[a] = "created" /\ wired'[a] = There(a)
      BY <1>4, <1>16 DEF Bind, Connect, Wire, Goto, Types
  <2>2. Holding(a)'
      BY <1>7, <2>1 DEF Holding
  <2>3. QED  BY <1>1, <1>9, <2>2 DEF Ended
<1>17. ~ConnectAgain(a, Usable)
    BY <1>2, <1>6, <1>7 DEF ConnectAgain, Refused
<1>18. QED
  BY <1>10, <1>11, <1>12, <1>13, <1>14, <1>15, <1>16, <1>17 DEF GetAddress, CreateSocket

\* What main uses its sockets for, before the last of them.
LEMMA UsesOfMain ==
    ASSUME Inv, call \in 1 .. 4
    PROVE  /\ call < 3 => Use(Main) = "print"
           /\ ~Tcp /\ call = 4 => Use(Main) # "bind"
<1>1. role \in {"client", "server"}
    BY RolesAssumption DEF Inv, Types
<1>2. call = 1 \/ call = 2 \/ call = 3 \/ call = 4
    OBVIOUS
<1>3. CASE role = "client"  BY <1>2, <1>3 DEF Use, How, Calls
<1>4. CASE role = "server"  BY <1>2, <1>4 DEF Use, How, Calls
<1>5. QED  BY <1>1, <1>3, <1>4

\* main binds one socket, with its third call.
LEMMA StepUnbound ==
    ASSUME Inv, OneInv, NEW a \in Askers, SocketStep(a)
    PROVE  Unbound'
<1> USE DEF SocketStep
<1>1. UNCHANGED <<configVars, main, role, call>> /\ apc[a] \notin {"off", "created", "left"}
      /\ main \notin Ended
    OBVIOUS
<1>2. Tcp' = Tcp
    BY <1>1, SameFile
<1>3. call # 0
    BY <1>1, AskersAre DEF Inv, Order, Types, Ended
<1> SUFFICES ASSUME main = "main", ~Tcp, call < 3 \/ (call = 3 /\ apc'[Main] # "created")
             PROVE  bound' = {}
    BY <1>1, <1>2, <1>3 DEF Unbound
<1>4. a = Main
    BY <1>1, AskersAre DEF Inv, Order
<1>5. bound = {}
    BY <1>1, <1>4 DEF OneInv, Unbound
<1>6. CASE Bind(a, Usable) /\ Use(a) = "bind"
  <2>1. apc'[Main] = "created"
      BY <1>4, <1>6 DEF Bind, Wire, Goto, Inv, Types
  <2>2. call \in 1 .. 4
      BY <1>3 DEF Inv, Types
  <2>3. QED  BY <1>4, <1>6, <2>1, <2>2, UsesOfMain
<1>7. CASE ~(Bind(a, Usable) /\ Use(a) = "bind")
  <2>1. UNCHANGED bound
      BY <1>7 DEF GetAddress, CreateSocket, LockAndFree, Allocate, AllocateFails, ComposePart, Compose, ComposeFails,
             Unlock, Return, Connect, ConnectAgain, Wire, PrintConfiguration
  <2>2. QED  BY <1>5, <2>1
<1>8. QED  BY <1>6, <1>7

LEMMA InitOne == Init => OneInv
<1> SUFFICES ASSUME Init PROVE OneInv
    OBVIOUS
<1> USE DEF Init, ConfigInit, SocketsInit
<1>1. Unbound  BY DEF Unbound
<1>2. Served  BY DEF Served, Holding
<1>3. QED  BY <1>1, <1>2 DEF OneInv

\* While main reads, nobody asks for anything; and what it reads does not end it.
LEMMA ReadOne ==
    ASSUME Inv, OneInv, ReadConfig, UNCHANGED <<socketVars, role, call>>,
           Fine => main' \notin {"killed", "aborted"}
    PROVE  OneInv'
<1>1. /\ main \in {"open", "read"} /\ main' \in {"exit", "read", "killed", "aborted", "main"}
      /\ file' = file
    BY DEF ReadConfig, OpenFails, OpenConfig, SkipEvent, Malformed, ReadSection, ReadPair,
           PairWithoutSection, EndOfFile, KeyFreedTwice, configVars
<1>2. /\ call = 0 /\ call' = 0 /\ bound' = bound
      /\ \A a \in Askers : apc'[a] = "off" /\ apc[a] = "off"
    BY <1>1, AskersAre DEF Inv, Order, socketVars
<1>3. Unbound'  BY <1>2 DEF OneInv, Unbound
<1>4. Served'
  <2>1. \A a \in Askers : Holding(a)'  BY <1>2 DEF Holding
  <2>2. Complete' => Fine
      BY <1>1 DEF Complete, Fine, Flat, EndsInPair
  <2>3. QED  BY <2>1, <2>2 DEF Served, OneThread
<1>5. QED  BY <1>3, <1>4 DEF OneInv

\* Steps that leave the configuration alone and in which nothing fails.
LEMMA StillOne ==
    ASSUME UNCHANGED <<configVars, role, failed>>
    PROVE  /\ OneThread' => OneThread
           /\ NumThreads' = NumThreads /\ (Tcp' <=> Tcp)
           /\ \A k : Address(k)' = Address(k)
<1>1. UNCHANGED <<configVars, role>> /\ failed' = failed
    OBVIOUS
<1>2. /\ (Complete' <=> Complete) /\ (OneThreadSaid' <=> OneThreadSaid)
      /\ (Tcp' <=> Tcp) /\ NumThreads' = NumThreads
      /\ \A k : Address(k)' = Address(k)
    BY <1>1, SameFile
<1>3. OneThread' => Complete' /\ OneThreadSaid' /\ failed' = {}
    BY DEF OneThread
<1>4. QED  BY <1>1, <1>2, <1>3 DEF OneThread

\* And in which nobody but a who is far from the buffer goes on.
LEMMA OthersHold ==
    ASSUME UNCHANGED <<configVars, g_ip, buffer, connection>>, NEW b,
           Holding(b), apc'[b] = apc[b], want'[b] = want[b], wired'[b] = wired[b]
    PROVE  Holding(b)'
<1>1. Address(want[b])' = Address(want[b])
    BY DEF Address, Protocol, Text, configVars
<1>2. QED  BY <1>1 DEF Holding

LEMMA NextCallOne ==
    ASSUME Inv, OneInv, NextCall
    PROVE  OneInv'
<1> USE DEF NextCall, Ask, MainIdle
<1>1. /\ UNCHANGED <<configVars, role, failed>> /\ UNCHANGED <<main, g_ip, buffer, connection, bound>>
      /\ main = "main" /\ call' = call + 1 /\ call < 4
    OBVIOUS
<1>2. /\ apc'[Main] = "lock"
      /\ \A b \in Askers : b # Main => apc'[b] = apc[b] /\ want'[b] = want[b] /\ wired'[b] = wired[b]
    BY AskersAre DEF Goto, Inv, Types
<1>3. Unbound'
  <2>1. Tcp' <=> Tcp  BY <1>1, StillOne
  <2>2. call \in Nat  BY DEF Inv, Types
  <2>3. QED  BY <1>1, <2>1, <2>2 DEF OneInv, Unbound
<1>4. Served'
  <2> SUFFICES ASSUME OneThread' PROVE main' \notin {"killed", "aborted"} /\ \A b \in Askers : Holding(b)'
      BY DEF Served
  <2>1. \A b \in Askers : Holding(b)  BY <1>1, StillOne DEF OneInv, Served
  <2>2. Holding(Main)'  BY <1>2 DEF Holding
  <2>3. \A b \in Askers : b # Main => Holding(b)'
      BY <1>1, <1>2, <2>1, OthersHold
  <2>4. QED  BY <1>1, <2>2, <2>3
<1>5. QED  BY <1>3, <1>4 DEF OneInv

LEMMA StartThreadOne ==
    ASSUME Inv, OneInv, NEW t \in Threads, StartThread(t)
    PROVE  OneInv'
<1> USE DEF StartThread, Ask
<1>1. /\ UNCHANGED <<configVars, role, failed>> /\ UNCHANGED <<main, g_ip, buffer, connection, bound, call>>
      /\ main = "start" /\ t <= NumThreads
    OBVIOUS
<1>2. /\ apc'[t] = "lock" /\ t \in Askers /\ t # Main
      /\ \A b \in Askers : b # t => apc'[b] = apc[b] /\ want'[b] = want[b] /\ wired'[b] = wired[b]
    BY AskersAre DEF Goto, Inv, Types
<1>3. Unbound'
    BY <1>1 DEF OneInv, Unbound, Inv, Order
<1>4. Served'
  <2> SUFFICES ASSUME OneThread' PROVE main' \notin {"killed", "aborted"} /\ \A b \in Askers : Holding(b)'
      BY DEF Served
  <2>1. \A b \in Askers : Holding(b)  BY <1>1, StillOne DEF OneInv, Served
  <2>2. Holding(t)'  BY <1>2 DEF Holding
  <2>3. \A b \in Askers : b # t => Holding(b)'
      BY <1>1, <1>2, <2>1, OthersHold
  <2>4. QED  BY <1>1, <2>2, <2>3
<1>5. QED  BY <1>3, <1>4 DEF OneInv

\* Steps of main that touch no socket, and steps of nobody.
LEMMA MainGoesOnOne ==
    ASSUME Inv, OneInv, UNCHANGED <<configVars, socketVars, role, call>>,
           \/ AllCreated \/ AllStarted \/ main' = main
    PROVE  OneInv'
<1> USE DEF socketVars
<1>1. /\ UNCHANGED <<configVars, role, failed>> /\ UNCHANGED <<g_ip, buffer, connection, bound, call, apc, want, wired>>
    OBVIOUS
<1>2. Unbound'
    BY <1>1, StillOne DEF OneInv, Unbound, AllCreated, AllStarted
<1>3. Served'
  <2> SUFFICES ASSUME OneThread' PROVE main' \notin {"killed", "aborted"} /\ \A b \in Askers : Holding(b)'
      BY DEF Served
  <2>1. main \notin {"killed", "aborted"} /\ \A b \in Askers : Holding(b)
      BY <1>1, StillOne DEF OneInv, Served
  <2>2. \A b \in Askers : Holding(b)'
      BY <1>1, <2>1, OthersHold
  <2>3. QED  BY <2>1, <2>2 DEF AllCreated, AllStarted
<1>4. QED  BY <1>2, <1>3 DEF OneInv

\* A complete configuration names a protocol, so get_zmq_type finds a type, and no
\* negative number of threads.
LEMMA NoTypeOne ==
    ASSUME Inv, OneInv, ConfigIsFile, NoType \/ NegativeLength
    PROVE  OneInv'
<1>1. /\ UNCHANGED <<configVars, role, failed>> /\ UNCHANGED <<call, bound>>
      /\ main' \in {"killed", "aborted"} /\ Read
      /\ Protocol \notin {"udp", "tcp"} \/ NumThreads < 0
    BY DEF NoType, NegativeLength, socketVars, Read
<1>2. Unbound'
    BY <1>1 DEF OneInv, Unbound
<1>3. ~OneThread'
  <2>1. ~OneThread
      BY <1>1, SaidIsRead DEF OneThread
  <2>2. QED  BY <1>1, <2>1, StillOne
<1>4. QED  BY <1>2, <1>3 DEF OneInv, Served

\* No asserted call of libzmq fails, and none is given NULL.
LEMMA AbortOne ==
    ASSUME Inv, OneInv, ConfigIsFile, NEW a \in Askers, Abort(a)
    PROVE  OneInv'
<1>1. /\ UNCHANGED <<configVars, role, call, bound>> /\ main' = "aborted" /\ main \notin Ended
      /\ apc[a] = "use" /\ apc' = apc
    BY DEF Abort, WireFails, RadioFails, At
<1>2. Unbound'
    BY <1>1 DEF OneInv, Unbound
<1>3. ASSUME OneThread' PROVE FALSE
  <2>1. failed' = {}
      BY <1>3 DEF OneThread
  <2>2. failed' = failed
      BY <2>1 DEF Abort, WireFails, RadioFails, Refused
  <2>3. OneThread /\ \A b \in Askers : Holding(b)
      BY <1>1, <1>3, <2>2, StillOne DEF OneInv, Served
  <2>4. Read /\ ~Tcp
    <3>1. Read  BY <1>1, AskersAre DEF Inv, Order, Types, Ended, Read
    <3>2. QED  BY <2>3, <3>1, SaidIsRead DEF OneThread
  <2>5. connection[a] \in Cells /\ There(a) = Address(want[a]) /\ There(a) \in Usable
    <3>1. connection[a] \in Cells /\ buffer[connection[a]] = Address(want[a])
        BY <1>1, <2>3 DEF Holding
    <3>2. There(a) = Address(want[a])  BY <3>1, SocketsAssumption DEF There
    <3>3. QED  BY <1>1, <2>3, <2>4, <3>1, <3>2, AskedIsUsable DEF OneThread
  <2>6. CASE Use(a) = "bind"
    <3>1. a = Main
        BY <2>4, <2>6 DEF Use, How
    <3>2. main = "main" /\ call \in 1 .. 4
        BY <1>1, <3>1, AskersAre DEF Inv, Order, Types, Ended
    <3>3. call < 3 \/ call = 3
        BY <2>4, <2>6, <3>1, <3>2, UsesOfMain
    <3>4. bound = {}
        BY <1>1, <2>4, <3>1, <3>2, <3>3 DEF OneInv, Unbound
    <3>5. There(a) \in Usable \ bound  BY <2>5, <3>4
    <3>6. ~WireFails(a, Usable \ bound)
        BY <2>1, <3>5 DEF WireFails, Refused
    <3>7. QED  BY <2>6, <3>6 DEF Abort
  <2>7. CASE Use(a) # "bind"
    <3>1. ~WireFails(a, Usable \ {})
        BY <2>1, <2>5 DEF WireFails, Refused
    <3>2. ~RadioFails(a)
        BY <2>1, <2>5, SocketsAssumption DEF RadioFails
    <3>3. QED  BY <2>7, <3>1, <3>2 DEF Abort
  <2>8. QED  BY <2>6, <2>7
<1>4. QED  BY <1>2, <1>3 DEF OneInv, Served

\* The threads have left: nobody needs the buffer any more.
LEMMA FinishOne ==
    ASSUME Inv, OneInv, Finish
    PROVE  OneInv'
<1>1. /\ main = "join" /\ main' = "done" /\ call' = 4 /\ UNCHANGED <<file, role, failed, apc, want, wired>>
    BY DEF Finish, Inv, Order
<1>2. Unbound'
    BY <1>1 DEF Unbound
<1>3. OneThread' => OneThread
  <2>1. (Complete' <=> Complete) /\ (OneThreadSaid' <=> OneThreadSaid)
      BY <1>1 DEF Complete, OneThreadSaid, Flat, Said, Given, LastPlace
  <2>2. OneThread' => Complete' /\ OneThreadSaid' /\ failed' = {}  BY DEF OneThread
  <2>3. QED  BY <1>1, <2>1, <2>2 DEF OneThread
<1>4. \A a \in Askers : apc[a] \notin {"unlock", "return", "use"}
    BY <1>1, AskersAre DEF Finish, Inv, Order
<1>5. OneThread => \A a \in Askers : Holding(a)'
    BY <1>1, <1>4 DEF OneInv, Served, Holding
<1>6. QED  BY <1>1, <1>2, <1>3, <1>5 DEF OneInv, Served

LEMMA ThreadLeavesOne ==
    ASSUME Inv, OneInv, NEW t \in Threads, ThreadLeaves(t)
    PROVE  OneInv'
<1> USE DEF ThreadLeaves
<1>1. /\ UNCHANGED <<configVars, role, failed>>
      /\ UNCHANGED <<main, g_ip, buffer, connection, bound, call, want, wired>>
    OBVIOUS
<1>2. /\ apc[t] = "created" /\ apc'[t] = "left" /\ t \in Askers /\ t # Main
      /\ \A b \in Askers : b # t => apc'[b] = apc[b]
    BY AskersAre DEF Goto, At, Inv, Types
<1>3. Unbound'
  <2>1. Tcp' <=> Tcp  BY <1>1, StillOne
  <2>2. QED  BY <1>1, <1>2, <2>1, AskersAre DEF OneInv, Unbound
<1>4. Served'
  <2> SUFFICES ASSUME OneThread' PROVE main' \notin {"killed", "aborted"} /\ \A b \in Askers : Holding(b)'
      BY DEF Served
  <2>1. main \notin {"killed", "aborted"} /\ \A b \in Askers : Holding(b)
      BY <1>1, StillOne DEF OneInv, Served
  <2>2. Holding(t)'  BY <1>1, <1>2, <2>1 DEF Holding
  <2>3. \A b \in Askers : b # t => Holding(b)'
      BY <1>1, <1>2, <2>1, OthersHold
  <2>4. QED  BY <1>1, <2>1, <2>2, <2>3
<1>5. QED  BY <1>3, <1>4 DEF OneInv

\* Only the reader's own steps matter to where it is.
LEMMA ReadsOnStays ==
    ASSUME ReadsOn, Inv, FollowsFile, ReadTypes, LoopLimit >= 4, [Next]_vars
    PROVE  ReadsOn'
<1>1. CASE ReadConfig
    BY <1>1, ReadReadsOn
<1>2. CASE \/ NextCall \/ NoType \/ NegativeLength \/ AllCreated \/ AllStarted
           \/ (\E t \in Threads : StartThread(t)) \/ Finish
    BY <1>2 DEF NextCall, NoType, NegativeLength, AllCreated, AllStarted, StartThread, Finish, ReadsOn
<1>3. CASE \E a \in Askers : SocketStep(a) \/ Abort(a)
  <2>1. main' \notin {"open", "read"}
    <3>1. PICK a \in Askers : SocketStep(a) \/ Abort(a)  BY <1>3
    <3>2. apc[a] # "off" /\ main' \in {main, "aborted"}  BY <3>1 DEF SocketStep, Abort, At
    <3>3. main \notin {"open", "read"}  BY <3>2, AskersAre DEF Inv, Order
    <3>4. QED  BY <3>2, <3>3
  <2>2. QED  BY <2>1 DEF ReadsOn
<1>4. CASE \E t \in Threads : ThreadLeaves(t)
  <2>1. main' = main /\ main \notin {"open", "read"}
    <3>1. PICK t \in Threads : ThreadLeaves(t)  BY <1>4
    <3>2. QED  BY <3>1 DEF ThreadLeaves, At, Inv, Order
  <2>2. QED  BY <2>1 DEF ReadsOn
<1>5. CASE UNCHANGED vars
  <2>1. UNCHANGED <<configVars, main>>  BY <1>5 DEF vars
  <2>2. (Fine' <=> Fine) /\ Off' = Off  BY <2>1 DEF Fine, Flat, Off, configVars
  <2>3. QED  BY <2>1, <2>2 DEF ReadsOn, configVars
<1>6. QED  BY <1>1, <1>2, <1>3, <1>4, <1>5 DEF Next, MainStep

LEMMA NextOne ==
    ASSUME OneInv, Inv, ReadsOn, FollowsFile, ReadInvariant, LoopLimit >= 4, [Next]_vars
    PROVE  OneInv'
<1>0. ConfigIsFile /\ ReadTypes  BY ReadAsSaid DEF ReadInvariant
<1>1. CASE ReadConfig /\ UNCHANGED <<socketVars, role, call>>
    BY <1>0, <1>1, ReadReadsOn, ReadOne
<1>2. CASE NextCall  BY <1>2, NextCallOne
<1>3. CASE NoType \/ NegativeLength  BY <1>0, <1>3, NoTypeOne
<1>4. CASE AllCreated \/ AllStarted
  <2>1. UNCHANGED <<configVars, socketVars, role, call>>  BY <1>4 DEF AllCreated, AllStarted
  <2>2. QED  BY <1>4, <2>1, MainGoesOnOne
<1>5. CASE \E t \in Threads : StartThread(t)  BY <1>5, StartThreadOne
<1>6. CASE Finish  BY <1>6, FinishOne
<1>7. CASE \E a \in Askers : SocketStep(a)
    BY <1>0, <1>7, StepServed, StepUnbound DEF OneInv
<1>8. CASE \E a \in Askers : Abort(a)  BY <1>0, <1>8, AbortOne
<1>9. CASE \E t \in Threads : ThreadLeaves(t)  BY <1>9, ThreadLeavesOne
<1>10. CASE UNCHANGED vars
  <2>1. UNCHANGED <<configVars, socketVars, role, call>> /\ main' = main  BY <1>10 DEF vars
  <2>2. QED  BY <2>1, MainGoesOnOne
<1>11. QED
  BY <1>1, <1>2, <1>3, <1>4, <1>5, <1>6, <1>7, <1>8, <1>9, <1>10 DEF Next, MainStep

\* With a complete UDP file of at most one thread and a system that refuses
\* nothing, main reads the file to its end, the process does not end early and
\* every thread's radio is connected: for any such file, any place of the buffers
\* and any order of the steps, when at least four events without a scalar between
\* them are put up with (read_config, create_socket, get_address).
THEOREM OneThreadIsServed == ASSUME LoopLimit >= 4 PROVE Spec => []OneThreadStarts
<1>1. Init => ReadsOn /\ OneInv
    BY InitReadsOn, InitOne
<1>2. /\ ReadsOn /\ OneInv /\ Inv /\ FollowsFile /\ ReadInvariant /\ [Next]_vars
      => ReadsOn' /\ OneInv'
    BY ReadsOnStays, NextOne DEF ReadInvariant
<1>3. OneInv => OneThreadStarts
  <2>1. \A t \in Threads : t \in Askers /\ t # Main  BY AskersAre
  <2>2. QED  BY <2>1 DEF OneInv, Served, OneThread, OneThreadStarts, Holding
<1>4. QED  BY <1>1, <1>2, <1>3, InvHolds, FollowsHolds, ReadHolds, PTL DEF Spec
=============================================================================
