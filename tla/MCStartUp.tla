------------------------------ MODULE MCStartUp ------------------------------
(***************************************************************************)
(* Configuration files for the model of the start: complete ones, which    *)
(* reach the threads, and short ones with sections and pairs in any order. *)
(***************************************************************************)
EXTENDS StartUp, TLC

CONSTANT MaxSections    \* bound: the sections of the short files

MCStrings == {"main_address", "responder_address", "protocol"}
MCInteger == {<<"general", "num_threads">>, <<"client", "sleep_starting_time">>,
              <<"server", "sleep_starting_time">>}

\* 9 is beyond an int of 8 values, -4 .. 3, as 2^32 + 1 is beyond one of 32 bits.
MCNumerals == "1" :> 1 @@ "2" :> 2 @@ "9" :> 9

MCTooLong == {<<"udp", "long">>}

GeneralWith(protocol, address, threads) ==
    [name |-> "general",
     pairs |-> <<<<"protocol", protocol>>, <<"main_address", address>>,
                 <<"responder_address", "there">>, <<"num_threads", threads>>>>]
Client == [name |-> "client", pairs |-> <<<<"sleep_starting_time", "1">>>>]
Server == [name |-> "server", pairs |-> <<<<"sleep_starting_time", "2">>>>]

CompleteFiles ==
    {<<GeneralWith("udp", "here", n)>> : n \in {"1", "2", "9", "many"}}
        \cup {<<GeneralWith("tcp", "here", "1"), Client, Server>>, <<GeneralWith("udp", "here", "1"), [Client EXCEPT !.pairs = <<>>]>>,
               <<GeneralWith("udp", "long", "1")>>,
              <<GeneralWith("ipc", "here", "1")>>, <<Client, GeneralWith("udp", "here", "2")>>}

\* Keys of general and of client in any section or in none, a list among them;
\* and one section with any two pairs.
Pairs == {<<"protocol", "udp">>, <<"sleep_starting_time", "many">>, <<"list", Other>>}
Sections(n) == [name : {"general", "client", None}, pairs : SeqOf(Pairs, n)]
ShortFiles ==
    SeqOf(Sections(1), MaxSections)
        \cup {<<section>> : section \in Sections(2)}
        \cup {<<[name |-> "general", pairs |-> <<<<"protocol", "tcp">>, <<"protocol", "udp">>>>]>>}

MCDocuments == CompleteFiles \cup ShortFiles
=============================================================================
