----------------------------- MODULE StatsStore -----------------------------
(***************************************************************************)
(* The statistics of the server: process_json_message of fs_utils.c, which *)
(* server_thread calls for every message, save_stats_to_file, which        *)
(* stats_saver_thread calls over and over and main once more at the end,   *)
(* and the part of the server's main that stops the two threads.           *)
(*                                                                         *)
(* A record is the number of the message it is about, counted in the order *)
(* of arrival.  The CSV and the JSON branch write the same records.        *)
(***************************************************************************)
EXTENDS Integers, Sequences, FiniteSets

CONSTANTS MaxMessages,  \* MAX_MESSAGES
          Total,        \* bound: the messages the server receives
          MaxFiles,     \* bound: the last value of file_counter
          MaxFailures,  \* bound: the calls of fopen that fail
          CancelPoints  \* where a cancelled thread ends: in sleep, and in stdio?

ASSUME StatsAssumption == /\ MaxMessages \in Nat \ {0}
                          /\ Total \in Nat
                          /\ MaxFiles \in Nat
                          /\ MaxFailures \in Nat
                          /\ CancelPoints \subseteq {"sleep", "open", "write"}

Savers == {"saver", "main"}
Nobody == "nobody"

VARIABLES spc,          \* server_thread: "receive" or "done"
          processed,    \* the messages it has handed to process_json_message
          json,         \* g_json_messages
          lock,         \* the holder of json_mutex
          pc,           \* where stats_saver_thread and main are
          cancelled,    \* has main called pthread_cancel?
          file_counter,
          free_space,   \* the local of the save in progress
          files,        \* the content of the files on disk, by file_counter
          written,      \* history: the records that were ever in a closed file
          failures      \* history: the calls of fopen that failed

vars == <<spc, processed, json, lock, pc, cancelled, file_counter, free_space, files, written,
          failures>>
saveVars == <<file_counter, free_space, files, written, failures>>

Init ==
    /\ spc = "receive"
    /\ processed = 0
    /\ json = <<>>
    /\ lock = Nobody
    /\ pc = [saver |-> "sleep", main |-> "join"]
    /\ cancelled = FALSE
    /\ file_counter = 0
    /\ free_space = FALSE
    /\ files = [n \in 0 .. MaxFiles |-> <<>>]
    /\ written = {}
    /\ failures = 0

Goto(c, label) == pc' = [pc EXCEPT ![c] = label]
Records(s) == {s[i] : i \in DOMAIN s}

\* Mutation: main goes back to where the saver sleeps.
AfterSave_Loop(c) == "sleep"

\* Where a caller goes on after save_stats_to_file.
AfterSave(c) == IF c = "saver" THEN "sleep" ELSE "stop"
-----------------------------------------------------------------------------
(***************************************************************************)
(* server_thread                                                           *)
(***************************************************************************)

\* Mutation: json_mutex is not taken.
Process_Unlocked ==
    /\ spc = "receive"
    /\ processed < Total
    /\ processed' = processed + 1
    /\ json' = Append(json, processed')
    /\ UNCHANGED <<spc, lock, pc, cancelled, saveVars>>

\* process_json_message.
Process ==
    /\ spc = "receive"
    /\ processed < Total
    /\ lock = Nobody
    /\ processed' = processed + 1
    /\ json' = Append(json, processed')
    /\ UNCHANGED <<spc, lock, pc, cancelled, saveVars>>

\* A STOP arrived.
ServerEnds ==
    /\ spc = "receive"
    /\ spc' = "done"
    /\ UNCHANGED <<processed, json, lock, pc, cancelled, saveVars>>
-----------------------------------------------------------------------------
(***************************************************************************)
(* save_stats_to_file                                                      *)
(***************************************************************************)

\* Called: nothing to do when there is no record.  json_mutex is not held yet.
CallSave(c) ==
    /\ pc[c] = IF c = "saver" THEN "sleep" ELSE "save"
    /\ Goto(c, IF json = <<>> THEN AfterSave(c) ELSE "lock")
    /\ UNCHANGED <<spc, processed, json, lock, cancelled, saveVars>>

\* With MAX_MESSAGES records or more the file gets a new name, and the records
\* will be dropped once they are in it.
LockAndName(c) ==
    /\ pc[c] = "lock"
    /\ lock = Nobody
    /\ lock' = c
    /\ free_space' = (Len(json) >= MaxMessages)
    /\ IF Len(json) >= MaxMessages
       THEN file_counter < MaxFiles /\ file_counter' = file_counter + 1
       ELSE UNCHANGED file_counter
    /\ Goto(c, "open")
    /\ UNCHANGED <<spc, processed, json, cancelled, files, written, failures>>

\* fopen with "w": what was in a file of that name is gone.
OpenFile(c) ==
    /\ pc[c] = "open"
    /\ files' = [files EXCEPT ![file_counter] = <<>>]
    /\ Goto(c, "write")
    /\ UNCHANGED <<spc, processed, json, lock, cancelled, file_counter, free_space, written,
                   failures>>

\* Mutation: the early return keeps json_mutex.
OpenFails_KeepLock(c) ==
    /\ pc[c] = "open"
    /\ failures < MaxFailures
    /\ failures' = failures + 1
    /\ Goto(c, AfterSave(c))
    /\ UNCHANGED <<spc, processed, json, lock, cancelled, file_counter, free_space, files,
                   written>>

\* fopen fails: the records stay, and the new file_counter too.
OpenFails(c) ==
    /\ pc[c] = "open"
    /\ failures < MaxFailures
    /\ failures' = failures + 1
    /\ lock' = Nobody
    /\ Goto(c, AfterSave(c))
    /\ UNCHANGED <<spc, processed, json, cancelled, file_counter, free_space, files, written>>

\* All records are written and the file is closed.
WriteFile(c) ==
    /\ pc[c] = "write"
    /\ files' = [files EXCEPT ![file_counter] = json]
    /\ written' = written \cup Records(json)
    /\ Goto(c, "unlock")
    /\ UNCHANGED <<spc, processed, json, lock, cancelled, file_counter, free_space, failures>>

\* A full array is replaced by an empty one.
ClearAndUnlock(c) ==
    /\ pc[c] = "unlock"
    /\ json' = IF free_space THEN <<>> ELSE json
    /\ lock' = Nobody
    /\ Goto(c, AfterSave(c))
    /\ UNCHANGED <<spc, processed, cancelled, saveVars>>
-----------------------------------------------------------------------------
(***************************************************************************)
(* The end of main                                                         *)
(***************************************************************************)

\* pthread_join on server_thread, then pthread_cancel of the saver.
CancelSaver ==
    /\ pc["main"] = "join"
    /\ spc = "done"
    /\ cancelled' = TRUE
    /\ Goto("main", "join saver")
    /\ UNCHANGED <<spc, processed, json, lock, saveVars>>

\* The cancelled saver ends at its next cancellation point.  Of a file that is
\* being written any part may have reached the disk.  No mutex is given back.
SaverDies ==
    /\ cancelled
    /\ pc["saver"] \in CancelPoints
    /\ \/ pc["saver"] # "write" /\ UNCHANGED files
       \/ /\ pc["saver"] = "write"
          /\ \E n \in 0 .. Len(json) :
                files' = [files EXCEPT ![file_counter] = SubSeq(json, 1, n)]
    /\ Goto("saver", "dead")
    /\ UNCHANGED <<spc, processed, json, lock, cancelled, file_counter, free_space, written,
                   failures>>

\* Mutation: the final save is left out.
JoinSaver_NoSave ==
    /\ pc["main"] = "join saver"
    /\ pc["saver"] = "dead"
    /\ Goto("main", "stop")
    /\ UNCHANGED <<spc, processed, json, lock, cancelled, saveVars>>

\* pthread_join on the saver, then on to the final save.
JoinSaver ==
    /\ pc["main"] = "join saver"
    /\ pc["saver"] = "dead"
    /\ Goto("main", "save")
    /\ UNCHANGED <<spc, processed, json, lock, cancelled, saveVars>>

\* STOP goes to the responder of the client, and main returns.
MainReturns ==
    /\ pc["main"] = "stop"
    /\ Goto("main", "done")
    /\ UNCHANGED <<spc, processed, json, lock, cancelled, saveVars>>

Save(c) ==
    \/ CallSave(c) \/ LockAndName(c) \/ OpenFile(c) \/ OpenFails(c)
    \/ WriteFile(c) \/ ClearAndUnlock(c)

MainSteps == CancelSaver \/ JoinSaver \/ MainReturns \/ Save("main")

Next == Process \/ ServerEnds \/ (\E c \in Savers : Save(c)) \/ SaverDies \/ MainSteps

Spec == Init /\ [][Next]_vars

\* Every thread runs on, and a STOP arrives at last.  The sleep of the saver is
\* long against the other steps, so that one that is cancelled in it dies there.
Fairness == /\ WF_vars(ServerEnds)
            /\ SF_vars(SaverDies)
            /\ WF_vars(Save("saver"))
            /\ SF_vars(MainSteps)

FairSpec == Spec /\ Fairness
-----------------------------------------------------------------------------
Saving == {"lock", "open", "write", "unlock"}

TypeOK ==
    /\ spc \in {"receive", "done"}
    /\ processed \in 0 .. Total
    /\ json \in Seq(1 .. Total)
    /\ lock \in Savers \cup {Nobody}
    /\ DOMAIN pc = Savers
    /\ pc["saver"] \in Saving \cup {"sleep", "dead"}
    /\ pc["main"] \in Saving \cup {"join", "join saver", "save", "stop", "done"}
    /\ cancelled \in BOOLEAN
    /\ file_counter \in 0 .. MaxFiles
    /\ free_space \in BOOLEAN
    /\ files \in [0 .. MaxFiles -> Seq(1 .. Total)]
    /\ written \subseteq 1 .. Total
    /\ failures \in 0 .. MaxFailures

\* A record leaves memory only after it was in a file that was closed, although
\* server_thread adds records while another thread saves them.
ClearedWereWritten == 1 .. processed \subseteq Records(json) \cup written

\* With fewer than MAX_MESSAGES messages, and if every file can be opened, the file
\* holds them all, once each and in order, when main returns: saves and
\* cancellations in between lose nothing.
SmallRunSaved ==
    pc["main"] = "done" /\ processed < MaxMessages /\ failures = 0 =>
        files[0] = [i \in 1 .. processed |-> i]

\* The server's main gets to its end, and the responder of the client is told.
MainFinishes == <>(pc["main"] = "done")

\* "Max messages per file"
MaxPerFile == \A n \in DOMAIN files : Len(files[n]) <= MaxMessages

\* When main returns, every message the server received is in some file.
AllSaved ==
    pc["main"] = "done" =>
        1 .. processed \subseteq UNION {Records(files[n]) : n \in DOMAIN files}
=============================================================================
