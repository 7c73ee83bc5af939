-------------------------- MODULE StatsStore_proofs --------------------------
(***************************************************************************)
(* Proofs about module StatsStore, for any MAX_MESSAGES, any number of     *)
(* messages and any points at which the saver may be cancelled: types,     *)
(* that no record leaves memory unwritten, and that a small run is saved.  *)
(* They rest on json_mutex and on the order in which main ends.            *)
(***************************************************************************)
EXTENDS StatsStore, TLAPS

LEMMA TwoSavers == Savers = {"saver", "main"} /\ Nobody \notin Savers
BY DEF Savers, Nobody

\* A save goes on after it in a place of its caller.
LEMMA AfterSaveIs ==
    ASSUME NEW c \in Savers
    PROVE  AfterSave(c) = IF c = "saver" THEN "sleep" ELSE "stop"
BY DEF AfterSave

\* json as a sequence: one record more is at its end, and some first ones.
LEMMA AppendRecord ==
    ASSUME NEW S, NEW s \in Seq(S), NEW x \in S
    PROVE  /\ Append(s, x) \in Seq(S) /\ Len(Append(s, x)) = Len(s) + 1
           /\ Append(s, x)[Len(s) + 1] = x
           /\ \A i \in 1 .. Len(s) : Append(s, x)[i] = s[i]
           /\ Records(Append(s, x)) = Records(s) \cup {x}
<1>1. /\ Append(s, x) \in Seq(S) /\ Len(Append(s, x)) = Len(s) + 1
      /\ Append(s, x)[Len(s) + 1] = x
      /\ \A i \in 1 .. Len(s) : Append(s, x)[i] = s[i]
      /\ DOMAIN s = 1 .. Len(s) /\ DOMAIN Append(s, x) = 1 .. Len(s) + 1
      /\ Len(s) \in Nat
    OBVIOUS
<1> DEFINE a == Append(s, x)
<1> HIDE DEF a
<1>2. \A i \in 1 .. Len(s) + 1 : i = Len(s) + 1 \/ i \in 1 .. Len(s)
    BY <1>1
<1>3. Records(a) \subseteq Records(s) \cup {x}
    BY <1>1, <1>2 DEF Records, a
<1>4. Records(s) \subseteq Records(a) /\ x \in Records(a)
    <2>1. \A i \in 1 .. Len(s) : i \in DOMAIN a /\ a[i] = s[i]
        BY <1>1 DEF a
    <2>2. Len(s) + 1 \in DOMAIN a /\ a[Len(s) + 1] = x
        BY <1>1 DEF a
    <2> QED
        BY <1>1, <2>1, <2>2 DEF Records
<1> QED
    BY <1>1, <1>3, <1>4 DEF a

LEMMA RecordsType ==
    ASSUME NEW S, NEW s \in Seq(S)
    PROVE  Records(s) \subseteq S
<1>1. \A i \in DOMAIN s : s[i] \in S
    OBVIOUS
<1> QED
    BY <1>1 DEF Records

LEMMA FirstRecords ==
    ASSUME NEW S, NEW s \in Seq(S), NEW n \in 0 .. Len(s)
    PROVE  SubSeq(s, 1, n) \in Seq(S)
OBVIOUS
-----------------------------------------------------------------------------
(***************************************************************************)
(* Types, and who holds json_mutex.  The saver may die with the mutex, so  *)
(* that the converse does not hold.                                        *)
(***************************************************************************)

Holding == {"open", "write", "unlock"}
Locked == \A c \in Savers : pc[c] \in Holding => lock = c
TypeInv == TypeOK /\ Locked

LEMMA InitType == Init => TypeInv
<1> SUFFICES ASSUME Init
             PROVE  TypeInv
    OBVIOUS
<1>1. <<>> \in Seq(1 .. Total)
    OBVIOUS
<1>2. 0 \in 0 .. MaxFiles /\ 0 \in 0 .. MaxFailures /\ 0 \in 0 .. Total
    BY StatsAssumption
<1>3. files \in [0 .. MaxFiles -> Seq(1 .. Total)]
    BY <1>1 DEF Init
<1>4. TypeOK
    BY <1>1, <1>2, <1>3, TwoSavers DEF Init, TypeOK
<1>5. Locked
    BY DEF Init, Locked, Holding, Savers
<1> QED
    BY <1>4, <1>5 DEF TypeInv

\* A caller goes on where it may be.
LEMMA GotoType ==
    ASSUME TypeInv, NEW c \in Savers,
           NEW label \in Saving \cup {AfterSave(c)}, Goto(c, label)
    PROVE  /\ DOMAIN pc' = Savers
           /\ pc'["saver"] \in Saving \cup {"sleep", "dead"}
           /\ pc'["main"] \in Saving \cup {"join", "join saver", "save", "stop", "done"}
           /\ pc'[c] = label
           /\ \A d \in Savers : d # c => pc'[d] = pc[d]
<1>1. DOMAIN pc = Savers /\ "saver" \in Savers /\ "main" \in Savers
    BY TwoSavers DEF TypeInv, TypeOK
<1>2. pc'[c] = label /\ DOMAIN pc' = Savers /\ \A d \in Savers : d # c => pc'[d] = pc[d]
    BY <1>1 DEF Goto
<1>3. CASE c = "saver"
    <2>1. label \in Saving \cup {"sleep", "dead"}
        BY <1>3 DEF AfterSave
    <2>2. pc'["main"] = pc["main"]
        BY <1>1, <1>2, <1>3
    <2> QED
        BY <1>2, <1>3, <2>1, <2>2 DEF TypeInv, TypeOK
<1>4. CASE c = "main"
    <2>1. label \in Saving \cup {"stop"}
        BY <1>4 DEF AfterSave
    <2>2. pc'["saver"] = pc["saver"]
        BY <1>1, <1>2, <1>4
    <2> QED
        BY <1>2, <1>4, <2>1, <2>2 DEF TypeInv, TypeOK
<1> QED
    BY <1>3, <1>4, TwoSavers

\* What one caller of save_stats_to_file does.
LEMMA SaveType ==
    ASSUME TypeInv, NEW c \in Savers, Save(c)
    PROVE  TypeInv'
<1>0. PICK label \in Saving \cup {AfterSave(c)} :
            /\ Goto(c, label)
            /\ label \in Holding => lock' = c
            /\ pc[c] # "dead"
    <2> USE DEF TypeInv, Locked, Holding, Saving
    <2>0. AfterSave(c) \notin Holding
        BY DEF AfterSave
    <2>1. CASE CallSave(c)
        BY <2>1, <2>0 DEF CallSave
    <2>2. CASE LockAndName(c)
        BY <2>2 DEF LockAndName
    <2>3. CASE OpenFile(c)
        BY <2>3 DEF OpenFile
    <2>4. CASE OpenFails(c)
        BY <2>4, <2>0 DEF OpenFails
    <2>5. CASE WriteFile(c)
        BY <2>5 DEF WriteFile
    <2>6. CASE ClearAndUnlock(c)
        BY <2>6, <2>0 DEF ClearAndUnlock
    <2> QED
        BY <2>1, <2>2, <2>3, <2>4, <2>5, <2>6 DEF Save
<1>1. TypeOK'
    <2>1. /\ spc' = spc /\ processed' = processed /\ cancelled' = cancelled
          /\ json' \in Seq(1 .. Total) /\ lock' \in Savers \cup {Nobody}
        <3>1. <<>> \in Seq(1 .. Total)
            OBVIOUS
        <3> QED
            BY <3>1 DEF Save, CallSave, LockAndName, OpenFile, OpenFails, WriteFile,
               ClearAndUnlock, saveVars, TypeInv, TypeOK
    <2>2. file_counter' \in 0 .. MaxFiles /\ free_space' \in BOOLEAN
        <3>1. file_counter \in 0 .. MaxFiles /\ free_space \in BOOLEAN
            BY DEF TypeInv, TypeOK
        <3>2. CASE LockAndName(c)
            BY <3>1, <3>2, StatsAssumption DEF LockAndName
        <3>3. CASE CallSave(c) \/ OpenFile(c) \/ OpenFails(c) \/ WriteFile(c) \/ ClearAndUnlock(c)
            <4>1. UNCHANGED <<file_counter, free_space>>
                BY <3>3 DEF CallSave, OpenFile, OpenFails, WriteFile, ClearAndUnlock, saveVars
            <4> QED
                BY <3>1, <4>1
        <3> QED
            BY <3>2, <3>3 DEF Save
    <2>3. failures' \in 0 .. MaxFailures
        <3>1. failures \in 0 .. MaxFailures
            BY DEF TypeInv, TypeOK
        <3>2. CASE OpenFails(c)
            BY <3>1, <3>2, StatsAssumption DEF OpenFails
        <3>3. CASE CallSave(c) \/ LockAndName(c) \/ OpenFile(c) \/ WriteFile(c) \/ ClearAndUnlock(c)
            <4>1. UNCHANGED failures
                BY <3>3 DEF CallSave, LockAndName, OpenFile, WriteFile, ClearAndUnlock, saveVars
            <4> QED
                BY <3>1, <4>1
        <3> QED
            BY <3>2, <3>3 DEF Save
    <2>4. files' \in [0 .. MaxFiles -> Seq(1 .. Total)]
        <3>0. json \in Seq(1 .. Total)
            BY DEF TypeInv, TypeOK
        <3>1. <<>> \in Seq(1 .. Total) /\ json \in Seq(1 .. Total)
            BY <3>0
        <3>2. files \in [0 .. MaxFiles -> Seq(1 .. Total)]
            BY DEF TypeInv, TypeOK
        <3>3. CASE OpenFile(c)
            BY <3>1, <3>2, <3>3 DEF OpenFile
        <3>4. CASE WriteFile(c)
            BY <3>1, <3>2, <3>4 DEF WriteFile
        <3>5. ~OpenFile(c) /\ ~WriteFile(c) => UNCHANGED files
            BY DEF Save, CallSave, LockAndName, OpenFails, ClearAndUnlock, saveVars
        <3> QED
            BY <3>2, <3>3, <3>4, <3>5
    <2>5. written' \subseteq 1 .. Total
        <3>0. json \in Seq(1 .. Total) /\ written \subseteq 1 .. Total
            BY DEF TypeInv, TypeOK
        <3>1. Records(json) \subseteq 1 .. Total /\ written \subseteq 1 .. Total
            BY <3>0, RecordsType
        <3>2. CASE WriteFile(c)
            BY <3>1, <3>2 DEF WriteFile
        <3>3. ~WriteFile(c) => UNCHANGED written
            BY DEF Save, CallSave, LockAndName, OpenFile, OpenFails, ClearAndUnlock, saveVars
        <3> QED
            BY <3>1, <3>2, <3>3
    <2>6. /\ DOMAIN pc' = Savers
          /\ pc'["saver"] \in Saving \cup {"sleep", "dead"}
          /\ pc'["main"] \in Saving \cup {"join", "join saver", "save", "stop", "done"}
        BY <1>0, GotoType
    <2> QED
        BY <2>1, <2>2, <2>3, <2>4, <2>5, <2>6 DEF TypeInv, TypeOK
<1>2. Locked'
    <2> SUFFICES ASSUME NEW d \in Savers, pc'[d] \in Holding
                 PROVE  lock' = d
        BY DEF Locked
    <2>1. CASE d = c
        BY <1>0, <2>1, GotoType
    <2>2. CASE d # c
        <3>1. lock = d
            BY <1>0, <2>2, GotoType DEF TypeInv, Locked
        <3>2. lock' = lock
            BY <2>2, <3>1, TwoSavers DEF Save, CallSave, LockAndName, OpenFile, OpenFails,
               WriteFile, ClearAndUnlock, TypeInv, Locked, Holding
        <3> QED
            BY <3>1, <3>2
    <2> QED
        BY <2>1, <2>2
<1> QED
    BY <1>1, <1>2 DEF TypeInv

\* What server_thread does with one message.
LEMMA ProcessFacts ==
    ASSUME TypeInv, Process
    PROVE  /\ processed \in Nat /\ processed' = processed + 1 /\ processed' \in 1 .. Total
           /\ json' = Append(json, processed') /\ json \in Seq(1 .. Total)
           /\ spc = "receive" /\ lock = Nobody
           /\ UNCHANGED <<spc, lock, pc, cancelled, saveVars>>
           /\ json' \in Seq(1 .. Total) /\ Records(json') = Records(json) \cup {processed'}
           /\ Len(json') = Len(json) + 1 /\ json'[Len(json) + 1] = processed'
           /\ \A i \in 1 .. Len(json) : json'[i] = json[i]
<1>1. processed \in 0 .. Total /\ json \in Seq(1 .. Total)
    BY DEF TypeInv, TypeOK
<1>2. /\ processed \in Nat /\ processed' = processed + 1 /\ processed' \in 1 .. Total
      /\ json' = Append(json, processed')
      /\ spc = "receive" /\ lock = Nobody
      /\ UNCHANGED <<spc, lock, pc, cancelled, saveVars>>
    BY <1>1, StatsAssumption DEF Process
<1> DEFINE x == processed'
<1> HIDE DEF x
<1>3. x \in 1 .. Total /\ json' = Append(json, x)
    BY <1>2 DEF x
<1>4. /\ Append(json, x) \in Seq(1 .. Total) /\ Len(Append(json, x)) = Len(json) + 1
      /\ Append(json, x)[Len(json) + 1] = x
      /\ \A i \in 1 .. Len(json) : Append(json, x)[i] = json[i]
      /\ Records(Append(json, x)) = Records(json) \cup {x}
    <2> DEFINE R == 1 .. Total
    <2>1. json \in Seq(R) /\ x \in R
        BY <1>1, <1>3
    <2> HIDE DEF R
    <2>2. /\ Append(json, x) \in Seq(R) /\ Len(Append(json, x)) = Len(json) + 1
          /\ Append(json, x)[Len(json) + 1] = x
          /\ \A i \in 1 .. Len(json) : Append(json, x)[i] = json[i]
          /\ Records(Append(json, x)) = Records(json) \cup {x}
        BY <2>1, AppendRecord
    <2> QED
        BY <2>2 DEF R
<1>5. /\ json' \in Seq(1 .. Total) /\ Records(json') = Records(json) \cup {x}
      /\ Len(json') = Len(json) + 1 /\ json'[Len(json) + 1] = x
      /\ \A i \in 1 .. Len(json) : json'[i] = json[i]
    BY <1>3, <1>4
<1> QED
    BY <1>1, <1>2, <1>5 DEF x

LEMMA ProcessType ==
    ASSUME TypeInv, Process
    PROVE  TypeInv'
<1>1. processed' \in 0 .. Total /\ json' \in Seq(1 .. Total)
    <2>1. processed' \in 1 .. Total
        BY ProcessFacts
    <2> QED
        BY <2>1, ProcessFacts
<1>2. UNCHANGED <<spc, lock, pc, cancelled, saveVars>>
    BY ProcessFacts
<1> QED
    BY <1>1, <1>2 DEF TypeInv, TypeOK, Locked, saveVars

LEMMA StepType == TypeInv /\ [Next]_vars => TypeInv'
<1> SUFFICES ASSUME TypeInv, [Next]_vars
             PROVE  TypeInv'
    OBVIOUS
<1> USE DEF TypeInv, TypeOK, Locked, Holding, Saving, Goto, saveVars, Savers, Nobody
<1>1. CASE Process
    BY <1>1, ProcessType
<1>2. CASE ServerEnds
    BY <1>2 DEF ServerEnds
<1>3. ASSUME NEW c \in Savers, Save(c)
      PROVE  TypeInv'
    BY <1>3, SaveType
<1>4. CASE SaverDies
    <2>1. files' \in [0 .. MaxFiles -> Seq(1 .. Total)]
        <3>1. \A n \in 0 .. Len(json) : SubSeq(json, 1, n) \in Seq(1 .. Total)
            BY FirstRecords
        <3> QED
            BY <1>4, <3>1 DEF SaverDies
    <2> QED
        BY <1>4, <2>1 DEF SaverDies
<1>5. CASE CancelSaver
    BY <1>5 DEF CancelSaver
<1>6. CASE JoinSaver
    BY <1>6 DEF JoinSaver
<1>7. CASE MainReturns
    BY <1>7 DEF MainReturns
<1>8. CASE UNCHANGED vars
    BY <1>8 DEF vars
<1> QED
    BY <1>1, <1>2, <1>3, <1>4, <1>5, <1>6, <1>7, <1>8 DEF Next, MainSteps

LEMMA TypeInvariant == Spec => []TypeInv
BY InitType, StepType, PTL DEF Spec

\* The variables of the server's threads and the files have their types.
THEOREM StatsTypes == Spec => []TypeOK
BY TypeInvariant, PTL DEF TypeInv
-----------------------------------------------------------------------------
(***************************************************************************)
(* Records leave memory only when they are written.  Between the writing   *)
(* and the clearing the mutex keeps server_thread from adding one.         *)
(***************************************************************************)

WrittenThenCleared == \A c \in Savers : pc[c] = "unlock" => Records(json) \subseteq written
RecordsInv == ClearedWereWritten /\ WrittenThenCleared

LEMMA SaveKeepsRecords ==
    ASSUME TypeInv, RecordsInv, NEW c \in Savers, Save(c)
    PROVE  RecordsInv'
<1> USE DEF RecordsInv, ClearedWereWritten, WrittenThenCleared, Goto, saveVars
<1>0. /\ pc'[c] = "unlock" <=> WriteFile(c)
      /\ \A d \in Savers : d # c => pc'[d] = pc[d]
      /\ UNCHANGED processed
    BY TwoSavers DEF Save, CallSave, LockAndName, OpenFile, OpenFails, WriteFile,
       ClearAndUnlock, AfterSave, TypeInv, TypeOK
<1>1. CASE WriteFile(c)
    BY <1>0, <1>1 DEF WriteFile
<1>2. CASE ClearAndUnlock(c)
    <2>1. \A d \in Savers : pc'[d] # "unlock"
        BY <1>0, <1>2, TwoSavers DEF ClearAndUnlock, TypeInv, Locked, Holding, WriteFile
    <2>2. Records(json) \subseteq written
        BY <1>2 DEF ClearAndUnlock
    <2>3. 1 .. processed \subseteq written
        BY <2>2
    <2> QED
        BY <1>0, <1>2, <2>1, <2>3 DEF ClearAndUnlock
<1>3. CASE UNCHANGED <<json, written>> /\ ~WriteFile(c)
    BY <1>0, <1>3
<1> QED
    BY <1>0, <1>1, <1>2, <1>3 DEF Save, CallSave, LockAndName, OpenFile, OpenFails

LEMMA RecordsStep == TypeInv /\ RecordsInv /\ [Next]_vars => RecordsInv'
<1> SUFFICES ASSUME TypeInv, RecordsInv, [Next]_vars
             PROVE  RecordsInv'
    OBVIOUS
<1> USE DEF RecordsInv, ClearedWereWritten, WrittenThenCleared, Goto, saveVars
<1>1. CASE Process
    <2>0. processed \in Nat /\ processed' = processed + 1 /\ processed' \in 1 .. Total
        BY <1>1, ProcessFacts
    <2>1. Records(json') = Records(json) \cup {processed'}
        BY <1>1, ProcessFacts
    <2>2. 1 .. processed' = 1 .. processed \cup {processed'}
        BY <2>0
    <2>3. \A c \in Savers : pc'[c] # "unlock"
        BY <1>1, TwoSavers DEF Process, TypeInv, Locked, Holding
    <2>4. written' = written
        BY <1>1 DEF Process
    <2> QED
        BY <2>1, <2>2, <2>3, <2>4
<1>2. ASSUME NEW c \in Savers, Save(c)
      PROVE  RecordsInv'
    BY <1>2, SaveKeepsRecords
<1>3. CASE ServerEnds \/ SaverDies \/ CancelSaver \/ JoinSaver \/ MainReturns \/ UNCHANGED vars
    <2>1. UNCHANGED <<json, written, processed>>
        BY <1>3 DEF ServerEnds, SaverDies, CancelSaver, JoinSaver, MainReturns, vars
    <2>2. \A c \in Savers : pc'[c] = "unlock" => pc[c] = "unlock"
        BY <1>3, TwoSavers DEF ServerEnds, SaverDies, CancelSaver, JoinSaver, MainReturns,
           vars, TypeInv, TypeOK
    <2> QED
        BY <2>1, <2>2
<1> QED
    BY <1>1, <1>2, <1>3, TwoSavers DEF Next, MainSteps

\* A record leaves g_json_messages only after it was in a file that was closed,
\* although server_thread adds records while another thread saves them.
THEOREM RecordsAreWritten == Spec => []ClearedWereWritten
<1>1. Init => RecordsInv
    BY TwoSavers DEF Init, RecordsInv, ClearedWereWritten, WrittenThenCleared
<1>2. TypeInv /\ RecordsInv /\ [Next]_vars => RecordsInv'
    BY RecordsStep
<1> QED
    BY <1>1, <1>2, TypeInvariant, PTL DEF Spec, RecordsInv
-----------------------------------------------------------------------------
(***************************************************************************)
(* A small run.  Main saves last: server_thread has ended, so there are no *)
(* more records, and the saver is dead, so nobody else opens the file.     *)
(***************************************************************************)

MainLast ==
    /\ pc["main"] # "join" => spc = "done"
    /\ pc["main"] \notin {"join", "join saver"} => pc["saver"] = "dead"

\* As long as there are fewer than MAX_MESSAGES records they are all in memory,
\* and all saves go to the first file.
AllInMemory ==
    /\ Len(json) = processed
    /\ \A i \in 1 .. processed : json[i] = i
    /\ file_counter = 0
    /\ ~free_space

\* Nobody opens a file to put no records in it.
NothingToSave ==
    processed = 0 => files[0] = <<>> /\ \A c \in Savers : pc[c] \notin Saving

SavedByMain ==
    pc["main"] = "unlock" \/ (pc["main"] \in {"stop", "done"} /\ failures = 0)
        => files[0] = json

SmallInv == MainLast /\ (processed < MaxMessages => AllInMemory /\ NothingToSave /\ SavedByMain)

\* Types, in the form the arithmetic needs them.
LEMMA SmallTypes ==
    ASSUME TypeInv
    PROVE  /\ DOMAIN pc = {"saver", "main"} /\ Savers = {"saver", "main"}
           /\ processed \in Nat /\ MaxMessages \in Nat /\ failures \in Nat
           /\ json \in Seq(1 .. Total) /\ Len(json) \in Nat
           /\ 0 \in DOMAIN files
<1>1. json \in Seq(1 .. Total) /\ failures \in 0 .. MaxFailures /\ processed \in 0 .. Total
    BY DEF TypeInv, TypeOK
<1>2. DOMAIN pc = {"saver", "main"} /\ Savers = {"saver", "main"}
    BY TwoSavers DEF TypeInv, TypeOK
<1>3. DOMAIN files = 0 .. MaxFiles
    BY DEF TypeInv, TypeOK
<1> QED
    BY <1>1, <1>2, <1>3, StatsAssumption

LEMMA SaveKeepsSmall ==
    ASSUME TypeInv, SmallInv, NEW c \in Savers, Save(c)
    PROVE  SmallInv'
<1> USE DEF Saving
<1>1. /\ DOMAIN pc = {"saver", "main"} /\ c \in {"saver", "main"}
      /\ Savers = {"saver", "main"}
      /\ processed \in Nat /\ MaxMessages \in Nat /\ failures \in Nat
      /\ json \in Seq(1 .. Total) /\ Len(json) \in Nat /\ 0 \in DOMAIN files
    BY SmallTypes
<1>2. UNCHANGED <<processed, spc>>
    BY DEF Save, CallSave, LockAndName, OpenFile, OpenFails, WriteFile, ClearAndUnlock
<1>3. /\ pc[c] \in Saving \cup {"sleep", "save"}
      /\ pc[c] = "save" => c = "main"
      /\ pc'[c] \in Saving \cup {AfterSave(c)}
      /\ \A d \in Savers : d # c => pc'[d] = pc[d]
    BY <1>1 DEF Save, CallSave, LockAndName, OpenFile, OpenFails, WriteFile, ClearAndUnlock, Goto
<1>4. pc["main"] # "join" => spc = "done"
    BY DEF SmallInv, MainLast
<1>5. pc["main"] \notin {"join", "join saver"} => pc["saver"] = "dead"
    BY DEF SmallInv, MainLast
<1>6. MainLast'
    <2>1. CASE c = "main"
        <3>1. pc["saver"] = "dead" /\ spc = "done" /\ pc'["saver"] = pc["saver"]
            BY <1>1, <1>3, <1>4, <1>5, <2>1
        <3> QED
            BY <1>2, <3>1 DEF MainLast
    <2>2. CASE c = "saver"
        <3>1. pc["saver"] # "dead" /\ pc'["main"] = pc["main"]
            BY <1>1, <1>3, <2>2
        <3>2. pc["main"] \in {"join", "join saver"}
            BY <1>5, <3>1
        <3>3. pc'["main"] \in {"join", "join saver"} /\ (pc'["main"] # "join" => spc' = "done")
            BY <1>2, <1>4, <3>1, <3>2
        <3> QED
            BY <3>3 DEF MainLast
    <2> QED
        BY <1>1, <2>1, <2>2
<1>7. ASSUME processed < MaxMessages
      PROVE  AllInMemory' /\ NothingToSave' /\ SavedByMain'
    <2>1. AllInMemory /\ NothingToSave /\ SavedByMain
        BY <1>7 DEF SmallInv
    <2>2. c = "saver" => /\ pc'["main"] = pc["main"]
                         /\ pc'["main"] \in {"join", "join saver"}
        BY <1>1, <1>3, <1>5
    <2>3. processed = 0 <=> json = <<>>
        BY <1>1, <2>1 DEF AllInMemory
    <2>4. pc[c] \in Saving => processed # 0
        BY <1>1, <2>1 DEF NothingToSave
    <2>5. CASE CallSave(c)
        <3>1. UNCHANGED <<json, files, file_counter, free_space, failures>>
            BY <2>5 DEF CallSave, saveVars
        <3>2. pc'[c] = IF json = <<>> THEN AfterSave(c) ELSE "lock"
            BY <1>1, <2>5 DEF CallSave, Goto
        <3>3. NothingToSave'
            BY <1>1, <1>2, <1>3, <2>1, <2>3, <3>1, <3>2 DEF NothingToSave, AfterSave
        <3>4. SavedByMain'
            BY <1>1, <1>2, <2>1, <2>2, <2>3, <3>1, <3>2 DEF NothingToSave, SavedByMain
        <3> QED
            BY <1>2, <2>1, <3>1, <3>3, <3>4 DEF AllInMemory
    <2>6. CASE LockAndName(c)
        <3>1. UNCHANGED <<json, files, failures>> /\ pc'[c] = "open" /\ pc[c] = "lock"
            BY <1>1, <2>6 DEF LockAndName, Goto
        <3>2. ~(Len(json) >= MaxMessages)
            BY <1>1, <1>7, <2>1 DEF AllInMemory
        <3>3. file_counter' = file_counter /\ free_space' = FALSE
            BY <1>1, <2>6, <3>2 DEF LockAndName
        <3>4. AllInMemory'
            BY <1>2, <2>1, <3>1, <3>3 DEF AllInMemory
        <3> QED
            BY <1>1, <1>2, <2>2, <2>4, <3>1, <3>4 DEF NothingToSave, SavedByMain
    <2>7. CASE OpenFile(c)
        <3>1. UNCHANGED <<json, file_counter, free_space>> /\ pc'[c] = "write" /\ pc[c] = "open"
            BY <1>1, <2>7 DEF OpenFile, Goto
        <3> QED
            BY <1>1, <1>2, <2>1, <2>2, <2>4, <3>1 DEF AllInMemory, NothingToSave, SavedByMain
    <2>8. CASE OpenFails(c)
        <3>1. /\ UNCHANGED <<json, file_counter, free_space, files>> /\ pc'[c] = AfterSave(c)
              /\ pc[c] = "open"
            BY <1>1, <2>8 DEF OpenFails, Goto
        <3>2. failures' # 0
            BY <1>1, <2>8 DEF OpenFails
        <3>3. AllInMemory' /\ NothingToSave'
            BY <1>2, <2>1, <2>4, <3>1 DEF AllInMemory, NothingToSave
        <3> QED
            BY <1>1, <2>2, <3>1, <3>2, <3>3 DEF SavedByMain, AfterSave
    <2>9. CASE WriteFile(c)
        <3>1. UNCHANGED <<json, file_counter, free_space>> /\ pc'[c] = "unlock" /\ pc[c] = "write"
            BY <1>1, <2>9 DEF WriteFile, Goto
        <3>2. files'[0] = json
            BY <1>1, <2>1, <2>9 DEF WriteFile, AllInMemory
        <3> QED
            BY <1>2, <2>1, <2>4, <3>1, <3>2 DEF AllInMemory, NothingToSave, SavedByMain
    <2>10. CASE ClearAndUnlock(c)
        <3>1. /\ UNCHANGED <<file_counter, free_space, files, failures>> /\ pc'[c] = AfterSave(c)
              /\ pc[c] = "unlock"
            BY <1>1, <2>10 DEF ClearAndUnlock, Goto, saveVars
        <3>2. json' = json
            BY <2>1, <2>10 DEF ClearAndUnlock, AllInMemory
        <3>3. AllInMemory' /\ NothingToSave'
            BY <1>2, <2>1, <2>4, <3>1, <3>2 DEF AllInMemory, NothingToSave
        <3> QED
            BY <1>1, <2>1, <2>2, <3>1, <3>2, <3>3 DEF SavedByMain
    <2> QED
        BY <2>5, <2>6, <2>7, <2>8, <2>9, <2>10 DEF Save
<1> QED
    BY <1>2, <1>6, <1>7 DEF SmallInv

LEMMA ProcessKeepsSmall ==
    ASSUME TypeInv, SmallInv, Process
    PROVE  SmallInv'
<1>1. /\ processed \in Nat /\ MaxMessages \in Nat /\ Len(json) \in Nat
    BY SmallTypes
<1>2. /\ processed' = processed + 1 /\ spc = "receive"
      /\ UNCHANGED <<spc, pc, file_counter, free_space, files, failures>>
      /\ Len(json') = Len(json) + 1 /\ json'[Len(json) + 1] = processed'
      /\ \A i \in 1 .. Len(json) : json'[i] = json[i]
    BY ProcessFacts DEF saveVars
<1>3. MainLast' /\ pc["main"] = "join"
    BY <1>2 DEF SmallInv, MainLast
<1>4. ASSUME processed' < MaxMessages
      PROVE  AllInMemory' /\ NothingToSave' /\ SavedByMain'
    <2>1. AllInMemory
        BY <1>1, <1>2, <1>4 DEF SmallInv
    <2>2. Len(json) = processed
        BY <2>1 DEF AllInMemory
    <2>3. \A i \in 1 .. processed' : i = processed + 1 \/ i \in 1 .. processed
        BY <1>1, <1>2
    <2>4. \A i \in 1 .. processed' : json'[i] = i
        BY <1>2, <2>1, <2>2, <2>3 DEF AllInMemory
    <2>5. AllInMemory'
        BY <1>2, <2>1, <2>2, <2>4 DEF AllInMemory
    <2>6. NothingToSave'
        BY <1>1, <1>2 DEF NothingToSave
    <2> QED
        BY <1>2, <1>3, <2>5, <2>6 DEF SavedByMain
<1> QED
    BY <1>3, <1>4 DEF SmallInv

\* The saver can only die before main makes its last save.
LEMMA SaverDiesKeepsSmall ==
    ASSUME TypeInv, SmallInv, SaverDies
    PROVE  SmallInv'
<1>1. /\ DOMAIN pc = {"saver", "main"} /\ Savers = {"saver", "main"} /\ 0 \in DOMAIN files
    BY SmallTypes
<1>2. /\ pc["saver"] \in {"sleep", "open", "write"}
      /\ pc'["saver"] = "dead" /\ pc'["main"] = pc["main"]
      /\ UNCHANGED <<spc, processed, json, file_counter, free_space, failures>>
      /\ pc["saver"] # "write" => UNCHANGED files
    BY <1>1, StatsAssumption DEF SaverDies, Goto
<1>3. pc["main"] \in {"join", "join saver"} /\ MainLast'
    BY <1>2 DEF SmallInv, MainLast
<1>4. ASSUME processed < MaxMessages
      PROVE  AllInMemory' /\ NothingToSave' /\ SavedByMain'
    <2>1. AllInMemory /\ NothingToSave
        BY <1>4 DEF SmallInv
    <2>2. AllInMemory'
        BY <1>2, <2>1 DEF AllInMemory
    <2>3. NothingToSave'
        BY <1>1, <1>2, <2>1 DEF NothingToSave, Saving
    <2> QED
        BY <1>2, <1>3, <2>2, <2>3 DEF SavedByMain
<1> QED
    BY <1>2, <1>3, <1>4 DEF SmallInv

LEMMA SmallStep == TypeInv /\ SmallInv /\ [Next]_vars => SmallInv'
<1> SUFFICES ASSUME TypeInv, SmallInv, [Next]_vars
             PROVE  SmallInv'
    OBVIOUS
<1>1. DOMAIN pc = {"saver", "main"} /\ Savers = {"saver", "main"}
    BY SmallTypes
<1>2. CASE Process
    BY <1>2, ProcessKeepsSmall
<1>3. ASSUME NEW c \in Savers, Save(c)
      PROVE  SmallInv'
    BY <1>3, SaveKeepsSmall
<1>4. CASE SaverDies
    BY <1>4, SaverDiesKeepsSmall
<1>5. CASE ServerEnds \/ CancelSaver \/ JoinSaver \/ MainReturns \/ UNCHANGED vars
    <2>1. UNCHANGED <<processed, json, file_counter, free_space, files, failures>>
        BY <1>5 DEF ServerEnds, CancelSaver, JoinSaver, MainReturns, vars, saveVars
    <2>2. pc'["saver"] = pc["saver"]
        BY <1>1, <1>5 DEF ServerEnds, CancelSaver, JoinSaver, MainReturns, Goto, vars
    <2>3. \/ pc'["main"] = pc["main"] /\ spc' \in {spc, "done"}
          \/ pc["main"] = "join" /\ spc = "done" /\ pc'["main"] = "join saver" /\ spc' = spc
          \/ /\ pc["main"] = "join saver" /\ pc["saver"] = "dead" /\ pc'["main"] = "save"
             /\ spc' = spc
          \/ pc["main"] = "stop" /\ pc'["main"] = "done" /\ spc' = spc
        BY <1>1, <1>5 DEF ServerEnds, CancelSaver, JoinSaver, MainReturns, Goto, vars
    <2>4. MainLast'
        BY <2>2, <2>3 DEF SmallInv, MainLast
    <2>5. ASSUME processed < MaxMessages
          PROVE  AllInMemory' /\ NothingToSave' /\ SavedByMain'
        <3>1. AllInMemory /\ NothingToSave /\ SavedByMain
            BY <2>5 DEF SmallInv
        <3>2. AllInMemory'
            BY <2>1, <3>1 DEF AllInMemory
        <3>3. NothingToSave'
            BY <1>1, <2>1, <2>2, <2>3, <3>1 DEF NothingToSave, Saving
        <3>4. SavedByMain'
            BY <2>1, <2>3, <3>1 DEF SavedByMain
        <3> QED
            BY <3>2, <3>3, <3>4
    <2> QED
        BY <2>1, <2>4, <2>5 DEF SmallInv
<1> QED
    BY <1>1, <1>2, <1>3, <1>4, <1>5 DEF Next, MainSteps

LEMMA SmallInvariant == Spec => []SmallInv
<1>1. Init => SmallInv
    BY TwoSavers, StatsAssumption DEF Init, SmallInv, MainLast, AllInMemory, NothingToSave,
       SavedByMain, Saving
<1>2. TypeInv /\ SmallInv /\ [Next]_vars => SmallInv'
    BY SmallStep
<1> QED
    BY <1>1, <1>2, TypeInvariant, PTL DEF Spec

\* With fewer than MAX_MESSAGES messages, and if every file can be opened, the
\* file holds them all, once each and in order, when main returns.
THEOREM SmallRunIsSaved == Spec => []SmallRunSaved
<1>1. TypeInv /\ SmallInv => SmallRunSaved
    <2> SUFFICES ASSUME TypeInv, SmallInv, pc["main"] = "done", processed < MaxMessages,
                        failures = 0
                 PROVE  files[0] = [i \in 1 .. processed |-> i]
        BY DEF SmallRunSaved
    <2>1. files[0] = json /\ Len(json) = processed /\ \A i \in 1 .. processed : json[i] = i
        BY DEF SmallInv, AllInMemory, SavedByMain
    <2>2. json = [i \in 1 .. Len(json) |-> json[i]]
        BY DEF TypeInv, TypeOK
    <2> QED
        BY <2>1, <2>2
<1> QED
    BY <1>1, TypeInvariant, SmallInvariant, PTL
=============================================================================
