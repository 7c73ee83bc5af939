---------------------------- MODULE ConfigReader ----------------------------
(***************************************************************************)
(* read_config and release_config: main takes config.yaml as a stream of   *)
(* libyaml events.  A scalar that is followed by another scalar is a key   *)
(* with its value; any other scalar is taken for the name of a section.    *)
(*                                                                         *)
(* A scalar event is its text, every other event is Other; the stream ends *)
(* where the file does or where the parser gives up, which read_config     *)
(* does not tell apart.  A field of config is the position of the event    *)
(* that gave its value, 0 for NULL or zero.  The fields are those of       *)
(* assign_key_value, by section and key: client and server have one key    *)
(* in common.                                                              *)
(***************************************************************************)
EXTENDS Integers, Sequences, SequencesExt

CONSTANTS Documents,    \* the files: sequences of sections with their pairs
          Strings,      \* the keys of section general whose value is a string
          Integer,      \* the keys whose value is an integer, with their section
          Numerals,     \* the texts that strtol takes, with their values
          IntSize,      \* the number of values of an int
          LoopLimit     \* the events since the last scalar that are put up with (20)

Other == "--"
None == "none"

ASSUME ConfigAssumption == /\ Documents \subseteq Seq([name : STRING \ {Other},
                                                     pairs : Seq((STRING \ {Other}) \X STRING)])
                           /\ Strings \subseteq STRING
                           /\ Integer \subseteq STRING \X STRING
                           /\ \A n \in DOMAIN Numerals : Numerals[n] \in Int
                           /\ IntSize \in Nat \ {0}
                           /\ LoopLimit \in Nat

VARIABLES file,            \* the document, and the events up to where the parser gives up
          pos,             \* the next event
          key,             \* 0 for NULL, or the scalar it points to, long freed
          latest_section,  \* its text, or None
          loop_count,      \* events since the last scalar
          config,          \* where each field got its value
          heap,            \* what read_config allocated and nobody freed
          main             \* where main is

configVars == <<file, pos, key, latest_section, loop_count, config, heap>>

StringFields == {<<"general", k>> : k \in Strings}
Fields == StringFields \cup Integer

(***************************************************************************)
(* libyaml: the events of a document, cut off after n of them.             *)
(***************************************************************************)
PairEvents(pair) == IF pair[2] = Other THEN <<pair[1], Other, Other, Other, Other>> ELSE pair
SectionEvents(section) ==
    LET pairs == FlattenSeq([i \in DOMAIN section.pairs |-> PairEvents(section.pairs[i])])
    IN IF section.name = None THEN pairs ELSE <<section.name, Other>> \o pairs \o <<Other>>
Events(doc) ==
    <<Other, Other, Other>> \o FlattenSeq([i \in DOMAIN doc |-> SectionEvents(doc[i])])
        \o <<Other, Other>>
Files == UNION {{[doc |-> doc, events |-> SubSeq(Events(doc), 1, n), whole |-> n = Len(Events(doc))] :
                    n \in 0 .. Len(Events(doc))} : doc \in Documents}

ConfigInit ==
    /\ file \in Files
    /\ pos = 1
    /\ key = 0
    /\ latest_section = None
    /\ loop_count = 0
    /\ config = [f \in Fields |-> 0]
    /\ heap = {}
    /\ main = "open"

\* convert_string_to_int: -1 for what is no number; a long that is no int is cut.
ConvertStringToInt(text) ==
    IF text \in DOMAIN Numerals
    THEN ((Numerals[text] + IntSize \div 2) % IntSize) - IntSize \div 2
    ELSE -1

\* What the program reads in a field.
Text(f) == IF config[f] = 0 THEN None ELSE file.events[config[f]]
Number(f) == IF config[f] = 0 THEN 0 ELSE ConvertStringToInt(Text(f))
-----------------------------------------------------------------------------
\* The parser has given up or is done, and read_config finds out; where it is
\* next_value that finds out, pos is one further.
AtEnd == pos = Len(file.events) + 1
Scalar(i) == i \in DOMAIN file.events /\ file.events[i] # Other

\* The two ActionType structures and their names.
Actions == {<<"action", a>> : a \in {"client", "server", "client name", "server name"}}

\* The file does not open, or memory runs out: main returns 1.
OpenFails ==
    /\ main = "open"
    /\ main' = "exit"
    /\ UNCHANGED configVars

OpenConfig ==
    /\ main = "open"
    /\ heap' = Actions
    /\ main' = "read"
    /\ UNCHANGED <<file, pos, key, latest_section, loop_count, config>>

\* Mutation: one event too many is put up with.
SkipEvent_OffByOne ==
    /\ main = "read" /\ ~AtEnd /\ ~Scalar(pos)
    /\ loop_count <= LoopLimit
    /\ loop_count' = loop_count + 1
    /\ pos' = IF pos \in DOMAIN file.events THEN pos + 1 ELSE pos
    /\ UNCHANGED <<file, key, latest_section, config, heap, main>>

\* After an error that next_value met, libyaml goes on with events of no type.
SkipEvent ==
    /\ main = "read" /\ ~AtEnd /\ ~Scalar(pos)
    /\ loop_count < LoopLimit
    /\ loop_count' = loop_count + 1
    /\ pos' = IF pos \in DOMAIN file.events THEN pos + 1 ELSE pos
    /\ UNCHANGED <<file, key, latest_section, config, heap, main>>

\* Too long without a scalar: SIGINT, which has no handler yet.  The events are
\* counted before their type is looked at.
Malformed ==
    /\ main = "read" /\ ~AtEnd
    /\ loop_count = LoopLimit
    /\ main' = "killed"
    /\ UNCHANGED configVars

\* A scalar without a scalar behind it: a section.  The event is deleted, and
\* key goes on pointing to its text.
ReadSection ==
    /\ main = "read" /\ Scalar(pos) /\ ~Scalar(pos + 1)
    /\ loop_count < LoopLimit
    /\ latest_section' = file.events[pos]
    /\ heap' = heap \cup {<<"section", 0>>}
    /\ key' = pos
    /\ loop_count' = 0
    /\ pos' = pos + 2
    /\ UNCHANGED <<file, config, main>>

\* Mutation: the value of a key that was there before is not replaced.
ReadPair_FirstWins ==
    /\ main = "read" /\ Scalar(pos) /\ Scalar(pos + 1) /\ latest_section # None
    /\ loop_count < LoopLimit
    /\ LET f == <<latest_section, file.events[pos]>>
           new == f \in Fields /\ config[f] = 0
       IN /\ config' = IF new THEN [config EXCEPT ![f] = pos + 1] ELSE config
          /\ heap' = IF new /\ f \in StringFields THEN heap \cup {<<"field", pos + 1>>} ELSE heap
    /\ key' = 0
    /\ loop_count' = 0
    /\ pos' = pos + 2
    /\ UNCHANGED <<file, latest_section, main>>

\* assign_key_value.  The string that a field had before is never freed.
ReadPair ==
    /\ main = "read" /\ Scalar(pos) /\ Scalar(pos + 1) /\ latest_section # None
    /\ loop_count < LoopLimit
    /\ LET f == <<latest_section, file.events[pos]>>
       IN /\ config' = IF f \in Fields THEN [config EXCEPT ![f] = pos + 1] ELSE config
          /\ heap' = IF f \in StringFields THEN heap \cup {<<"field", pos + 1>>} ELSE heap
    /\ key' = 0
    /\ loop_count' = 0
    /\ pos' = pos + 2
    /\ UNCHANGED <<file, latest_section, main>>

\* A pair before any section: strcmp on NULL.
PairWithoutSection ==
    /\ main = "read" /\ Scalar(pos) /\ Scalar(pos + 1) /\ latest_section = None
    /\ loop_count < LoopLimit
    /\ main' = "aborted"
    /\ UNCHANGED configVars

\* The end of the stream, or of what can be parsed: read_config returns 0.
EndOfFile ==
    /\ main = "read" /\ AtEnd /\ key = 0
    /\ heap' = heap \ {<<"section", 0>>}
    /\ main' = "main"
    /\ UNCHANGED <<file, pos, key, latest_section, loop_count, config>>

\* The last scalar was taken for a section, and key is freed a second time.
KeyFreedTwice ==
    /\ main = "read" /\ AtEnd /\ key # 0
    /\ main' = "aborted"
    /\ UNCHANGED configVars

ReadConfig ==
    \/ OpenFails \/ OpenConfig \/ SkipEvent \/ Malformed \/ ReadSection \/ ReadPair
    \/ PairWithoutSection \/ EndOfFile \/ KeyFreedTwice

\* Mutation: the names of the two actions are forgotten.
ReleaseConfig_KeepNames ==
    /\ heap' = heap \ ({<<"field", config[f]>> : f \in StringFields}
                          \cup {<<"action", a>> : a \in {"client", "server"}})
    /\ config' = [f \in Fields |-> IF f \in StringFields THEN 0 ELSE config[f]]

\* release_config frees every string and structure that config points to.
ReleaseConfig ==
    /\ heap' = heap \ ({<<"field", config[f]>> : f \in StringFields} \cup Actions)
    /\ config' = [f \in Fields |-> IF f \in StringFields THEN 0 ELSE config[f]]
-----------------------------------------------------------------------------
ConfigTypeOK ==
    /\ pos \in 1 .. Len(file.events) + 2
    /\ key \in 0 .. Len(file.events)
    /\ latest_section \in {None} \cup {file.events[i] : i \in DOMAIN file.events}
    /\ loop_count \in 0 .. LoopLimit
    /\ config \in [Fields -> 0 .. Len(file.events)]
    /\ main \in {"open", "exit", "read", "killed", "aborted", "main", "start", "join", "done"}

(***************************************************************************)
(* What the file says, for documents without values that are lists.        *)
(***************************************************************************)
Flat == \A s \in DOMAIN file.doc :
            /\ file.doc[s].name # None
            /\ \A p \in DOMAIN file.doc[s].pairs : file.doc[s].pairs[p][2] # Other

\* The places in the document where a key is given a value, and the last one.
Given(section, k) ==
    {place \in (DOMAIN file.doc) \X (1 .. Len(file.events)) :
        LET s == file.doc[place[1]]
        IN /\ s.name = section
           /\ place[2] \in DOMAIN s.pairs
           /\ s.pairs[place[2]][1] = k}
LastPlace(places) == CHOOSE l \in places :
                         \A o \in places : o[1] < l[1] \/ (o[1] = l[1] /\ o[2] <= l[2])
Said(section, k) == IF Given(section, k) = {} THEN None
                    ELSE LET l == LastPlace(Given(section, k)) IN file.doc[l[1]].pairs[l[2]][2]

Read == main \in {"main", "start", "join"}

\* After read_config every field has the value that the file gives last to its
\* key in its section, wherever the sections stand and however often they come
\* (read_config and assign_key_value, which see a stream of scalars).
ConfigIsFile ==
    Read /\ file.whole /\ Flat => \A f \in Fields : Text(f) = Said(f[1], f[2])

\* When main ends, all that read_config allocated is freed, but for the strings
\* of keys that stand in the file twice (release_config).
OnlyRepeatsLeak ==
    main = "done" =>
        \A cell \in heap : /\ cell[1] = "field"
                           /\ \E i \in cell[2] + 1 .. Len(file.events) - 1 :
                                  file.events[i] = file.events[cell[2] - 1]

\* Against the comment of read_config: 0 for a file that was read to its end.
ReadWhole == Read => file.whole

\* Against the comment of convert_string_to_int: the number, or -1.
NumberOrMinusOne == Read => \A f \in Integer :
    config[f] # 0 /\ Text(f) \in DOMAIN Numerals => Number(f) \in {Numerals[Text(f)], -1}
=============================================================================
