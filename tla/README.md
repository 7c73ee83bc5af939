# RealMQ in TLA+

RealMQ is a client and a server that exchange messages over ZeroMQ's UDP
sockets, with an acknowledgement protocol on top that detects lost messages and
sends them again. This directory holds a model of it in TLA+, the
configurations with which TLC checks the model, and theorems about it that
TLAPS proves. File names below are relative to the repository; `src/` is the
repository itself, so the client program is `src/src/realmq_client.c`.

The model is of the program built with `QOS_ENABLE`, over UDP.

## 1. Inventory

| Component | State | Operations | Interacts with |
|---|---|---|---|
| **Client threads** (`realmq_client.c`, `client_thread`) | program counter, `count_msg`, the message being built; shared: `g_array`, `g_array_mutex`, `atomic_msg_id`, `interrupted`, `g_count_msg` | look whether the responder is at work, heartbeat, create, append and send a message, wait for `g_array` to be empty, STOP three times | the responder through `g_array` and its mutex; each other through `interrupted`; the server through the network; the failure detector |
| **Responder** (`realmq_client.c`, `responder_thread`; `dynamic_array.c`, `diff_from_arrays`) | the acknowledgement in hand, the index and count of the diff, `g_missed_count` | receive an acknowledgement, compare it with `g_array` from the back, forget what arrived, resend and forget what is overdue; leave at STOP | client threads, network, failure detector |
| **Server thread** (`realmq_server.c`, `server_thread`, `send_ids`) | its own `g_array` of ids received, `count_msg`, `received_messages` | receive a message; acknowledge at HB and at STOP | network, statistics |
| **Server main** | — | join, cancel the saver, final save, STOP to the responder | all of them |
| **Transport** (`zhelpers.c`) | packets in flight; the addresses sockets are bound or connected to | `create_socket`, `zmq_send_group`, `zmq_receive` | main and client threads create sockets; libzmq |
| **Dynamic array** (`dynamic_array.c`) | elements, size, capacity | append, find and remove by id, clean, marshal, unmarshal | used by both programs |
| **Interpolation search** (`interpolation_search.c`) | `low`, `high`, `pos` | search by id | called by removal |
| **Segments** (`buffer_segments.c`) | — | split the marshalled ids into packets | called by `send_ids` |
| **Failure detector** (`accrual_detector.c`, `accrual_detector/`) | time of the last heartbeat, the window of intervals, their sums; `compare_mutex` | `send_heartbeat`, `heartbeat`, `add_interval`, `adjust_intervals`, compare and copy histories | called by client threads and by the responder |
| **Statistics** (`fs_utils.c`) | list of records, `json_mutex`, `file_counter`, files | append a record, save and clear the list | server thread, saver thread, main |
| **Legacy id bookkeeping** (`utils.c`) | array of ids | look up, add and process missed ids | nobody calls it; its tests are commented out |
| **Message queue** (`message_queue.c`) | queue, mutex | enqueue, dequeue, time out | nobody starts it |
| **Configuration** (`config.c`) | the fields of `config`, the section and key being read, `g_ip_address` with its mutex | read, convert, print, compose an address, release | libyaml; main and client threads |
| **Start of the programs** (`main` of both) | how far main and its threads are | read, print, create two sockets, start the threads, join, release | all of the above |
| **Logging, time, strings, leak detector, plot scripts** | — | — | — |

What is hard in it, and what makes it right:

* *Client, responder, server.* Any packet may be lost or overtaken; an
  acknowledgement is split over packets, and each is compared with all of
  `g_array`; several threads and the responder compete for one mutex; shutdown
  involves three parties that wait for each other. Right means: an
  acknowledgement names only what arrived; a message leaves the client only
  when it arrived or had its second chance; what was given up is counted; the
  wait before STOP ends; STOP comes when nothing is waiting any more; everybody
  gets to the end, and what was sent is counted once. (With several threads some of
  this is not so: section 3.)
* *Interpolation search.* `pos - 1` and the product that gives `pos` wrap
  around, and half of the calls are on ids in no particular order. Right means:
  no read outside the array, the right answer, the right element removed.
* *Segments.* Sizes are summed up beforehand and memory may run out on the way. Right
  means: no write outside what was allocated, all ids or none, each piece freed once.
* *Failure detector.* Client threads and the responder change it without a
  common mutex. Right means: a swap stores what it was computed from, sums
  belong to their intervals, a heartbeat ends, and its pointer bug stays out of reach.
  The clock may be set back.
* *Window of intervals.* It is full only after a thousand intervals, and then counts one
  less than it holds. Right means: in bounds, sums of what counts, the latest samples in
  order, and a comparison that later operations do not belie.
* *Configuration and start.* A stream of events tells keys from sections only by what
  follows; an error of the parser looks like the end; a buffer is shared by all who ask
  for an address, and two early returns keep its mutex. Right means: every field is what
  the file says, every socket has the address it was created for or none, nothing leaks,
  the start ends. Two threads can get less than their address.
* *Statistics.* Three threads use one list, one is cancelled. Right means:
  nothing leaves memory before it is on disk, and the final save happens.

The list of hazards with their lines, and the properties that stand against
them, is in `PROJECT.json`.

## 2. Modules

```
Network            the two UDP channels: packets, loss, duplicates
  RealMQState      constants and variables of both programs
    Client         client_thread, responder_thread, diff_from_arrays
    Server         server_thread, send_ids, the end of main
      RealMQ       both together; the properties; implements Delivery
        MCRealMQ               for TLC
        RealMQ_proofs          types, truthful acknowledgements, no silent drop,
                               counted losses, what one thread may rely on
          RealMQ_promise_proofs   order of g_array, refinement of Delivery, counts of
                                  messages sent, of resends and of copies
Delivery           the abstract promise of the protocol
AckSegments                  storage and segments of the server's acknowledgements
  AckSegments_proofs
InterpolationSearch          search, scan and removal as a state machine
  InterpolationSearch_proofs
StatsStore         the list of statistics and the end of the server's main
  StatsStore_proofs
PhiDetector        the failure detector between client threads and responder
  PhiDetector_proofs
HeartbeatHistory   the window of intervals it estimates from
  HeartbeatHistory_proofs
ConfigReader       read_config on the events of libyaml; release_config
Sockets            get_address and create_socket
  StartUp          main of client or server, from the file to the join; its threads
    MCStartUp              the configuration files for TLC
    StartUp_proofs         the file read right, heap, addresses, one thread's start
```

### The protocol: Network, RealMQState, Client, Server, RealMQ

One action is what a thread does between two points at which another thread
can see or disturb it. Each label of `pc` is such a point of `client_thread`:
`loop` (head of the `while`), `beat` (trylock succeeded, heartbeat next), `lock`,
`create`, `add`, `send` (inside the critical section), `drain` (the loop before
STOP), `stop`, `raise`, `leave`, `done`. Those of `rpc` are the responder's:
`receive`, `lock`, `diff` (one action for each index of `diff_from_arrays`),
`count`, `done`. The server's `g_array` belongs to its thread alone, so it
handles one packet in one action.

Abstractions:

* A message is its id. `timedOut` is the number of the youngest message older
  than the 2000 ms of `check_message_timeout`; timestamps grow with the ids
  because both are taken under `g_array_mutex`.
* A channel is a set of packets. Loss is a choice of the sending step, so that a
  lost packet is one that was never in the set; `Lossy` names the types of packets
  that may be lost. `try` distinguishes the two
  datagrams of one message.
* `SegmentIds` ids fit in a segment, where the code counts bytes: what `AckSegments`
  shows of any packing (every id once, or none) is all that `Server!Segments` takes
  from it.
* `pthread_mutex_trylock` with its immediate unlock is one test of the mutex.
* Whether the failure detector asks for a heartbeat is left open in `Beat`.
* A buffer that cannot be parsed (`unmarshal_message` returns NULL) is like a
  lost packet. So is a failed send of a heartbeat.
* `Faults` names the calls that may fail: `create_element`, `marshal_message`,
  the two sends, and the allocations in `marshal_and_split`: "split" those after which
  there is nothing to send, "segment" that of a segment's text.
* When a segment's text cannot be allocated, `split_buffer` frees the array of segments
  and returns the pointer to it; `send_ids` frees it again (`buffer_segments.c:111`),
  after the WAKEUP. The model takes it that the second `free` ends the server
  (`FreeTwice`, "aborted"), as the C library does when it notices.
* Over UDP the client sends STOP with `zmq_send` and no group
  (`realmq_client.c:148`). Whether a DISH socket that joined a group hands it
  over is up to libzmq; the model takes it that it does, as the server's code
  does.
* `clientVars` keeps three history variables that the code has not:
  `submitted`, `resent`, and on the server's side `received`, the ids handed to
  the statistics.

`Delivery` is what the protocol promises without threads and packets: a message
kept by the client is forgotten when the server has it, or when it is sent again.
`RealMQ!Promise` maps `pending` to the ids in `g_array`, `retried` to `resent`
and `delivered` to `received`.

### AckSegments

What `Server` has as one step: `Add` with the storage that grows by half, then
`marshal_uint64_array` and `split_buffer` token by token, then the rest of `send_ids`.
An id is the number of bytes it is printed in, a segment the interval of its ids with
its size. Memory may run out where `buffer_segments.c` handles it; where
`dynamic_array.c` calls `exit` it may not. Where the text of a segment cannot be had
(`FirstSegmentFails`, `NextSegmentFails`), the array of segments is freed with its pointer
left `dangling`, and `FreeTwice` takes the place of `Answer`. That ids are no longer than a segment (20
digits, 1024 bytes) and that the initial capacity is at least 2 (it is 100000) are
assumptions: with a capacity of 1 the storage would not grow, and a token longer than
a segment is refused only if it is alone.

### InterpolationSearch

`interpolate_search_on_messages` and `..._on_values` are one loop. Each probe is a
step; arithmetic is modulo `Modulus`, which stands for 2^64, in the product of
`Position` as in `size - 1` and `pos - 1`. Then come the scan and the removal of
`remove_element_by_id`. The initial states are all arrays over `Values`, sorted or
not. `Client!RemoveId` is what this module shows the removal to do on ascending
ids (`RemovesOnlyIt`); that `g_array` is ascending is the theorem `GArraySorted`.

### StatsStore

The server thread appends records, `stats_saver_thread` saves every few seconds,
main cancels the saver and saves once more. A step of `save_stats_to_file` is one
between the calls that matter: test of the length, mutex and name, `fopen`,
writing, clearing. `CancelPoints` says where a cancelled thread may end. POSIX
allows it in `sleep` and also in the stdio calls; the run `stats`
uses only the first, `stats_cancelled.cfg` all of them. `MaxFailures` bounds the failing
calls of `fopen`, each of which may use up a file name.

### PhiDetector

phi is a function of the time since the last heartbeat and of the mean, which is
`interval_sum / interval_count`; the program never adds an interval after the first
two, so the model keeps the level of the intervals and the level of the sums, both
100 at the first estimate, and calls the link available within a reach: the mean and a
multiple of the deviation, both in proportion to the sums, where the deviation is at least
`min_std_deviation_ms` (`Least`). The clock is `CLOCK_REALTIME` and may be set back at any
time (`ClockBack`). The time axis is cut into ticks, floats become percentages. The copies
of `state_init` and `update_state` are two steps each, sums first, because the
responder may write in between. `new_history += interval` on a link that became
available moves the pointer and what follows is undefined: the thread goes to
`wild` and is not followed further. `update_history` on memory fresh from `malloc` is
taken as if that memory were clear.

### HeartbeatHistory

The operations of `heartbeat_history.c` are operators on a history, a record of its
size, counter, slots and sums; the actions apply them to two histories, the one of the
detector (`WindowSize`) and one of `state_init(NULL, 0)` (size 1), in any order. A slot
carries the number of its sample, which no operation reads. Lengths are natural numbers,
and scaling rounds down where the code has floats, so nothing is said of rounding: with
floats `squared_interval_sum / n - mean * mean` may come out a little below zero when all
intervals are equal, which `SumsTracked` excludes for whole numbers only. The program
itself adds two intervals (`first_heartbeat`) to a window of 1000; a full window is
reached by the tests and by whoever takes the README's description at its word.

In a full window `drop_oldest_interval` lowers the counter and `add_interval` does not
raise it again: the newest interval waits, uncounted, and the next one overwrites it.
`RecentInOrder` is what remains true of the window.

### ConfigReader, Sockets, StartUp

`ConfigReader` takes a document as the sequence of events libyaml makes of it
(`Events`), cut off where the parser gives up (`Files`): `yaml_parser_parse` returning 0
ends the loop of `read_config` like the end of the stream. A scalar event is its text;
all others are `Other`. A field is identified by its section and its key, because sections
`client` and `server` have a key in common. `config` keeps for each field the position of
the event that gave it its value, `heap` what was allocated for it. `LoopLimit` is 20 in the code, and 4 in the
run, where four events without a scalar in a row are what a sequence of empty sections
makes. Every event is counted before its type is looked at, and when an error surfaces in
`next_value`, the loop goes on over events of no type until it has counted too many. `IntSize` stands for
2^32 in the cast of `convert_string_to_int`. `raise(SIGINT)` ends the program (`killed`), because the handler is set by the client threads only; a
NULL given to `strcmp`, a double `free` and a failed `assert` end it as well (`aborted`).

`Sockets` has the steps of `get_address`: lock and free, `calloc`, compose in two
parts, unlock, return. `Cells` are the places `calloc` may choose, so that a buffer that was freed can be
another caller's buffer the next moment. `There` is what libzmq finds at the pointer when it is
called; reading a freed cell gives no usable address; reading half of an address (`Cut`) gives
none, or another address, whose port is shorter (`Acceptable`). `create_socket` binds (dish, PUB),
connects (SUB) or tries several times (radio), with the pointer it was given.

`StartUp` composes them. `Calls` are the four calls of `get_address` in each main; the
threads of the client ask for the main address. What a thread does after its socket is
created is module `Client`, and here one step. A negative `num_threads` makes an array of
negative length, with which the process may end (`NegativeLength`). The two early returns of `get_address`
leave the mutex locked, and `failed` remembers that it happened, or that the system refused.

## 3. Runs

Programs end, so a state without successor is legal and deadlock is not checked;
`Terminates`, `Ends` and `MainFinishes` say what must be reached.

| Run | Question | Bounds | States |
|---|---|---|---|
| `core` | the protocol over a network that loses, reorders and duplicates | 1 thread, 2 messages, 2 packets in flight per direction, one id to a segment | 594 000 |
| `crowd` | two threads and the responder on `g_array`, every call fails, a double free ends the server, Ctrl+C | 1 message each (2 ids in all), 1 packet per direction, threads symmetric | 5 063 000 |
| `shutdown` | who comes to an end, and is all that was sent counted | 2 threads, 1 message each, 1 packet per direction, anything but STOP may be lost, seen through `Live` | 267 000 |
| `segments` | storage and segments of an acknowledgement, with memory that runs out | up to 6 ids of 1, 2 or 5 digits, segments of 5 bytes, capacity 2 | 21 500 |
| `search` | search and removal | arrays of up to 4 of 7 ids, modulo 16 | 197 000 |
| `stats` | no record is lost in memory; main returns | lists full at 3, 7 messages, 2 calls of `fopen` that fail, 4 file names (never the limit) | 21 600 |
| `detector` | two threads and the responder on the detector | a clock of 3 values that goes forth and back, 1 acknowledgement with 21 missed | 383 000 |
| `history` | two windows under any sequence of operations | windows of 3 and 1, 6 samples of 2 lengths each, 1 scaling by 0, 1 or 21 missed | 597 000 |
| `startup` | client or server from the file to the end | 2 threads, 2 cells, 1 repetition of `zmq_connect`, complete files and all files of two short sections, cut off anywhere (2779 streams of events) | 332 000 |

Why the bounds are enough: two messages are the fewest for which an
acknowledgement can name one and not the other, for a segment to be processed
while the other is in flight, and for a removal to shift something. Two packets
in flight can overtake each other. Two threads are the fewest that can cut each
other short. In `search`, with ids up to 15 and arithmetic modulo 16, the product
overflows, and 4 elements leave room for a probe that is neither end. In `stats`
the list fills up twice. In `segments` the storage grows three times, and there are
ids that fill a segment alone, in pairs, and in pairs with a byte to spare. In `history` the larger window is
full after 3 samples and then drops twice, once with its counter at the size and once
after it was refilled; `EqualStaysEqual` looks two samples further. In `startup` two threads
and two cells are the fewest with which a buffer is freed and reused under a caller; the
files have keys in the right section, in another, in none, twice, and lists for values.
In `detector` the link is unavailable at the third value of the
clock by the first estimate, and at the second once the intervals are cleared, so that
one thread can be late while the other beats. `MaxCount` bounds the copies the server counts and is above
what a run can produce without duplicates; `MaxId` bounds the ids. In `shutdown` two
threads with a message each are the fewest of which one can be left waiting by the STOP
of the other.

`shutdown` is checked through the view `Live` (module `MCRealMQ`), which leaves out what
no guard reads: the counts of the diff, the history `received` and `resent`, the server's
counters, and `newId`, `acked` and `ri` out of their scope. Two states that agree on
`Live` have the same steps up to what it leaves out, and both properties and all fairness
conditions speak of what it keeps; `MaxCount`, the one guard on a counter, is above what
the run can count.

Three runs end in a counterexample. Each states what a comment of the repository
says, and shows what the code does instead:

| Run | What is said | What happens |
|---|---|---|
| `resend_unsent` | `dynamic_array.c:549`: not removed if it cannot be sent | removed although `marshal_message` failed |
| `stop_too_soon` | `realmq_client.c:124`: all messages are sent before STOP | the first of two threads stops the server |
| `detector_swap` | `phi_accrual_failure_detector.c:169`: copy of the old state | it is the state itself, so the comparison never fails |

Further configurations, to be run by hand, show in the same way where what is
written about the program is more than it does:

| Configuration | Property | What is said | What happens |
|---|---|---|---|
| `reliable_delivery.cfg` | `ReliableDelivery` | `README.md:138`: retransmission ensures reliable delivery | a message is resent once and forgotten, so two losses lose it |
| `sent_twice.cfg` | `NotSentTwice` | `realmq_client.c:159`: prevents sending a message twice | resent although another segment names it |
| `free_twice.cfg` | `FreedOnce` | `buffer_segments.c:59`: clean up and return | the array of segments is freed and returned, and `send_ids` frees it again |
| `never_ends.cfg` | `AllEnd` | `realmq_client.c:124`: wait until all messages are sent | after the STOP of one thread nobody acknowledges the other's message, and it waits for ever |
| `thread_cut_short.cfg` | `TotalSent` | `config.c:370`: so many messages per thread | the first to finish ends all the loops |
| `mutex_kept.cfg` | `BusyMeansResponder` | `realmq_client.c:165`: busy means the responder | `continue` at line 198 keeps the mutex |
| `stats_overwritten.cfg` | `AllSaved` | `fs_utils.c:68`: store all messages | the file of a full list is opened again with `"w"` |
| `stats_file_size.cfg` | `MaxPerFile` | `fs_utils.c:12`: max messages per file | everything since the last save goes to one file |
| `stats_cancelled.cfg` | `MainFinishes` | `realmq_server.c:209`: save final statistics | a saver that died while writing still holds `json_mutex` |
| `detector_sums.cfg` | `SumsTracked` | `README.md:203`: the sums of all samples are tracked | a copy torn by `adjust_intervals` is stored |
| `history_window.cfg` | `WindowIsLast` | `README.md:203`: the sums of all samples in the window | the newest sample of a full window does not count |
| `config_partial.cfg` | `ReadWhole` | `config.c:223`: 0 if read successfully, -1 otherwise | 0 as well when the parser fails half-way |
| `config_number.cfg` | `NumberOrMinusOne` | `config.c:143`: -1 if no valid integer | a `long` that is no `int` is cut to one |
| `radio_unwired.cfg` | `AllWired` | `zhelpers.c:194`: successfully created and configured | a radio that found the buffer freed goes on unconnected |
| `radio_cut.cfg` | `OwnAddress` | the same line, which names the address | a radio is connected to the part of the address that another thread has written so far |
| `radio_null.cfg` | `NoRaceAborts` | — (two threads start as one does) | a thread returns the NULL another has just put into `g_ip_address`, and libzmq gets it |

`ServerLeavesLast` holds in `core` and fails with two threads: it is what one thread may
rely on (theorem `ServerOutlivesOneThread`). With two threads the STOP of one ends the
loops of both (`TotalSent` fails) and the server, and may leave the other waiting
(`AllEnd` fails). `SentCounted` and `Terminates`, in `shutdown`, say what remains.
`RightSocket` allows a thread that is not alone a part of its address, which `OwnAddress`
shows to happen.
`NoSilentDrop` holds unless marshalling fails; `DropsCounted`, which is weaker, holds in
any case (theorem `LossesAreCounted`).

## 4. Fairness

* *Protocol.* Strong fairness for each client thread and for the responder: all compete
  for a mutex that every holder gives up and that is free while the others sleep or wait
  for a packet. (A thread that loops around `trylock` takes no step of the model.) Time
  passes. A message in flight is received. A heartbeat that is sent again and again, as in the
  loop before STOP, gets through in the end and so does an answer: strong fairness of the
  step that leaves an answer in flight. A STOP that is in flight is received, and the
  server's main goes on after it. Nothing is assumed of a packet sent only once:
  `Terminates` is therefore
  checked with STOPs that arrive, and fails if they may be lost (the server's STOP to
  the responder goes out once).
* *Search.* The one thread runs on.
* *Statistics.* A STOP arrives; threads run on; a saver cancelled in its sleep of
  seconds dies there sooner or later.
* *Start.* Main and the threads run on; the mutex of `get_address` is had at last by
  whoever waits while it is free again and again (strong fairness of each caller). `Ends`
  excludes the two failures of `get_address` that keep the mutex.
* *Detector.* Threads run on. Strong fairness of `Swap` alone says that the
  responder does not disturb every comparison of a state with itself.

## 5. Proofs

All are for arbitrary values of the constants, from the named assumptions of the
modules: `NetworkAssumption`, `RealMQAssumption`, `SegmentsAssumption`,
`SearchAssumption`, `StatsAssumption`, `DetectorAssumption`, `HistoryAssumption`,
`ConfigAssumption`, `SocketsAssumption`, `RolesAssumption`, `KeysAssumption`. Most of
what they say is the types of the parameters. The rest: `Responder` and `Free` are no
threads and NULL is no cell; the capacity is at least 2, the window and `MAX_MESSAGES` at
least 1; an id fits in a segment; the size of an array fits in a word; a section's name and a key
are scalars; the two addresses and the protocol are among the fields that are
strings, `num_threads` among the integers. A theorem that needs more says so:

| Theorem | States | If |
|---|---|---|
| `RealMQ_proofs!TypeCorrect` | `TypeOK` | |
| `RealMQ_proofs!AcksAreTruthful` | `AckTruthful` | |
| `RealMQ_proofs!NothingDroppedSilently` | `NoSilentDrop` | marshalling does not fail |
| `RealMQ_proofs!LossesAreCounted` | `DropsCounted` | |
| `RealMQ_proofs!ServerOutlivesOneThread` | `ServerLeavesLast` | there is one thread |
| `RealMQ_promise_proofs!SentIsCounted` | `SentCounted` | there is a thread, marshalling and sending do not fail, nobody presses Ctrl+C |
| `RealMQ_promise_proofs!GArraySorted` | `Sorted` | |
| `RealMQ_promise_proofs!PromiseKept` | `KeepsPromise` (refinement of `Delivery`) | marshalling does not fail |
| `RealMQ_promise_proofs!MissedCountsResends` | `MissedIsResent` | marshalling and resending do not fail |
| `RealMQ_promise_proofs!CopiesAreBounded` | `CopiesBound` | no message is duplicated on the way |
| `AckSegments_proofs!SegmentsTypes` | `TypeOK` | |
| `AckSegments_proofs!SegmentsInBounds` | `InBounds` | |
| `AckSegments_proofs!AcknowledgedOnce` | `EveryIdOnce` | |
| `AckSegments_proofs!SegmentsFull` | `NoneToSpare` | |
| `InterpolationSearch_proofs!SearchTypes` | `TypeOK` | |
| `InterpolationSearch_proofs!SearchReadsInBounds` | `ReadsInBounds` | |
| `InterpolationSearch_proofs!InterpolationFinds` | `ScanOnlyForMissing` | |
| `InterpolationSearch_proofs!AnswerIsRight` | `Answer` | |
| `InterpolationSearch_proofs!RemovesTheOneId` | `RemovesOnlyIt` | |
| `StatsStore_proofs!StatsTypes` | `TypeOK` | |
| `StatsStore_proofs!RecordsAreWritten` | `ClearedWereWritten` | |
| `StatsStore_proofs!SmallRunIsSaved` | `SmallRunSaved` | |
| `PhiDetector_proofs!DetectorTypes` | `TypeOK` | |
| `PhiDetector_proofs!SwapsDoNotOverlap` | `SwapsExclude` | |
| `PhiDetector_proofs!WildNeedsARace` | `WildOnlyAfterRace` | |
| `HeartbeatHistory_proofs!HistoryTypes` | `TypeOK` | |
| `HeartbeatHistory_proofs!SumsAreRight` | `SumsTracked` | |
| `HeartbeatHistory_proofs!RecentWindow` | `RecentInOrder` | |
| `HeartbeatHistory_proofs!EqualHistories` | `EqualStaysEqual` | |
| `StartUp_proofs!StartTypes` | `TypeOK` | |
| `StartUp_proofs!FileIsRead` | `ConfigIsFile` | |
| `StartUp_proofs!RepeatsAloneLeak` | `OnlyRepeatsLeak` | |
| `StartUp_proofs!SocketsRight` | `RightSocket` | |
| `StartUp_proofs!OneBufferOnly` | `OneBuffer` | |
| `StartUp_proofs!OneThreadIsServed` | `OneThreadStarts` | `LoopLimit` is at least 4 (it is 20) |

`KeepsPromise` is a specification; all others are invariants.

*Protocol.* `AckTruthful` is inductive with the types: ids get into `unacked` as they
get into `received`, which never shrinks, and an acknowledgement is made of `unacked`.
`NoSilentDrop` needs `AckTruthful`, because what the responder forgets as received
is what an acknowledgement names. `Sorted` needs that the mutex excludes
(`MutexInvariant`: a thread in its critical section, or the responder in its diff, is
the holder) and that the id being added is above all in `g_array` and below
`nextId` (`OrderInvariant`): between taking an id and appending it no other thread
takes one. The refinement needs both, for the step that appends must not be a
second `Submit` of an id, and the removal must take exactly the id at the index,
which follows from ascending order (`RemoveIdAscending`).

*Counts.* Every step that may forget a message that is not `received` adds one to the
count of the diff, and takes at most one id (`DropLosesOne`), so `DropsCounted` is
inductive with the finiteness of what was lost. For an exact count no id may be counted
twice: what was resent has left `g_array`, and ids are not used again (`ResentGone`).
`CopiesBound` is not inductive as it stands: a copy that the server is about to count is still in
flight. `CopiesInv` counts those as well, and says that a thread with an id of its own in
hand, which it may yet send, leaves room for one more.

*One thread.* It reaches STOP only over the loop that waits for an empty `g_array`, and adds
nothing later: `StopLast` says that wherever there is a STOP, in the thread's `pc`, on its
way or received, `g_array` is empty.

*The total.* A thread adds its own count once, as it leaves. The messages counted by a
thread, or about to be, that it has not yet added make up a set of pairs (`Uncredited`), and
its size and the total are together the number of messages that went into `g_array`
(`CreditInv`). That the total is no less than `NumMessages` is due to the thread that
raised `interrupted`, for nothing else does (`AllOfOne`).

*Segments.* `AcknowledgedOnce` has the double free in it: the server ends only from a
failed cut, with no segment to send (`dangling`). The three need one invariant (`SplitInvariant`): the segments finished and
the one in hand are neighbours, from the first id to the last token taken, and each
finished one holds an id, because every id fits in an empty segment
(`FinishedNotEmpty`). So there are never more of them than ids, which is how many
slots were allocated.

*Search.* The invariant says that `high` is below the size whenever `low <= high`,
and that on ascending ids the one searched for is between `low` and `high` if it is
anywhere. The probe is between the ends because the product modulo the word size is
not above the product, and that not above `(high - low)` times the divisor: overflow
can slow the search down, but not lead it astray. The removal moves what is behind
the index; that this is the selection of all other ids follows from there being no
second of its value.

*Statistics.* Between `open` and `unlock` a saver holds the mutex (`Locked`), so that
what is cleared is what was written (`WrittenThenCleared`): the server thread
cannot append in between, wherever the saver is cancelled. For a small run, main saves
last: the server thread has ended and the saver is dead (`MainLast`), all records are in
memory, and all saves go to the first file (`AllInMemory`, `SavedByMain`).

*Detector.* Who stores its copy holds `compare_mutex` (`LockInv`). `WildInv`: between the
look at phi and the swap the link stays unavailable if nobody else writes and the clock is
not set back, because time makes it only less available (`TickKeepsUnavailable`).

*Window.* `RecentInOrder` is not inductive: if a full window did not end with the newest
sample, the next drop would leave two samples in a row uncounted. `Latest` says that it
does. The lemmas follow the operators: each keeps `Window`, whatever the sums. For
`SumsTracked` each operator keeps `Summed`; a sum is a fold over the intervals that count,
and is shown to be the last of the partial sums (`Partial`), for which an induction over
the naturals is within reach. The variance from them is not negative by the inequality
of Cauchy and Schwarz, from the squares of the distances to any one number. For
`EqualStaysEqual`, histories that compare equal have counters and intervals in common up
to the counter (`Alike`), each operation keeps that, and equal intervals have equal sums.

*Start.* The mutex gives `Locking` (who is between `calloc` and `unlock` holds it, and
finds `g_ip_address` as it left it) and with it that the buffer at `g_ip_address` is the
only one allocated (`Buffers`). A pointer may be stale, but what it points to is free,
empty, an address or a part of one; and as main creates its sockets before it starts a thread (`Order`),
and the threads ask for the same address, no buffer ever holds another address than the
one that those who may still look at it asked for (`Contents`). A part of it is in a buffer only while
somebody is composing (`MayHold`), and who finds it there is another, which takes two
threads (`TwoThreads`).

*File.* `Allocated` says what is on the heap: for each field the string of the event it
has its value from, and those of events whose key comes again. For `ConfigIsFile` the
proof first says where a document stands among its events (`Layout`, from the lemmas on
`FlattenSeq`): each section begins at an offset, its pairs follow two by two. `Placed` is
a whole flat document and its events. `FollowsFile` is the invariant: the reader is
between two pairs of a section, and knows its name (`Inside`), or in front of one
(`Outside`), and each field has the value it has last before that place (`LastBefore`). At
the end that is the value it has last (`LastIsSaid`). Keys and names need not differ.

*One thread's start.* `ReadsOn` says that the file is read to its end: there are never more
than three events in a row without a scalar before the next one, which is counted too
(`Steady`; this is where `LoopLimit` counts), and no
key is left at the end, because the document ends in a pair. The premise is of what the file
says, so that it holds while it is being read; `SaidIsRead` carries it over to what main has
read when it needs the protocol, the addresses and the number of threads. `OneInv` says that whoever
asks for an address has what it asked for (`Holding`): with one thread nobody else is
in `get_address` after main, so the buffer it was given stands until it is used, and
each address is bound once (`Unbound`).

Only model-checked is liveness: `Terminates`, `Returns`, `MainFinishes`,
`BeatEnds` and `Ends`. It rests on fairness, and so on ENABLED, which the prover cannot
reason about. The properties that runs or configurations find violated are no theorems.
Every invariant that a passing run checks is one, with the hypotheses above, and so is the refinement.

## 6. Not modelled

* Messages over TCP and `try_reconnect`: the acknowledgement protocol is for UDP. (Sockets
  of both kinds are created in `StartUp`.)
* The contents of messages, formats, paths, logging.
* Memory that cannot be allocated where the code calls `exit`.
* `utils.c` but for `handle_interrupt`: its bookkeeping of ids was replaced by the
  dynamic array; nobody calls it, and its tests are commented out.
  `message_queue.c`: no program and no test of the repository calls it.
* Memory beyond a buffer of `print_configuration`: an address of more than 31
  characters does not fit in the 32 bytes it is copied to.
* Float rounding in the failure detector.
* What libzmq does beyond losing, reordering and duplicating packets; in particular
  errors other than a timeout in `zmq_receive`.

## 7. Plan

Done: the protocol with `Delivery`, the search, the statistics, the failure detector, the
segments, the window of intervals, the reading of the file and the start of the programs,
each with the proofs of its invariants.

Next:

1. Acknowledgements over their whole way: that what the client unmarshals of the segments
   is what the server marshalled, as a theorem that joins `AckSegments` to `Server`, which
   now takes it from `AckSegments` by its words only.
2. That the search stands behind `Client!RemoveId`: `InterpolationSearch` shown to
   implement it on ascending arrays, as a refinement of one step.
3. Properties for the hazards that have none: the server's STOP that is sent once, the
   order in which threads swap in their states against the order of the clock, the
   terminator written in front of the buffer when `zmq_recv` fails.
