# NEST-OS in TLA+

A model of the parts of NEST-OS (`etri/nest-os`) in which its own logic lies: the NPU OS
(scheduler, queues, executor and handler threads), the daemon (placement, loading,
dispatch, scheduling policies), and the client library (`ntask`, `loader`, `nprocess`).
TLC checks the modules on small instances; TLAPS proves theorems about the NPU OS, the
placement, registration, loading, dispatch and task graphs for every value of the constants.
`PROJECT.json` maps every definition to source lines. Line numbers below are those of
`src/`: `server_comm.c`, `nos_bit.c`, `ntask.c`, ... are in `src/src/`, `npuos.c`, `os_sched.c`, `sock_handler.c`, `queue.c`, `task.c` in `src/os/src/`.

## 1. The system

Three kinds of process:

    client (libnest)  --SysV message queue-->  daemon  --UDP-->  NPU OS ("nos")
        ^    ^---------SysV message queue--------|       <--UDP--   |
        |                                                           |
        +-------------TCP: the client listens, the NPU OS connects--+

| component | state | operations | talks to |
|---|---|---|---|
| NPU OS scheduler (`os_sched.c`) | `ready_group`, `ready_table`, 256 queues, cached `highest` | `sched_qpush`, `sched_qremove`, `cal_highest_task` | executor and handler, under `sched->lock`; `highest` is also read without it |
| NPU OS queues (`queue.c`) | doubly linked nodes inside `Task` | push, pop, delete, is_empty | scheduler |
| NPU OS executor (`npuos.c`) | `current`, `idle`, `shutdown`, `ntasks` | pick, run, remove, free; idle task; shutdown | handler by scheduler, heap and `ntasks` |
| NPU OS handler (`sock_handler.c`) | the `Task` it builds | receive a datagram, create, submit | daemon (UDP), client (TCP, from inside tasks) |
| NPU OS networks (`sock_handler.c`, `nn_object.c`) | `nn_object->bs`, `loaded`, the NPU | load, unload, predict, nos_info tasks | client (TCP), daemon (echoes) |
| daemon IPC thread (`server_comm.c:291-598`) | the request at hand | S1, S2, mask, LOAD, UNLOAD, PORT, INFO, DMKILL | clients |
| daemon socket thread (`server_comm.c:78-274`) | the echo at hand | OS_CONN, load/unload/predict echo, info echo | NPU OSes |
| placement (`nos_bit.c`, `bit_handler.c`) | `os_bit`, a node with a bit string per NPU OS | set, clr, three queries | both daemon threads, with no lock |
| policies (`scheduler.c`, `server_npuos.c`) | `ntasks`, `ewt`, wcet list per NPU OS, `npuos_num` | mnt, mwct, get/update_wcet | both daemon threads; a mutex for `ntasks` only |
| `ntask` (`ntask.c`) | flags, inputs, port, `msg_predict` | run, settings, set_partition, get_nos_mask | daemon, NPU OS |
| `loader` (`loader.c`) | file, block | load, unload | daemon, NPU OS |
| `nprocess` (`nprocess.c`) | counts of predecessors and successors, `tid` per task | contain, run (`fork_nt`) | threads of one client |
| registration (`server_comm.c:95-170`, `sock_handler.c:534-555`) | `nos[]`, `npuos_num`, an id on either side | OS_CONN, its echo | daemon socket thread, NPU OS |
| information (`info.c`, `server_comm.c:552-594`) | the mailbox of a client | CL_INFO, CL_NOS_INFO, NOS_INFO_ECHO | clients, both daemon threads, NPU OS |
| data channel (`share_comm.c:110-230`) | what is in a connection, settings on either side, file offset | send/recv data and file, echo of the output size | client, NPU OS |
| shutdown | `server_done`, records of NPU OSes | DMKILL, `server_close`, SIGSEGV handler | everybody |

What makes it hard:

- two unlocked threads in the daemon (placement, `ewt`, wcet lists, registration) and two in
  each NPU OS, where a `Task` address comes back from `malloc` while the main loop compares
  pointers;
- checks made early and used late: S1/S2, the placement check of a load or unload against
  echoes still under way;
- four peers that must agree on a conversation (a load has two answers, a file transfer and
  an echo; a prediction a listening socket, inputs, outputs and an echo);
- data kept twice or four times: bitmap/queues/`highest`, `os_bit`/nodes, `bs`/`loaded`/NPU,
  client flags/`msg_predict`, records of the daemon/ids of the NPU OSes;
- counters counted down by racing threads (`num_vpred`), bit arithmetic at word boundaries.

What makes each component correct: the scheduler always names the oldest task of the
greatest priority; the NPU OS never touches a freed task and runs each request once, in
order; the daemon's placement is what the NPU holds, apart from echoes under way; queries
answer something that held while they ran; the load of an NPU OS is what its outstanding
requests added; requests meet their client on the data channel; a task graph is run in
order, each task once, and `run` returns when all have run; ids of
daemon and NPU OSes agree and a shutdown stops every NPU OS; the bytes of a transfer arrive
whole; and whatever was asked is answered. `PROJECT.json` lists the hazards, line by line, with the properties against them.

## 2. Modules

| module | models | state and actions against the code |
|---|---|---|
| `ReadyBitmap` | `os_sched.c`: table `unmap_table`, lookup, updates of the two-level bitmap | real numbers: `map_table` are powers of two, `cal_highest` is the walk over bytes of words with `\div` and `%`; `HasBit`, `SetBit`, `ClearBit` are a word tested, or'ed and and'ed with an entry of it; `MarkReady`/`MarkEmpty` are the writes of push and remove |
| `OsQueue` | `src/os/src/queue.c` | `next`, `prev`, `head`, `tail`, `count`, one operator per case of `node_delete`; links of nodes that have left stay, as in the code |
| `SchedWords` (extends both) | the scheduler as the machine sees it | `sched_qpush`, `sched_qremove` on words, links and the cached `highest` together |
| `PriorityQueues`, `OsSched` | the scheduler as a whole | `PriorityQueues` promises `Top`; `OsSched` has `ready_group`, `ready_table` as sets of bits, queues as sequences, cached `highest` |
| `NpuOs` (extends `OsSched`) | both threads of an NPU OS | `epc`, `hpc` are the places in `npuos_function`/`task_executor` and `sock_npuos_handler` between two shared accesses; `allocated` and `job` are the heap: a `Task` is any free address |
| `BitString`, `NnPos` | bit strings of partitions and the placement | `w`, `r` are the socket thread in `set`/`clr` and the IPC thread in a query, one action per memory access; `mem`/`allocated` are the nodes; history `q` collects what was installed while a query ran |
| `Placement` | load and unload end to end | loaders (`pc`, `inbox`), `HandleLoad`/`HandleUnload`/`HandleEcho` of the daemon, receive/pick/task of an NPU OS, `npu` what the device holds; the placement is one value here, `NnPos` opens it |
| `TaskGraph`, `Nprocess` | `nprocess_run` | `TaskGraph` promises: a task starts when its predecessors are through, a run ends when all are; `Nprocess` has one record per thread, splits `num_vpred--` into load and store, and has the loop that waits for a `tid` read it once, as the build (-O3) does (`Spin`) |
| `Dispatch` | prediction end to end with ports and policies | `ipc`, `sock` are the two daemon threads between accesses of `ntasks`/`ewt`; clients step through `ntask_run`; NPU OSes connect and predict |
| `WcetMap`, `WcetList` | the prediction times behind the mwct policy (`server_npuos.c`, `src/src/queue.c`) | `WcetMap` promises a map from blocks to maxima; `WcetList` has one queue per network, nodes with `next`, `block`, `wcet` and a lock; `w` is the socket thread in `update_wcet`, `r` the IPC thread in `get_wcet`, one action per access the other can see |
| `Registration` | registration, information queries, shutdown | `s`, `i` are the socket and the IPC thread of the daemon between accesses of `nos[]`, `npuos_num`, `server_done`; `inq`, `mail`, `requests`, `answers` the datagrams and message queues; `npc`, `nid` an NPU OS and the id it took from its echo; `cl` the clients of `info.c` |
| `DataStream` | the TCP connection of a prediction or a load | `up`, `down` are the bytes under way, at most `Buf` each way; a step of a thread is one `send` or `recv` of `share_comm.c`; `ntask` and `msg_predict` are the two copies of the settings; `fdpos` the offset of the file |

`MC*` modules hold instances; `NpuOs_proofs` (of `OsSched` too), `NnPos_proofs`,
`Registration_proofs`, `Dispatch_proofs`, `Nprocess_proofs`, `Placement_proofs`,
`DataStream_proofs` and `Lists_proofs` (of `SchedWords`, with `ReadyBitmap` and `OsQueue`, and
of `WcetList`: the linked lists of the two programs) the theorems.

Composition:

- `SchedWords` and `OsSched` both implement `PriorityQueues`, the one with words and links,
  the other with sets and sequences; so what is proved of `OsSched` is about what the machine
  does. `NpuOs` is built on the actions of `OsSched` and is shown to use it legally
  (`UsesSchedulerLegally`, the refinement `NpuSpec => Spec`), so what holds of `OsSched` under
  every legal use holds in the process.
- `BitString` justifies that `Placement` and `Dispatch` take blocks as sets of partitions
  (below partition 31: see `NnPosWide`), `NnPos` that they read and write the placement in a
  step (a query may be late by what overlaps it; `AnswersAreCurrent` says by how much).
- `NpuOs` justifies that `Placement` and `Dispatch` take tasks from an NPU OS in order of
  priority and arrival (apart from overlooked tasks, `SubmittedRunsUnlessOverlooked`), and
  tells what becomes of the DMKILL that `Registration` delivers. An overlooked task is a state
  of `Registration` (`Overlook`, `spin`, `hung`), since a shutdown and a query depend on it; in
  `Placement` and `Dispatch` no task is overlooked, so `LoadReturns` and `RunReturns` hold of
  calls whose task, and those in front of it, are not.
- `WcetList` justifies the single value `wcet` of `Dispatch`: an answer was the maximum at
  some moment of the query. `Registration` justifies that an NPU OS is known to `Dispatch`
  from the echo on; `Dispatch` keeps the store of the record and of the count as one step and
  the holes, which its policies see.
- `DataStream` opens the exchange that `Dispatch` (`connect`, wait, answer) and `Placement`
  (`accept`, transfer) make in one or two steps.

Mutants (operators named `X_Something` before `X`) are plausible bugs, one for each property
of each passing run; every one is caught under the run's own configuration. Each module has
one type invariant, which documents the domains of its variables; TLC's runs spend their
time on the other properties, and the type invariants of `OsSched`, `NpuOs`,
`NnPos` and `Registration` are proved (of `Dispatch`, `Nprocess`, `Placement`,
`DataStream`, `SchedWords` and `WcetList`, the types of their inductive invariants).

## 3. Runs

| run | asks | instance and why it is enough |
|---|---|---|
| `SchedWords` | do bitmap words, table, links and cached pointer together implement priority queues, are the links right? | queues at byte and word boundaries, 4 tasks: first, last, inner and only node, tasks that move between queues with stale links; the lookup works byte by byte, so a byte border and a word border are its cases |
| `NpuOsSafety` | is the process memory safe, does it run each request once and in order, does it implement priority queues? | 4 addresses, 5 requests (DMKILL, load, two predicts of one priority, one of priority 0), words of 2 bits: addresses are reused |
| `NpuOsLive` | is everything submitted run, does shutdown close? | 3 addresses, 4 requests; liveness, so no symmetry |
| `NnPos` | does the unlocked placement stay consistent, are answers current, are nodes live? | 2 NPU OSes, 2 words of 8 bits with 4-bit ints (half a word, as 32 of 64), nested ranges in the second word and one that is refused |
| `NnPosWide` (violation) | has every partition its own bit? | ranges at the sign bit of the int |
| `Placement` | do daemon and NPU OS agree on what is installed, does a load return, is every answer read by the call that asked? | 2 loaders, all blocks of 2 partitions, with and without file, one NPU OS without the network, one name that is not connected; stack clean or not |
| `Nprocess` | is a graph run in order, once each, and does run return? | the graph of `np_test.c` widened so that three tasks count down one; 4 threads, any of which may fail to start |
| `NprocessAgain` (violation) | the same when run twice | the graph of `np_test.c` itself, 2 runs |
| `Registration` | do ids agree, is every known NPU OS stopped, do queries get their own answers? | 2 NPU OSes that ask for any id or none (of two choices that differ in names only, one), 3 ids, a client with 2 queries: a hole above and below an NPU OS that is registered, a taken id, a surplus row read by the second query, a datagram before the echo a query and a DMKILL that are overlooked and a DMKILL at every moment all arise |
| `WcetList` | is the unlocked list a map to maxima, do both threads get through? | one network, 3 blocks, 3 nodes, costs 1 and 2: a list that grows from none to three while it is searched, a block found first, last and not at all, a value raised while it is read |
| `DataStream` | does what is sent arrive whole and in place, does a transfer end? | sizes at and next to a multiple of the payload (names 2, file 3, input 4, payload 2), 3 bytes in each direction so that both sides block, short reads of every length, 3 runs of one client object (a descriptor that is used again, a port left bound) |
| `Dispatch` | is the load right, the choice good, the client found, the answer given? | 2 clients (2 and 1 predictions), 2 NPU OSes, one of which asks for its id (contiguous, hole and refusal all arise), both policies, costs 1 and 2 (so that wcet rises between charge and settlement), 2 ports (the counter wraps), 2 changed settings |

Bounds, by name: `Task` and `Node` (addresses), `Job`, `MaxRuns`, `MaxChanges`, `MaxQueries`,
`Runs`, `Thread`, `Addr`, `Costs`, `Buf`, `PORT..PORT_MAX`, `MaxNos`. Deadlock is not checked
where the system may stop: the NPU OS that has closed (`NpuOs*`), the daemon that has called
`exit` (`NnPos*`, `Placement`, `Registration`), the loaders that wait in `accept`
(`Placement`), the `nprocess` that has made its runs or hangs on a lost decrement
(`Nprocess*`), the client of `DataStream` that has made its runs, has exited, or waits for a
peer that was told something else. In `SchedWords`, `WcetList` and `Dispatch` it is.

What the passing runs show beyond the obvious:

- The pointer queues, the bitmap and the cached pointer are right under any legal use, and
  the two threads use them legally: `highest`, read with no lock, is never a freed task.
- A request is lost only if the main loop overlooks a reused address
  (`SubmittedRunsUnlessOverlooked`); one of priority 0 never runs (`PriorityZeroNeverRuns`),
  though `ntask_set_priority` accepts it.
- The daemon's placement is only ever late (`PlacementIsOnlyLate`), even when bit strings on
  the NPU OS's stack are not clear; double unloads do not make the daemon clear a node it
  does not have (`DaemonSurvives`); double loads are caught by the NPU OS (`LoadsAreNew`);
  a load has one or two answers from four places, and none is left for the next call
  (`NoAnswerLeftBehind`).
- A run of a graph never ends early or starts a task early, whatever decrement is lost
  (`CountNeverTooLow`, `ImplementsTaskGraph`), but it may not end (`RunReturns` has `failed`).
- `ntasks` is exact (`CountIsOutstanding`), `ewt` is as long as no two updates overlap
  (`EwtIsCharged`), mnt never prefers a busier NPU OS (`ChosenIsLeastBusy`).
- The list of prediction times needs no lock on its links: a node is complete before it can
  be reached, and every answer was true at some moment of the query (`ImplementsWcetMap`).
- Ids agree unless something overtakes the echo (`IdsAgree`); with ids given by the daemon
  there is never a hole, not even between the two stores of a registration
  (`NoHoleUnlessAsked`); a shutdown stops everybody it knows, with four exceptions that the
  property names, each of one NPU OS: a hole below its id, a socket closed before its turn, a
  DMKILL taken for the echo, a DMKILL overlooked (`KnownAreStopped`). A surplus row gives a
  client a foreign answer, but never leaves it waiting (`QueriesReturn`).
- What is read is what was sent, unless the two sides were told different things or a name
  or an echo came in two pieces (`ArrivesWhole`); a prediction returns, unless client and NPU
  OS disagree on what to exchange (`RunReturns` of `Dispatch` and `DataStream`).

## 4. Fairness

- `NpuOs`: weak fairness of the executor thread and of the handler once it has a request:
  both are running threads. None for `Receive`: nobody has to send a request, and UDP may
  lose it.
- `Placement`, `Dispatch`, `Registration`: weak fairness of each thread that has something to
  do (daemon threads, NPU OS threads, a client within a call). None for starting a call,
  registering, asking, loading or configuring, and none for dmkill. Whenever an NPU OS may
  overlook a task (`Overlook`) it may run it as well, so fairness never forces it to.
- `Nprocess`: weak fairness of each thread. None for starting another run is needed: runs
  are bounded.
- `WcetList`: weak fairness of `update_wcet` and of `get_wcet` once begun; none for beginning.
  A mutex is not fair, so `QueriesAndReportsEnd` excepts a thread whose rival takes locks for
  ever.
- `DataStream`: weak fairness of the client within a run, of the connection attempt of the
  NPU OS, and of the NPU OS once connected.

A blocked thread (in `accept`, on a mutex, on a socket) is a disabled action, so weak
fairness never promises it to get through.

## 5. Proofs

`NpuOs_proofs` (any word width `W`, any set of tasks, requests, priorities, addresses), `NnPos_proofs` (any number of NPU OSes, words, bits of a word and of
an int, any ranges and addresses), `Registration_proofs` (any set of NPU OSes and clients, any
number of ids and queries), `Dispatch_proofs` (any finite sets of clients and NPU OSes, any
number of ids, ports, predictions and settings, both policies), `Nprocess_proofs` (any
finite graph of tasks, any set of threads), `Placement_proofs` (any sets of loaders, NPU
OSes and partitions, any number of calls), `DataStream_proofs` (any sizes of names, files,
data, outputs, payloads and connections, any number of runs) and `Lists_proofs` (any set of
tasks, any priorities from 0 to 255; any set of networks, blocks and times, any finite memory). From the assumptions `SchedAssumption` of `OsSched` (`W` a positive
number, `NULL` not a task), `JobAssumption`, `IdleAssumption` of `NpuOs`,
`BitStringAssumption` of `BitString` (an int has at least 2 bits and fits a word),
`NnPosAssumption` of `NnPos` (at least one NPU OS, ranges are pairs of numbers) and
`RegistrationAssumption` of `Registration` (at least one id, NPU OSes ask for an id or for
none, `NULL` neither an NPU OS nor a client), `DispatchAssumption` and `NullAssumption` of `Dispatch` (not more clients than
ports and not more NPU OSes than ids; prediction times and settings are of the kinds the
comments name; `NULL` is neither an NPU OS, a thread nor a request), `NprocessAssumption`
of `Nprocess` (`Order` lists the tasks once each, no task is twice a successor of one other,
`Main` is a thread, `NULL` neither), `PlacementAssumption` and `NullAssumption` of `Placement`
(NPU OSes that have the network are connected ones, blocks are non-empty sets of partitions,
`NULL` is not a request), `DataStreamAssumption` of `DataStream` (sizes are positive numbers,
a name and an echo fit the connection), `NullAssumption` of `OsQueue` and `QueuesAssumption` of
`SchedWords` (`NULL` is neither a task nor a priority, priorities are from 0 to 255 and 0, that of the idle task, is
one of them) and `WellFormed` of `WcetList` (a block is a network and a range, times are
positive, memory is finite, `NULL` is none of these), and nothing else but what the table names, TLAPS proves:

| theorem | statement | argument |
|---|---|---|
| `SchedulerConsistent` | `Spec => []SchedInv` | `SchedInv` is inductive: types, each task in one queue, bitmap matches queues, `highest` is the top. `HighestBitIsGreatest` (the priority `y*W+x` of the greatest word and bit is the greatest priority) and `CalHighestIsTop` carry it; one lemma per operation |
| `SchedulerIsPriorityQueue` | `Spec => PQ!Spec` | `SchedInv` turns the guarded updates of bitmap and cache into the abstract ones |
| `SchedulerConsistentInNpuOs` | `NpuSpec => []SchedInv` | from `NpuInv` |
| `MemorySafe` | `NpuSpec => []NoUseAfterFree` | from `NpuInv` |
| `AlwaysATask` | `NpuSpec => []NeverRunsNull` | the idle task is always queued, so `highest` is never NULL |
| `RemovesOnlyHeads` | `NpuSpec => []RunningIsHeadOfItsQueue` | pushes append, and only the executor removes |
| `PriorityZeroStarves` | `NpuSpec => []PriorityZeroNeverRuns` | the idle task heads queue 0 for ever |
| `NpuTypes` | `NpuSpec => []NpuTypeOK` | from `NpuInv` |
| `LegalUse` | `NpuSpec => Spec` | each step of the process is a step of `OsSched` or leaves it alone |
| `RunsOnce` | `NpuSpec => []RunsAtMostOnce` | `OnceInv`: a request is in one place, on the network, with the handler, queued or started |
| `StartsInOrder` | `NpuSpec => []FifoPerPriority` | `FifoInv`: the queue of a priority holds its requests in the order of submission, behind those that have started |
| `GreatestFirst` | `NpuSpec => StartsGreatestFirst` | what `highest` names when it is read is the top of the queues, by `SchedInv` |
| `ProcessIsPriorityQueue` | `NpuSpec => ImplementsPriorityQueues` | `LegalUse` and `SchedulerIsPriorityQueue` |
| `PlacementTypes` | `Spec => []TypeOK` | one step per action; `WordAndBit` takes a partition apart into word and bit |
| `HeldNode` | `Spec => []HeldNodeIsLive` | `NodeInv`: nodes are not shared and only the socket thread frees; `ReaderInv`: a query knows every clr that overlaps it |
| `PlacementExact` | `BelowSignBit => (Spec => []PlacementConsistent)` | `ContentInv`: the words below `w.word` are those of the set that will be installed, the others still those of the set that is; `BitsOfUnion`, `BitsOfDifference` |
| `CurrentAnswers` | `BelowSignBit => (Spec => []AnswersAreCurrent)` | `QueryInv`: what was read so far was installed at some moment of the query, and is enough to find what satisfied it at its start |
| `RegistrationTypes` | `Spec => []TypeOK` | one lemma per action |
| `NoHoles` | `Spec => []NoHoleUnlessAsked` | `NextIdInv`, `PlaceInv`: without asked ids the record is stored at `npuos_num` before the count is raised, and only the socket thread writes either |
| `IdsOfRecords` | `Spec => []IdsAgree` | `EchoInv`: the mail of an NPU OS that waits and was sent nothing else begins with its echo, which carries the id of its record |
| `OwnAnswers` | `Spec => []AnswersBelongToQuery` | `AnswerInv`: unless a surplus row was sent to it, a client has at most what its own query is still owed, and that in one place |
| `DispatchInvAlways` | `Spec => []DispatchInv` | the inductive invariant of dispatch, see below |
| `FindsListener` | `Spec => []ConnectFindsListener` | `OrderInv`: while a request is under way its client listens; `PortInv`: no two clients have one port, since ports are given in turn and each client asks once |
| `CountIsRight` | `Spec => []CountIsOutstanding` | `CountInv` with `MutexInv`: the value a thread writes back is still right, because the mutex is held; and a request is in one place, so that it is counted once |
| `EwtIsRight` | `Spec => []EwtIsCharged` | `CountInv`: under mwct too, for an id whose `ewt` no two threads have updated at once; the sum `MapThenSumSet` of the model does not depend on the order of its elements (`ChargeWithout`), so that a request that comes or goes changes it by what it has added |
| `LeastBusy` | `Spec => []ChosenIsLeastBusy` | `ScanInv`: only the thread that scans raises loads, so they can only have fallen since the scan began |
| `Refused` | `Spec => RefusedOnlyIfAbsent` | `ScanInv`: as long as nothing is chosen, the ids of the mask are still to come |
| `GraphInvAlways` | `FirstRun`: `Spec => []GraphInv` | the inductive invariant of task graphs, see below |
| `OneThread` | `FirstRun`: `Spec => []OneThreadPerTask` | `OneInv`: of two threads that count one task down only the last sees the count reach zero |
| `CountIsNeverTooLow` | `FirstRun`: `Spec => []CountNeverTooLow` | `CountInv`, which says the same of what a thread has loaded and not yet stored |
| `RunsTheGraph` | `FirstRun`, `Acyclic`: `Spec => ImplementsTaskGraph` | `ReadyInv`: what starts has been counted down by all its predecessors; `MainInv`: the tails that are joined have finished, and with them, since the graph has no circle, every task |
| `PlacementInvAlways` | `Spec => []PlacementInv` | the inductive invariant of loading and unloading, see below |
| `NothingLeftBehind` | `Spec => []NoAnswerLeftBehind` | `PhaseInv`: how many answers a loader has, and which, by what it waits for and whether its call is out |
| `OnlyLate` | `Spec => []PlacementIsOnlyLate` | `TrailInv`: there is a path of placements from the daemon's to the NPU's, one step per echo; `FoldPath`: the fold of the property goes along it |
| `BitsAreRight` | `Spec => []BitStringIsNpu` | `BitInv`, which is the property |
| `NeverClearsNothing` | `Spec => []DaemonSurvives` | `TrailInv`: with a clean stack an unload that was done was of an NPU that held something, so that the placement before its echo is not empty |
| `LoadsAreOfNew` | `Spec => LoadsAreNew` | `ConnectInv`: what was found not to be loaded before the file was fetched is still not loaded after |
| `StreamConsistent` | `Spec => []DataInv` | the inductive invariant of a connection, see below |
| `TransfersAreWhole` | `Spec => []ArrivesWhole` | `InInv`: what is under way is awaited, or will never be enough; `OutInv`: what is under way follows what has been read of the echo and the output |
| `LookupIsHighestBit` | for every 16-bit word but 0, bit `Lookup(word)` is set and no higher one is | the bytes of a word, and `unmap_table` line by line |
| `InvHolds` | `Spec => []Inv` | the inductive invariant of the scheduler on words and links, see below |
| `LinksMirrorHolds` | `Spec => []LinksMirror` | `Held`: the next links of each queue run through a sequence, the prev links through its reverse |
| `ImplementsPriorityQueuesHolds` | `Spec => ImplementsPriorityQueues` | `Inv`: a push appends to one of the sequences, a remove takes its task out, and the cached pointer is the first of the highest |
| `ImplementsWcetMapHolds` | `WellFormed`: `Spec => ImplementsWcetMap` | `WcetInv`, see below: only the instruction that links a node and the one that raises a time change what is recorded, of one block |

`NpuInv` is the inductive invariant of the NPU OS. The properties alone are not inductive:
that freeing is safe needs to know that the task between remove and free is out of every
queue and is not the idle task (`ExecutorInv`), that the handler's fresh task is another one
and not queued (`HandlerInv`), what the threads hold before the handler exists (`BootInv`),
and that every queued task but the idle one carries a request with its priority
(`ContentInv`). `HistoryInvariant` adds `OnceInv` and `FifoInv`, which relate the queues to
what was submitted and started. The proof has one lemma per action (`PickStep`,
`RemoveStep`, `FreeStep`, `SubmitStep`, ...).

`PosInv`, `ContentInv` and `QueryInv` are those of the placement: where the socket thread is
and what it holds (`WriterInv`), to whom each allocated node belongs (`NodeInv`), when the
bit of an NPU OS and its node differ (`BitInv`); what each node holds, word by word during an
update (`ContentInv`); and for each NPU OS a query is about and no clr overlaps, what has been
read of it (`ReadInv`) and whether it is still in the mask (`ResultInv`). The last two need
`BelowSignBit`, that no range reaches the sign bit of an int: partitions 0 to 30 and 64 to 94
of the code. `NnPosWide` shows that the hypothesis cannot be dropped.

`RegInv` is that of registration: `TypeOK`; `ServeInv`, what the socket thread has found
out about whom it registers; `NextIdInv`, that without asked ids the next one given is the
number of NPU OSes; `PlaceInv`, that an NPU OS is in one place (not connected, in the socket,
served, or sent its echo) and the records are of different ones; and `EchoInv`, what comes to
it before its echo. Without `PlaceInv` an NPU OS could be
registered twice and the second echo would disagree with the first record.

`DispatchInv` is that of dispatch; the five theorems below it in the table follow from it.
`OrderInv` says that what there is of a prediction is in one place: a message in the daemon's
queue, the scan, the request that is being charged, the queue, the hands or the answers of an
NPU OS, the settlement, or the mailbox of the client; and that the client is in the step
(`pc`) that goes with it. Two lemmas, for a letter that moves (`LetterPasses`) and for one that
is answered (`LetterReturns`), carry it through the actions. `RegistryInv` says that the ids in
all of those are of registered NPU OSes; without it the answer of an NPU OS could be settled
with another. `PortInv` relates the
port counter of the daemon to the number of clients that have a port, hence the assumption
that there are as many ports as clients: with more clients the counter wraps onto
ports in use. `MutexInv`, `CountInv` and `ScanInv` are the load of an NPU OS and what the
two threads and the scan know of it. Their proofs need cardinalities and sums only for one
step: a request is added to, or taken from, the outstanding ones of one NPU OS, in which it was
not, or was, before; that is where one place at a time is needed. The sum is a fold of the
community modules, a `CHOOSE` of a recursive function over the subsets: that the function
exists (`ChargesExist`), that two of them agree (`ChargesAgree`) and that any element can be
taken first (`ChargeWithout`) are inductions over the size of a set.

`GraphInv` is that of task graphs. What carries it is `Pending(t)`, the predecessors of `t`
that have not finished or have still to count `t` down: a set that only shrinks within a
run, while the count in memory may be anything above its size. Neither property is inductive
alone: a thread that has loaded a count may store it much later, so the loaded value too has
to be at least the size of `Pending` (`CountInv`); that two threads cannot both be the last
needs that nobody holds a task with something pending (`ReadyInv`), and that a task is held
by one thread, be it running it, counting down for it or about to give it a thread
(`OneInv`). `RoleInv` says where in its task each thread is, `TidInv` that the `tid` of a
task under way is that of its thread, hence that `Join` waits for the right one. The heads
and tails are picked by a recursive function over the tasks (`InOrder`); `InOrderIs` says
what it picks. `FirstRun` (`MaxRuns = 1`) and `Acyclic` are hypotheses: `NprocessAgain` shows that
the first cannot be dropped, since the `tid`s of a run are those the next one joins; in a graph with a circle
a run returns though the circle never starts. TLC's instance meets both.

`PlacementInv` is that of loading and unloading. `TidyInv` says that the call of a loader is in
one box at a time: the daemon's queue, the datagrams to an NPU OS, one of its two queues, its
hands, or its echoes. `AskInv` says what the loader of a call in the daemon's queue waits for,
`PhaseInv` which answers it has: a load that passed the daemon's check has one while it is
out and two when it is over, a refused load and an unload have one when they are over. Neither is inductive
without the other two. `TrailInv` is what `PlacementIsOnlyLate` and `DaemonSurvives` have in
common; the former alone would not rule out an unload that finds the daemon's placement empty.
`ConnectInv` needs `TidyInv`: an NPU OS marks that it has connected by its client, so two NPU
OSes must not execute calls of one client. The clean stack is a hypothesis of `BitInv` and of what
follows from it only; `OnlyLate` holds for whatever the stack leaves.

`DataInv` is that of a connection. It takes what is in the connection and what its writer has
still to write as one sequence, which a write does not change (`MovedOver`), from which a read
takes the head (`PrefixTaken`), and of which a death keeps the beginning (`PrefixCut`). To the NPU
OS, `InInv` says that this is a prefix of what it awaits (`Awaited`: the rest of the section it
reads, then the others) and that what it has read is in its place; or that this is too short. The
second case is not idle: a file that was sent before from the same descriptor, or a setting
that was unset on one side only, makes the client write less than the NPU OS was told, and
data then stands where the file should. The NPU OS stores it, but never comes to the end, so
that it never acts on it (`SendsEnough`, `TakesSome`). That is why the property has neither
of them as an exception. To the client `OutInv` says the same, of the echo and the output,
without the second case; it needs of `RunInv` that nothing is in the connection to the client
before the NPU OS replies. What a loop over payloads writes is the whole section
(`SendsAll`), by an induction on the number of payloads.

`Inv` is that of the scheduler on words and links. What the refinement reads, the walk along
the next links of each queue (`Listing`), is a recursive function as long as `count` says;
`WalkIs` gives it from the other end: a sequence whose elements memory links one after the
other is what the walk finds. `Held` states that there is such a sequence for each queue, with no
task twice, its prev links the reverse, and all its tasks of the priority of the queue: this is
why a push or a remove in one queue leaves the others alone, though the links of tasks
that have left stay as they were and may still point into a queue. `node_push` appends to it
and each of the four cases of `node_delete` closes the gap. `Marked` states which bits are set.
That setting or clearing a bit by addition leaves the others as they are (`LowerBitStays`,
`HigherBitStays`) is arithmetic on the digits of a word, for powers of two that divide one another; with `LookupIsHighestBit` the two lookups of
`cal_highest_task` give the greatest priority that has a task, and so `highest`. The word operators are those of arithmetic, since `Bitwise` is
recursive; `MCSchedWords` has TLC compare them with `|` and `&`, and the lookup with the
highest bit for every word.

`WcetInv` is that of the prediction times: there are a list and a length for each network which
memory follows. No two lists share a node (`Apart`), links lead from each node to the next
and end in NULL (`Linked`), and no list has two nodes of one block (`OnePerBlock`). The tail
pointer is behind only between the two stores of a push (`Tailed`), and a network without a queue has
no nodes (`Queued`). `WriterInv` says what the socket thread has passed in its search, so that when
it ends in NULL no node has the block and the new one keeps `OnePerBlock`, and that the new node is
complete, and in no list, before it is linked. `ReaderInv` says that no node the IPC thread has passed
has its block, so that NULL at the end means that at this moment nothing was recorded. Neither thread's
position depends on the lock of a node: links are read without one. `WorstOfLists` then gives
what the abstraction computes over the nodes that can be reached: the time in the one node
of the block, or 0. `WcetList` takes part in `Lists_proofs` as an instance with constants and
variables of its own, of which nothing is assumed but `WellFormed`, so that the theorem is of
every behaviour of it.

Induction is done over sets: `LeastNumber` and `UpTo` are induction
on a number and up to a number, each for membership in a set, from
`NatLessThanWellFounded` and `WFMin` of the library; what a recursive function computes
follows from them. Each module of proofs has the few lemmas on numbers and sequences that it uses.

Only model-checked: all liveness properties. Liveness under fairness and ENABLED are out of the
prover's reach, and so are RECURSIVE operators and the library's own induction theorems, which
take an operator as parameter. Every safety property and every refinement that a passing run
checks is stated by a theorem, but two are proved under a hypothesis that the code does not
always meet, and say so: `BelowSignBit` in the placement, `FirstRun` and `Acyclic` in task graphs.
That `HasBit`, `SetBit` and `ClearBit` are the masks of the code is compared by TLC, on words with
every byte in them.

## 6. Disagreements with what the repository says

Runs that end in a counterexample, each against a line of the repository:

- `NnPosWide`: `bit_handler.c:32` shifts an `int`; partitions 31 and above of each word alias
  or vanish, though 128 partitions are announced.
- `NprocessAgain`: the second run of an `nprocess` joins threads of the first.

Met while modelling, described here and stated as exceptions in the properties, so that what
is left of each promise is checked:

- `npuos.c:168` takes a reused address for the old task; a request, a DMKILL too, can be
  overlooked (`SubmittedRunsUnlessOverlooked`, `KnownAreStopped`, `QueriesReturn`);
- `loader.c:102`: a loader with a file whose load the NPU OS refuses waits in `accept`
  (`LoadReturns`);
- `nprocess.c:60`: lost decrement, run never returns (`RunReturns`, `failed`);
- `nprocess.c:157`: the loop that waits for the `tid` of a tail has an empty body and the
  `tid` is a plain variable; built as `src/config` says (`DEBUG=0`, hence -O3), it is read once,
  and a run that comes there before the tail has started spins for ever (`RunReturns`, `failed`);
- `server_comm.c:237,394`: lost updates of `ewt` (`EwtIsCharged`, `overlapped`);
- `nos_bit.c:82-89,170`: a mask can name an NPU OS that is getting its first block
  (`AnswersAreCurrent`);
- `sock_handler.c:45,121,183`: uninitialised bit strings (`leftovers`; `CleanStack`);
- ids with holes (an NPU OS may ask for its id, `server_comm.c:106`): the policies refuse a
  request that an NPU OS could serve (`RefusedOnlyIfAbsent`), and `-1` is refused when
  `npuos_num` is taken; CL_INFO (`server_comm.c:557`) dereferences NULL and ends in the
  SIGSEGV handler, `server_close` (`:612`) sends to an address inside NULL and exits with the
  NPU OSes beyond the hole still running (`NoHoleUnlessAsked`, `KnownAreStopped`);
- `sock_handler.c:546`: what overtakes the registration echo is taken for it; the NPU OS
  drops it and keeps the id -1 (`IdsAgree`, `overtaken`); a query so dropped is not answered, a
  DMKILL not obeyed (`QueriesReturn`, `KnownAreStopped`, `mistaken`);
- `server_comm.c:557`: CL_INFO reads `npuos_num` anew for each row; a registration in between
  sends a surplus row, which the client takes for its next answer (`AnswersBelongToQuery`);
- `server_comm.c:271,597`: the socket thread may close the socket before it is cancelled, and
  then nobody is stopped whose turn has not come (`KnownAreStopped`, `Unreached`);
- `server_comm.c:588`: CL_NOS_INFO for an id without a record ends the daemon
  (`QueriesReturn`);
- `ntask.c:337-345,174,211`: settings that only the client learns of (`RunReturns`, `Agree`);
- `share_comm.c:163,218`: `recv_data` and `recv_file` spin at the end of a stream, a name or
  an echo (`ntask.c:127`) that comes in two pieces is not put together (`ArrivesWhole`,
  `RunReturns` of `DataStream`);
- `share_comm.c:204`: the second run with the same file sends nothing, since `sendfile` goes
  on at the offset of the descriptor (`RunReturns` of `DataStream`);
- `loader.c:102`: a load with a file leaves its port bound; the next load of that loader exits;
- `npuos.c:125`: `ntasks` of the NPU OS loses updates; nothing reads it.

## 7. Not modelled, and why

- Device drivers and network models (`src/os/npu`, `src/os_*`, `src/lib`): device code, partly
  binary; `Placement` keeps what the device holds.
- Applications, demo, data: users of the library. With the image code of the demo
  (`demo/stb_image*.h` alone are 9000 lines) they are 14 000 of the repository's 20 400 C
  lines. Of the 6200 lines of daemon, client library and NPU OS the map names almost half;
  what is left there is declarations, logging, setters and failing system calls.
- Code that nothing calls or nobody sends: `node_pop`, `queue_free`, OS_DISCONN, pop, delete
  and is_empty of the daemon's queue, `partblock_is_allbit_clr`.
- Lost datagrams between daemon and NPU OS: the code has no retry; a lost request or echo
  leaves the client waiting. `Placement`, `Dispatch` and `Registration` assume none is lost;
  `NpuOs` does not.
- The capacity of SysV queues: a `msgsnd` to a full queue blocks the daemon's thread; message
  queues of clients are taken as unbounded. They are never removed, and a key that is used
  again finds what its predecessor left; a client's queue is empty at first here.
- The echo of a prediction that fails (`sock_handler.c:234`) has the layout of another
  message than the one the daemon reads. It is sent when the NPU OS has no object for the
  network (`!nn_object`, `:230`); the policies choose only NPU OSes that the placement names,
  and a load is answered with OK only where there is an object (`load_task`), so `Dispatch`
  leaves the branch out.
- An id at or above `MAX_NOS_NUM`, in a query or asked for by an NPU OS (`server_comm.c:120`):
  `nos[]` would be read past its end. An NPU OS that asks for an id below -1: the daemon exits
  (`server_comm.c:108`).
- Failing system calls, apart from `pthread_create` and the socket calls of `Registration`
  and `DataStream` whose failure another step brings about: they end the process.
- Formatting, debug output and the contents of read-only replies.
- The floating point of `ewt`: times are whole numbers, so drift by rounding is not seen.

## 8. Plan

Done: the NPU OS (queues, bitmap, scheduler, threads), placement and bit strings, loading,
task graphs, dispatch, prediction times, registration with information and shutdown, the
data channel. All their safety properties and the refinements of `PriorityQueues` (by sets and
sequences, and by words and links), `TaskGraph` and `WcetMap` are proved.

Further modelling: `Dispatch` with `Registration`'s two stores and two echoes in one instance;
a bounded SysV queue between daemon and clients.
