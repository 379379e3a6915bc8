# McSim in TLA+

McSim is an execution-driven simulator of manycore machines.  A *frontend*
(`src/Pthread`, a Pin tool) runs a multithreaded application inside ONE operating
system thread: it replaces the pthread library by its own scheduler and sends the
instructions of every simulated thread to a *backend* (`src/McSim`), the timing
simulator, which keeps cores, caches, directories, crossbar and memory controllers
and decides, by simulated time, which thread runs next.  Frontend and backend are
two processes that share a memory-mapped message.

This directory models the places where the order of events decides whether the
simulator is right: the channel between the processes, the simulated pthread
library, the cache coherence protocol and the crossbar it runs on, the out-of-order
core, and the memory controller.  TLC checks the models on small instances, and their
safety is also proved with TLAPS for any instance (of the coherence protocol: any with
private L1s and without evictions, section 5).  Two abstract specifications say what a part promises to the others: `RemoteCall` (the channel is
a procedure call) and `Lanes` (the crossbar is a bundle of first-in-first-out lanes).

## 1. Inventory

| component | source | state | operations | hard part |
|---|---|---|---|---|
| RPC channel | `Pthread/PTS.cpp`, `McSim/main.cc`, `McSim/PTSInterface.h` | `PTSMessage`, `mmap_flag[0..1]`, piled batch, `num_available_slot` | `sync_with_mcsim`, `add_instruction`, `set_active`, `resume_simulation`, `get_*`, destructor; the backend's polling loop | two polling processes without a lock; a reply may go to another process |
| admission | `McSim/McSim.cc` | O3 queue lengths, active bits | `add_instruction`, `resume_simulation`, `set_active` | a full queue drops silently; the slot estimate is old when used |
| pthread scheduler | `Pthread/EEPthreadScheduler.cpp` | `pthreads`, `current`, `nactive`, `pth_to_hth`, `hth_to_pth`, `executed` | `AddThread`, `KillThread`, `BlockThread`, `UnblockThread`, `process_ins` | context is saved at the call and the call is repeated later |
| mutexes, condition variables, barriers | `PthreadMutex.cpp`, `PthreadCond.cpp`, `PthreadBarrier.cpp` | owner, count, spinning queue; waiters | lock, trylock, unlock, wait, signal, broadcast, barrier | lost and double wakeups, overtaking |
| join, cancel | `PthreadJoin.cpp`, `PthreadCancel.cpp` | joinee and joiner tables, cancel state | create, exit, join, detach, cancel, kill | long call sequences, partial failures |
| L1, L2 | `McSim/PTSCache.cc` | line states, `sharedl1`, `pending` | `process_event` | replies pass requests, no MSHRs, evictions in transient states |
| directory | `McSim/PTSDirectory.cc` | entry type, `sharedl2`, `pending` | `process_event` | crossing requests, invalidations, evictions and memory replies |
| crossbar | `PTSXbar.cc` | arrivals, one priority queue per port, the token | `add_*_event`, `process_event` | order within a lane, starvation |
| memory controller | `PTSMemoryController.cc` | request window, batch, bank states, data path | `add_req_event`, `process_event` | interleaved timing constraints, batch index, a row left open |
| O3 core | `PTSO3Core.cc`, `McSim.cc` | instruction queue, reorder buffer, events | `add_instruction`, `process_event`, `add_req_event`, `add_rep_event` | it runs only if somebody scheduled it; slot numbers are reused |
| global event queue | `PTSComponent.cc` | time, events | `add_event`, `process_event` | seen in each component's model as its own events |
| TLB | `PTSTLB.cc` | entries, LRU list | `process_event` | answers after one of two latencies |
| keys, cleanup handlers, once, attributes, malloc | `Pthread*.cpp` | sequential tables | set, get | none across actors |
| trace generator, PlayTraces, Pin glue, configuration | `TraceGen`, `mypthreadtool.cpp`, `PTS.cc` | files, TOML | I/O | none |

`PROJECT.json` lists them with what is modelled of each, and under `hazards` the
lines where each hard behaviour bites.

**Interactions.**  The application's call → a handler of `EEPthreadSim` → a manager
changes its queue → the scheduler blocks or wakes threads → each of these is a
*sequence of RPCs* (`set_active`, `add_instruction`, `resume_simulation`).  The
answer to `resume_simulation` names the thread that runs next.  In the backend a
core's miss travels L1 → L2 → (crossbar) → directory → memory and back; every
message is a heap object that is passed on, parked in a `pending` slot or deleted.

## 2. Modules

### PTSHandshake: the channel and what it carries

State: for every process its program counter, the RPCs its handler has still to
make (`todo`), batch, slot estimates, thread states; the two flags, the shared
message (`shm`) and the backend's private copy (`buf`); the backend's program
counter, `curr_pid`, queue lengths, active bits, `nactive`.

| actions | code |
|---|---|
| `ProcessIns`, `MutexLock`, `MutexUnlock`, `CondWait`, `CondSignal`, `BarrierWait`, `Join` (and `docontextswitch`), `Create`, `Exit`, `Cancel` (and `pthread_kill`), `Fini`: an application call picks its handler's RPC sequence (`Block`, `Unblock`, `Kill`, `Spawn`, `Boot`) | `EEPthreadScheduler.cpp`, `EEPthreadSim.cpp` |
| `Pile`, `Flush`, `Request` (batching, the forced flush, posting) | `PTS.cpp` |
| `LowerFlag0`, `SeeFlag1`, `UseReply`, `RaiseFlag1` (`sync_with_mcsim`, statement by statement) | `PTS.cpp` |
| `SeeFlag0`, `RaiseFlag0`, `CopyIn`, `Limit`, `ServeAdd`, `ServeSetActive`, `ServeGet`, `ServeResume`, `ServeDestructor`, `CopyOut`, `LowerFlag1` | `main.cc`, `McSim.cc` |

Abstractions.  Every access to a flag is a step; the fields of the message are
written in one step before the flag, in the order of the program (the flags are
`volatile`, the fields are not; the program order the compiler and x86 keep is
assumed).  The RPCs of a handler are not interrupted by other calls of the same
process, because one thread executes them.  Events of the timing model may drain
any queue and pick any active core with a queue at most half full (`Drained`,
`ResumeTo`).  The fields `id` and `rep` of a message are history: the parity of the
request and whether the backend wrote the header.  After a reply of the wrong kind
a frontend goes on as written; where the code then exits or leaves a table's range
its program counter becomes `exited`.  The backend's becomes `wild` when a resume
request finds no active core: `main.cc:312` then reads past the end of `htid_to_pid`,
and the model claims nothing of what follows.

Thread numbers.  The backend is told the hardware thread by `AddThread` and
`KillThread`, the pthread id by `SetActiveState`.  This module has one index for both,
and the guard of `Create` admits the programs where they are equal: those that create
no thread after another has ended.  The other programs are in EEPthread, which keeps
both numbers (finding 2).

### EEPthread: the simulated pthread library

State: the scheduler's tables, `nactive`, hardware thread maps, cores' active bits,
the record of every mutex, condition variable, barrier, the join tables, the cancel
state.  One action per pthread call, named after it.  The two loops that wake one
thread after another (broadcast, the barrier's release) take one step per round
(`BroadcastNext`, `BarrierNext`, with `releasing` telling which loop runs), because
each round asks the backend which thread runs next.  `Replay` is the repeated call
of a thread that was woken.  `held` and `onReturn` are history: what the application
may conclude from the calls that have returned to it.

`Resume` lets the backend name any active core.  If it finds none the process stops
with `halted = "nocore"`; a core whose thread is not the one expected gives
`"astray"`; the assertions give `"assert"` and `"deadlock"`.

What the application does is bounded by constants: `CreateAfterExit`, `Cancels`,
`CancelBlocked`, `Yields`; `pthread_reuse` shows what happens when the first is allowed,
section 3 what happens with the third.  `MaxThreads <= NumHthreads`: beyond that the code indexes
cores out of range.  A mutex is initialised once.  `cond_timedwait` is
`cond_wait`: the code ignores the deadline, after an assertion that it is later than ten
hours (`EEPthreadSim.cpp:245`), which every absolute time of day satisfies.  `docontextswitch` blocks its caller
without anybody to wake it (the mark `"yield"`).  Cleanup handlers and keys are not
modelled; neither `pthread_exit` nor the return of a thread's function runs them.

### Coherence: L1s, L2s and a directory for one line

State: the line in every L1 and L2 (`type`, `type_l1l2`, `sharedl1`, `pending`), the
directory entry, one queue for each direction of every connection, the reads at the
memory controller.  `L1Reply`, `L2FromL1`, `L2FromDir`, `DirFromL2`, `DirFromXbar`
and `DirFromMC` each handle one event completely; `On*` and `Dir*` are the branches
of the two `process_event` functions.  `LOG(FATAL)`, `ASSERTX` and null accesses set
`fatal`.

Abstractions.  One line, of the same size in L1 and L2.  The other lines of a set
are nondeterminism bounded by `MaxOther`: a fill may evict our line, a neighbour may
trigger a prefetch.  An order pending in an evicted entry stays in the way the other line
takes over (`PTSCache.cc:821-834` does not clear it), and in the model for ever; in the code a
later transfer of that line between its L1s would send it on.  Latencies are arbitrary, so the model has every interleaving
the time stamps allow and more; delivery between two components is in order except
that replies pass requests (`Servable`).  Hits change nothing and are left out, so
cores may idle: deadlock is not checked.  The directory cache, the limitless
broadcast and `always_hit` are off, as in the shipped configurations.  Memory writes
have no reply and are left out.

### RemoteCall: what the channel promises

One variable, `stage`: free, asked, served, over.  `CallStage` in PTSHandshake maps the
first process's program counter, the flags and the backend's program counter to it.  A
request counts as served from the moment the backend leaves the switch, also while
the answer to a resume is withheld because another process's thread was picked.

### Crossbar and Lanes: the network on chip

State: the arrivals (`events`: `rep_events`, `crq_events` and `req_events` of the code
are its three lanes), the multimap of every port (`queues`, most urgent first and in order of insertion among equals), the token
(`clockwise`, `top_priority`) and whether the event queue holds an event.  `AddReq`,
`AddCrq`, `AddRepL2` and `AddRepDir` are the calls of L2s and directories, with the dummy
flits that stand for the length of a packet.  An L2 that passes on an eviction of its L1
sends it through the crossbar even to the directory of its own port
(`PTSCache.cc:958`, `1308-1315`); all other messages go to other ports. `ProcessEvent` is one cycle: fill the queues, serve
the ports in the order of the token with two looks each, move the token, reschedule.

`Lanes` keeps three sequences for every pair of a port and a destination.  The
refinement forgets the dummies, the token and the difference between arrived and
queued.  Coherence is written against `Lanes`: its `Servable` is the oldest reply or,
if there is none, the oldest message of a pair.

`Keep(s, S)` picks the elements of `s` that are in `S`; a multimap filled by three
loops is, lane by lane, what `Keep` picks for the port from what was queued followed by
what arrived.

Abstractions.  An `Add*` action is the moment at which the event's time is reached, so
that every order of arrivals that latencies can produce is a behaviour.  What a
message says is one bit, whether it carries data.

### O3Core: the out-of-order core

State: the instruction queue, the reorder buffer with head and size, the times at
which an event is scheduled, the requests under way, `resume_time`, the count of
consecutive nacks, the migration flag.  Times are relative to now, in units of
`process_interval`; `Past` is any time before now.

| actions and operators | code |
|---|---|
| `Wake`, `Supply`, `Resume`, `Block` (the thread is activated, sends, goes on, blocks) | `McSim::add_instruction`, `set_active`, `resume_simulation` |
| `AskForInstrs` (the queue is half empty: back to the frontend) | `O3Core::process_event`, first lines |
| `Process` = `Commit(WakeUp(Execute(Issue(Fetch(...)))))`, one operator per loop | `O3Core::process_event` |
| `TlbReply`, `Nack`, `Loaded`, `Accessed` | `add_req_event` (instructions), `add_rep_event` (data) |
| `Tick` | `GlobalEventQueue::process_event` going to the next time |

A loop is a recursive function over its rounds (`Repeat`).

`Stray` is a detail worth knowing: the loop that fills the buffer sets state and time
of the slot behind the instruction's last access before it finds that there is
nothing more to fill.

Abstractions.  The seven dependence fields are one set of slots.  Two fetches of one
line under way at once are one; that also holds for the synchronisation instructions,
whose ip is 0, the value that means "no line chosen yet" to the fetch loop
(`PTSO3Core.cc:172`), so that the code asks once for each of them and goes on to the next
line in the same pass.  `sse_t` is a whole number of cycles: the constructor rounds the
other four latencies up (`PTSO3Core.cc:100-103`) but not this one, which is right for the
repository's configurations (the default 40 with a `process_interval` of 10) and not for the two
defaults (40 and 80), where an x87 instruction completes between two cycles.  Whether the predictor is wrong is part of an
instruction.  Exceeding the nack threshold ends the run in the code and is a guard
here.  `bypass_tlb` and `skip_all_instrs` are left out.

### MemoryController: DRAM scheduling

State: the arrivals, the window `req_l` with `curr_batch_last` and the requests per
thread, the state of every bank, the last times per rank, the busy slots of the data
path.  `Arrive` is `add_req_event`; `ProcessEvent` is one cycle: `PreProcessing`, the
candidates (`Move` gives the step a request allows, `Choice` picks one), `Step`
(`Activate`, `Precharge`, or `Burst`, `CloseOrKeep` and `Leave`), and the passing of
time.  `log` (the commands the DRAM saw), `mark` (the requests that belong to the
batch) and `owed` (the answers a thread waits for) are history.

Abstractions.  An address is its bank and page; the bit arithmetic that takes it apart
is not modelled.  A time so old that no constraint refers to it any more stops growing
older, and the commands `log` begins with are dropped once they are older than every
timing parameter can reach (`Horizon`).  An arrival is at least a cycle after it was
sent.  `tWRBUB` and `tRWBUB` are
at most `tCL` (`ControllerAssumption`): beyond that the code has already erased the
slots the bubble is looked for in.  With `tWTR = 0` the code does not look at
`last_write_time` (line 389), and `BusTurnaround` then asks nothing of it.

### MC modules and proofs

`MCO3Core` and `MCMemoryController` give TLC an instruction set, banks and requests.
`PTSHandshakeProofs` has the theorems about the channel, `PTSHandshakeCores`, which
extends it, those about what it carries; `EEPthreadBase`
and `EEPthreadProofs`, which extends it, those about the pthread library;
`CoherenceProofs`, `CrossbarProofs`, `O3CoreProofs` and `MemoryControllerProofs` those about
the coherence protocol, the crossbar, the core and the memory controller (section 5).

## 3. Runs

| run | instance | shows |
|---|---|---|
| `handshake` | 1 process, 2 threads, batch 3, queue 8; 854 k states | `FirstExclusion` (the message is never touched by both sides), `FirstReply` and `ChannelInv` (the inductive invariant of the proofs), `NoDrop` (no instruction is lost), `FirstNeverExits` (no batch mixes threads), `CoresAgree`, `RunsActiveThread` (the backend's active bits are the scheduler's), `ResumeFindsCore`, the refinement `ImplementsCall` and, under fairness, `Answered` |
| `handshake_reply` | 2 processes | violation of `EveryReply` (finding 1) |
| `pthread` | 3 threads, fast and recursive mutex, condition variable, barrier; 2.7 M states | `BlockedIffQueued` (no lost or double wakeup), `Ownership` (a returned lock call holds its mutex), `NoSpinOnFree`, `BarrierBelowLimit`, `StopsForAReason`, `FirstComeFirstServed` (an action property: no overtaking) |
| `pthread_life` | 3 threads, error-checking mutex, cancellation of threads that are not blocked; 1.7 M states | the same wakeup property with join and exit, `NactiveCounts`, `JoinTables`, `CurrentMayRun` |
| `pthread_reuse` | thread created after an exit | violation of `Ownership` (finding 2) |
| `coherence` | 3 L2s (one local), a private L1 each; 277 k states | `ModifiedAlone`, `SettlesConsistent` |
| `coherence_shared` | 2 L2s, one with two L1s, an eviction; 1.5 M states | `AbortNeedsEviction`, `OneWriter`, `NothingLost` |
| `coherence_live` | 2 L2s, a private L1 each, a prefetch or an eviction; 43 k states | `Answered` under fair delivery: neither a prefetch nor an eviction makes the protocol drop an access or abort with one under way |
| `coherence_stale` | an L2 with two L1s | violation of `WriterAlone` (finding 3) |
| `crossbar` | 3 ports, 2 directories, packets of 2 flits, 3 flits inside; 76 k states | `ImplementsLanes` (nothing lost, duplicated, misdirected or overtaken), `NoStarvation` under unending traffic |
| `o3core` | reorder buffer of 5, queue of 4, 3 instructions; 504 k states | `NoLostWakeup`, `RequestsMatch` (slots and requests), `ProgramOrder` (an entry starts only when every older one it needs is finished), `Drains` (every instruction commits) |
| `memctrl` | 3 banks in 2 ranks, window 3, 4 requests, 4 configurations; 227 k states | `Bookkeeping` (batch and counts), `DramProtocol` (row timing), `BusTurnaround` (data path), `Serves` |

**Why the bounds are enough.**  Channel: two threads are needed for a batch that
changes thread, a queue of 8 with a reserve of 4 lets the estimate reach zero, hit
the clamp and be used when it is old; for `EveryReply` a second process is the
smallest one whose thread can be picked by somebody else's resume.  pthread: three
threads give a holder, a first and a second waiter, so that order and hand-over can
go wrong, and a barrier of two can be overrun by a third; depth 2 is the smallest
nested lock.  Coherence: three L2s give a requester, an owner and a sharer; two L1s
under one L2 give the transfer between siblings; `MaxOther = 1` is one event that the
line's own traffic does not explain.  Crossbar: three ports give two rivals for the
third, in both directions of the token, and three flits give a packet of two and a
rival.  Core: an instruction with three accesses fills the buffer up to its reserve of
three and wraps around the ring of five; with the third instruction slots are reused
while requests are under way.  Memory controller: two rows of one bank give hits,
misses and rows that somebody still wants, two banks of a rank give `tRR`, the second
rank the cross-rank rules; four requests exceed the window of three, so that a batch
has outsiders.

**Limits of the coherence results.**  `ModifiedAlone` and `SettlesConsistent` hold
with one private L1 per L2, one access in flight and no eviction.  Beyond that they
fail, in ways the code explains:

* with a sibling L1, `SettlesConsistent` fails as in finding 3;
* with a sibling L1 or a second access, `ModifiedAlone` fails because an upgrade can be
  granted to an L2 that no longer waits for it (hazard at `PTSCache.cc:779`);
* with one L1 eviction (`MaxOther = 1`) both fail on a short path: L2 keeps the line
  exclusive with an empty `sharedl1`, a write of the same L1 goes to the directory
  without marking the entry (`PTSCache.cc:1192`), the grant `write_nd` meets an entry
  that is not `cs_tr_to_m`, becomes a nack, and the `e_to_i` that goes with it makes
  the directory forget a line that the L2 keeps.

`AbortNeedsEviction` says that the fatal branches are unreachable without an eviction.
With one, and two L1s under an L2, a line whose owner is changing can be the victim
(`PTSCache.cc:821`) and the `m_to_s` answer reaches `LOG(FATAL)` at line 933.

**Limits of the core's results.**  The constructor checks `o3rob_max_size >= 4`, with
the message "as of now, it is assumed that o3rob_max_size >= 4"
(`PTSO3Core.cc:116-117`).  That is not enough: with `RobMax <= CommitWidth + 3` the
buffer can be too full to issue, and everything in it be committed by the same event,
which then schedules nothing although instructions wait in the queue; `NoLostWakeup`
fails for `RobMax = 5`, `CommitWidth = 2` and `MaxInstrs = 4`.  The instance has
`CommitWidth = 1`, on the safe side like the defaults (16 and 4) and the shipped
configurations (64 and 4); beyond that line the theorem `WakeupKept` holds for all sizes.

**Limits of the memory controller's results.**  `tRRBUB` ("RD->RD bubble between two
different ranks", `PTSMemoryController.h:79`) is compared with the time of the last
read *command* (line 517; the end of its burst is commented out), so it does
nothing while `tRRBUB <= tBL`; the model has it so and no property speaks of it.  A
precharge costs `tRP` twice, once in `action_time` (489) and once in the test of
line 298.  Arrivals are finite: under unending ones requests outside the batch can
delay it.

**Limits of the pthread results.**  With `CancelBlocked = TRUE` (a blocked thread is
cancelled or killed) `NactiveCounts` fails: `KillThread` subtracts a thread that
`BlockThread` has subtracted before (`EEPthreadScheduler.cpp:223`), and leaves it in
the queue it waits in.  `docontextswitch` (`EEPthreadSim.cpp:600`) parks its caller for
ever, and `pthread_exit` of the last active thread (line 353) has no deadlock test; the
model stops there with `halted = "nocore"`.

**Limits of the channel's results.**  `ResumeFindsCore` and `Answered` leave out the exit of a
process's last active thread.  `pthread_exit` (`EEPthreadSim.cpp:336-356`) does not ask
whether another thread is active, as `BlockThread` does; when the others are blocked its resume
request finds no active core, `resume_simulation` returns `num_hthreads` and
`main.cc:312` indexes `htid_to_pid` past its end.  The test under the comment "terminate
mcsim when there is no active thread" (`main.cc:298`) does not help: it counts
configured threads, and its `break` (line 304) is commented out.  The run `handshake`
reaches the state (`bpc = "wild"`), as two threads suffice.

`CoresAgree` and
`RunsActiveThread` are about programs that create no thread after another has ended
(see `Create`).  `nactive` of `main.cc` counts configured hardware
threads and is never incremented, so that in the other programs, once as many threads
have ended as are configured, the SIGINT of line 299, commented with
"terminate mcsim when there is no active thread", is sent with a thread still active.

## 4. Fairness

* PTSHandshake: weak fairness of the backend's loop and of every frontend inside a
  handler.  Both are processes that the operating system keeps running, and both
  poll.  Nothing is assumed of the application, nor that an instruction limit
  ends the run (`Limit`): a request that is never served would be seen.
* Coherence: a component with an event is scheduled again (`process_event` re-adds
  itself to the global queue while an event is left) and the oldest event of a queue
  is not overtaken forever (what passes it is a reply, and needs a new request).
  Nothing is assumed of the cores.
* Crossbar, O3Core, MemoryController: a component with an event in the event queue is
  run, time goes on, and TLBs and caches answer a core.  A core that asks for
  instructions gets them or its thread blocks; nothing is assumed of the
  senders of the crossbar and the memory controller.  The weak fairness of the large
  actions is written out as "infinitely often disabled, or infinitely often taken",
  with the action's guard: it is the same formula, and TLC then need not enumerate
  the action to decide whether it is enabled.
* EEPthread: only safety is checked, since whether a blocked thread wakes up depends
  on the application.

TLC also checks deadlock, except in Coherence, where cores may idle for ever.

## 5. Theorems

### The channel (PTSHandshakeProofs)

For every `NumProcs`, `ThreadsPer`, `BatchSize`, `MaxCreate` and every `QueueMax >= 5`
(`HandshakeAssumption`; a shorter queue would leave no room beside the 4 reserved
entries):

* `TypeCorrect`: `Spec => []TypeOK`.  The inductive invariant is `TypeInv`, which
  adds that a frontend waiting for an answer is inside an RPC of its handler
  (`Pending`): without it `Head(todo[p])` has no type.  Part of it is that a queue
  length never exceeds `QueueMax`.
* `ChannelInvariant`: `Spec => []ChannelInv`.  `FirstReply` is not inductive: that
  the answer is right when the spin loop ends depends on where the request was
  before.  `ChannelInv` lists the stages of a request (`Posted`, `Received`,
  `Serving`, `Served`, `Copied`, `Parked`, `Replied`, and `Stuck` for the one that found no
  active core), each with the values of both
  flags, `curr_pid` and the backend's program counter, and says that outside the spin
  loop the backend polls the first process.  `Parked` is the stage that makes the
  proof go through with several processes: the resume of the first process was served
  but another process's thread was picked.
* `Exclusion`: `Spec => []FirstExclusion` and `ReplyCorrect`: `Spec => []FirstReply`
  follow from it.

* `ChannelIsCall`: `Spec => ImplementsCall`, the refinement of RemoteCall.  The initial
  state maps to `free`; each of the frontend's and the backend's steps maps to one of
  the abstract ones or a stutter.  `ChannelInv` is needed: only it tells that
  the backend's switch is entered for the request in hand (`asked`), and that a
  frontend leaves its spin loop in the stage `served`.  Lemma `CallFrame` is the part all
  steps share, `CallFront` and `CallBack` are the two sides.

The statements are about the first process, whose cores are not activated before it
starts; for the others the corresponding statement is false (finding 1).

### What the channel carries (PTSHandshakeCores)

From the same assumptions:

| theorem | property | holds for |
|---|---|---|
| `CoresCorrect` | `CoresAgree` | the first of any number of processes; no create after an exit |
| `RunsActive` | `RunsActiveThread` | the first of any number of processes; no create after an exit |
| `NeverExits` | `FirstNeverExits` | the first of any number of processes |
| `FirstNothingLost` | no step that serves the first process drops an instruction | any number of processes |
| `FirstResume` | a resume of the first process finds one of its cores active, unless it is the exit of its last active thread | any number of processes |
| `NothingDropped` | `NoDrop` | one process |
| `ResumeCorrect` | `ResumeFindsCore` | one process |

"No create after an exit" is the guard of `Create`, not a hypothesis of the theorem: the
module has no other programs (section 2), and in them the code breaks both properties
(finding 2).  The exception of `FirstResume`, and of `ResumeFindsCore`, is the one of
section 3.

The last two follow from the two before: with one process the backend serves nobody
else.  For `NoDrop` the restriction is needed: a process that has taken another's
answer for its own (finding 1) remembers a number of free slots nobody gave it, and with
`NoDrop` as the invariant of the instance of `handshake_reply` TLC finds a dropped
instruction.  For `ResumeFindsCore` TLC finds no violation on that instance; the proof would
need the active bits of the other processes, which are not tied to their threads.

The inductive invariant is `CoreInv`, on top of `TypeInv`, `ChannelInv` and `NumberInv`,
which says that the live threads of a process have numbers that were handed out (theorem
`CoreInvariant`).  None of the properties is inductive, since a handler first changes the
scheduler's tables and then sends its RPCs one at a time, each through all stages of
the channel; `CoreInv` says what is true in between:

1. `PlanInv`: how the sequence of RPCs a handler has still to make is built.  An
   instruction that may be piled is alone in it; it has at most one instruction for
   each thread; after a resume only the end of the process follows.  The piled
   instructions are those of the running thread, which is why `exit(1)` is never reached.
2. `MessageInv`: the message under way is the head of the plan, or the piled batch, at
   every stage of `ChannelInv`; and from the backend's switch on its answer is what
   the backend has done: a number of free entries, a bit that is set, an active thread
   whose queue is at most half full.
3. `ActiveInv`: a core's bit is its thread's, or a `set_active` that makes it so is still in
   the plan; and some thread is active, or the process is at its end, or the plan ends with the resume
   of an exit.
4. `LoadInv`: the entries of a thread in its queue, in the batch and in the plan leave
   `Slack` entries of its queue free.  This is why 4 in reserve are enough: a thread
   that has just issued an instruction, or does not exist yet, has 3 free entries; its
   next synchronisation call may send one (2 left), and if that blocks it, the thread that
   wakes it sends another (1 left).  Before it calls again it must issue an
   instruction, which is checked against the answer, or be picked by a resume, which
   asks for a queue that is at most half full: both restore the 3.
5. `EndInv`: the first process ends by its own destructor's request or a signal only.

Every plan but those of `pthread_create` and of the end of the process has three parts, the
call's own instruction, the woken threads and the end that blocks or ends the caller; lemma
`HandlerPlan` shows once what such a sequence contains, and `CoreHandler` that a handler
with such a plan keeps the invariant.

### The pthread library (EEPthreadBase, EEPthreadProofs)

For any number of threads, hardware threads, mutexes, condition variables and
barriers (`EEPthreadAssumption`: at least one thread and one hardware thread, the
three kinds of objects are different addresses, the marks `"none"`, `"yield"` and
`"join"` are no objects).  All invariants of the runs `pthread` and `pthread_life` and
their action property are proved:

| theorem | property | holds for |
|---|---|---|
| `NoSpinning` | `NoSpinOnFree` | every program |
| `ServedInOrder` | `FirstComeFirstServed` (action property) | every program |
| `BarrierFills` | `BarrierBelowLimit` | every program |
| `ActiveCounted` | `NactiveCounts` | programs that cancel no blocked thread |
| `CurrentRuns` | `CurrentMayRun` | regular programs |
| `NoLostWakeup` | `BlockedIffQueued` | regular programs |
| `MutexOwners` | `Ownership` | regular programs |
| `NeverAsserts` | `StopsForAReason` | regular programs |
| `JoinersKnown` | `JoinTables` | regular programs |
| `TypeCorrect` | `TypeOK`, with `__count >= 0`: the `ASSERTX` of `PthreadMutex.cpp:262` | regular programs |

A program is `Regular` if it creates no thread after another ended and cancels no
blocked thread.  Both restrictions are needed: without the first `Ownership` is false
(finding 2), without the second `NactiveCounts` is (section 3).

The argument, bottom up:

1. `BaseInv`: the types of all variables except the sign of a count, and that a loop
   under way (`releasing`) has a queue left to empty.  It needs nothing else, and with
   it the three results for every program follow, each inductive on top of it.
2. `CountInv`: `nactive` counts and live threads have ids that were handed out.
3. `SchedInv`: pthread id, hardware thread and core are the same number, so that
   `SetActiveState` and `KillThread` mean the same core; this is where a create after an
   exit would break the proof.
4. `JoinInv`, `PlaceInv` and `NoAssert`, which need each other: that `UnblockThread`
   finds its thread blocked is known from the queue it is taken from, and that the
   queues hold exactly the blocked threads is true only while no assertion has failed
   half-way.  `PlaceInv` says it by position (`OneSpot`: no thread is twice in a queue or
   in two), which the theorem then turns into the cardinality of `Places`.
5. `OwnInv`: `Ownership` with what makes it inductive.  A thread that is handed a mutex
   has not run since it blocked (`MarkInv`), and what it will believe on its return is
   the mutex it is queued for (`QueueMarks`, also through a condition variable); a new
   thread holds nothing (`Fresh`); only recursive mutexes count beyond one (`Counts`).

Steps 4 and 5 are one induction, `ServedInv /\ OwnInv`: the release of a mutex passes it
on when its count reaches zero, which needs `Counts`, and who gets it needs the
queues.  All of these were first checked by TLC on the instances of `pthread` and
`pthread_life`.

### The memory controller (MemoryControllerProofs)

For any banks and ranks, any timing, window, configurations and requests
(`ControllerAssumption`: the parameters are numbers, a burst takes time, the window is
not empty, and `tWRBUB` and `tRWBUB` are at most `tCL`).  All invariants of the run
`memctrl` are proved:

| theorem | property |
|---|---|
| `BookkeepingCorrect` | `Bookkeeping` |
| `DramTiming` | `DramProtocol` |
| `BusTiming` | `BusTurnaround` |

A cycle is a composition of operators on a record of the controller's state, and so is
the proof: one lemma says which components an operator changes and to what
(`ActivateParts`, `PrechargeParts`, `BurstParts`, `CloseOrKeepParts`, `LeaveParts`,
`NextCycleParts`), and one per invariant that it is kept.  `StepCases` reduces the
choice to its outcome, a request that allows the step taken: which one is picked
does not matter to safety.

1. `BooksInv`: types, `Batched` and `Counted`.  `Batched` adds to `Bookkeeping` that
   `curr_batch_last` is inside the queue, and is -1 only without PAR-BS or without
   requests; otherwise erasing the last request of a batch could not be told from
   having none.  The counters need the cardinality of a set of places after
   requests were appended (`CountJoined`) and after one was erased (`CountClosed`).
2. `Rows`: every pair of commands keeps its distance (`RowPair`, `RankPair`), and every
   command of the history is covered by what the bank and the rank remember
   (`RowEntry`): an activation is no later than `last_activate_time`, one whose bank has
   moved data since is `tRCD` old, a precharge, which may lie in the future, is
   `tRP` before `action_time`, and a row that is open is the one of the last activation.
   A test on the bank's state is thus a test on the whole history.
3. `Bus`: every pair of bursts keeps its distance (`BusPair`), every slot of a burst
   that is not over is in `dp_status`, and every write of a rank ended no later than
   `last_write_time` (`BusEntry`).  That a bubble is seen although older slots are
   erased is where `tWRBUB <= tCL` and `tRWBUB <= tCL` are needed.

The passing of time shifts all of them by one; that old times stop growing older only
makes the controller wait longer, and dropping a prefix of the history drops no command
between two that are left.

### The crossbar (CrossbarProofs)

For any number of ports, any directories and any length of packets
(`CrossbarAssumption`, `HomesAssumption`), `LanesImplemented`: `Spec => ImplementsLanes`,
the refinement of Lanes.  `Add` maps to `Send`, `ProcessEvent` to `Deliver`.  No invariant
beyond the types (`Typed`) is needed between two steps; the work is inside the cycle:

1. *Sequences.*  `Keep` is a recursive function over a sequence.  `SeqGrow` is induction
   over sequences, stated with a set instead of a predicate; with it follow `KeepConcat`,
   `KeepKeep`, `KeepNone`, and from them everything said of the queues.
2. *Filling* (`FilledParts`).  A filled queue is sorted by urgency, and holds for every
   destination and lane what was queued followed by what arrived: the order of insertion
   among equals is the order of arrival.
3. *Taking one out* (`Removing`).  The first element, or the second if the first is for
   another port, is the oldest message of its pair on its lane or a dummy; that nothing
   more urgent waits for the same destination is where sortedness is needed.
4. *The loop* (`Underway`).  A pair has lost at most one message since the cycle began,
   and only if its destination's port is in `already_sent`; of two pairs with one
   destination port one has lost nothing.  `ServePortKeeps` needs that the second
   look goes to the second element only when the first one's port had been served.

### The out-of-order core (O3CoreProofs)

For any sizes, widths, latencies, bounds and any instructions with at most three accesses
(`CoreAssumption`: the parameters are numbers and the buffer has 4 entries, the
constructor's own check; `InstrsAssumption`), all invariants of the run `o3core`:

| theorem | property | holds for |
|---|---|---|
| `Types` | `TypeOK` | every core |
| `Matches` | `RequestsMatch` | every core |
| `Ordered` | `ProgramOrder` | every core |
| `WakeupKept` | `NoLostWakeup` | `CommitWidth < RobMax - 3` |

The hypothesis of the last one is needed: `RobMax = 5` with `CommitWidth = 2` fails (section
3, limits of the core's results).

`process_event` is five loops over a record of the core's state, each a recursive
function.  The first part of the module turns a loop into an induction over its rounds
(`RunStays`, and `IssueLoop`, `FillLoop`, `ExecuteLoop`, `CommitLoop`): what holds before and is kept
by a round holds at the end.  The second states the invariant on that record, the third
carries it through fetch, issue, execute, wake-up and commit, the last through the actions.

The inductive invariant `IInv` says:

1. The record has its types, and the places of the ring in use are not invalid (`Live`).
2. `Waits`: an issued entry waits only for older ones, and for none that completed in an
   earlier cycle.  Slots are reused, so that without "older" an entry might wait for its
   successor; and an entry that completed earlier releases nobody any more.
3. `Order`: an entry that needs an unfinished one has not started, and waits for that
   one or for one in between that needs it too.  `ProgramOrder` alone is not inductive,
   because the code records only the last writer of a register and the last access of a
   word: the chain through the one in between is what replaces the dependence it drops.
4. `QueueScheduled`, `RobScheduled`: what completes at a time to come has an event
   scheduled at that time.
5. `Matched`, `Fetched`: executing entries and data requests correspond one to one, and a
   line that is waited for is being fetched.
6. `Due`: what completes now and is still waited for has its event now.  It is true between
   events but not within one, so that it is apart from `Inv`, which the loops keep.
7. `Resumes`: while `resume_time` keeps `add_instruction` from scheduling the core, the
   access that will schedule it is under way.

`NoLostWakeup` follows for `Process` from what each loop leaves behind: if nothing is
scheduled after it, every entry is finished (the oldest unfinished one could start),
all of them were committed in one call, and hence there was room to issue.

### The coherence protocol (CoherenceProofs)

For any number of L2s, any of them next to the directory (`Local`), under the hypothesis
`Private`: one L1 per L2 (`Wide = {}`), one access in flight (`MaxOut = 1`), neither an
eviction nor a prefetch (`MaxOther = 0`).  The run `coherence` is the instance with three L2s.

| theorem | property |
|---|---|
| `TypesCorrect` | `TypeOK` |
| `NoAbort` | `AbortNeedsEviction`, that is: `fatal` is never set |
| `WritersExclude` | `OneWriter` |
| `AccessesKept` | `NothingLost` |

The default configuration (two L1s per L2, `McSim.cc:466`) is outside of this hypothesis; for it
TLC checks the last three on the instance of `coherence_shared`.  Nothing is proved of
`ModifiedAlone` and `SettlesConsistent`, which fail with a sibling, a second access or an
eviction (section 3).  Prefetches are left out because the model bounds them
together with evictions.

The protocol has many L2s but the directory serves one transaction at a time, and all
that two L2s know of each other they know through its entry.  The inductive invariant
`Inv` therefore never compares the states of two L2s; it has

1. for every L2 (`Node`): what its three queues can hold and in which order (`Queues`: at most one
   event of a kind, data before the order that follows it); where its L1's access is
   (`Access`, as a sum that is 0 or 1); which of five situations L1, L2 and the queues between them are
   in (`Line`: `Absent`, `Clean`, `Modified`, `Leaving`, `Fetching`, with the exact contents of
   the queue up to L1, because an order to drop the line can be both ahead of and behind an answer);
   and what the directory must believe for the state the L2 is in, for the data on its way to it,
   for its requests and for the orders it has not answered (`Place`);
2. for the directory (`Home`): which entries are possible, who is in `sharedl2`, when
   something is pending, and which read the memory controller has;
3. and one part that counts (`Orders`): while a read is pending exactly one L2 owes an
   answer, and while an upgrade is granted it is on its way there or back.

`OneWriter` follows because a modified L2 makes the directory's list a singleton.  That the grant of an upgrade finds its line still waiting, and a nack
a line that can ask again, are parts of `Gets`.

The proof is by the handler.  The parts are written with their values as parameters, so that
a lemma says what a branch of `process_event` does to one L2 for arbitrary contents of its
queues; the other L2s see only the directory's new entry, and one lemma per kind of
change says that they keep their part.  A handler's lemma then picks the branch.  TLC checked
`Inv` on the instance of `coherence` first.

### Only model-checked

All liveness properties (beyond the prover, as is `ENABLED`): `Answered` of the channel
and of the coherence protocol, `NoStarvation`, `Drains`, `Serves`.  And
`AbortNeedsEviction`, `OneWriter` and `NothingLost` where two L1s share an L2, with an
eviction (run `coherence_shared`): the theorems cover private L1s without one.  A prefetch is
in the run `coherence_live` only, next to private L1s.  With `Prefetchers = {2}` the instance of
`coherence_shared` grows to 2.4 M states and passes too; the smaller one is kept because it
takes half the time.
`ModifiedAlone` and `SettlesConsistent` are checked on the instance of `coherence` and are
false beyond private L1s with one access and no eviction.

## 6. Findings

1. `handshake_reply` - with several processes a frontend can take the answer of a
   resume it never requested for the answer to its own first request, because
   `main.cc:147-152` activates the first core of every process but the first before
   they start.
2. `pthread_reuse` - `SetActiveState` indexes the cores by pthread id where `KillThread` and
   the backend use the hardware thread; the two differ after a thread was created
   following an exit, and a lock call can return without the mutex.
3. `coherence_stale` - after a sibling's read the former owner keeps the line shared
   but is no longer in `sharedl1`, so that a later write elsewhere does not
   invalidate it.

## 7. Not modelled, and the plan

Done, in this order: PTSHandshake and its proofs, EEPthread, Coherence, Crossbar with
Lanes, O3Core, MemoryController, RemoteCall with its refinement proof, the proofs
about EEPthread, about what the channel carries, about MemoryController, O3Core,
Crossbar and Coherence.

Not modelled:

* *TLB*: which of two latencies an access has; O3Core allows both.  Its LRU list is a map
  keyed by the current time (`PTSTLB.cc:82`), and with `speedup > 1`, as in the shipped
  configurations, two accesses of one cycle collide: a page is left without a list
  entry and the table can outgrow `num_entries`.
* *Fixed-latency modes of the memory controller*, where an eviction's address is read
  after it was deleted (`PTSMemoryController.cc:175`); refresh, which is only an initial
  event; `tRP`'s default, which is read before it is set (line 47).
* *Directory cache and limitless broadcast*, off in the shipped configurations.
* *Keys, cleanup handlers, once, attributes, malloc manager*: sequential tables that
  neither block nor wake a thread.
* *Trace generator and PlayTraces*, configuration, statistics, Pin instrumentation: I/O
  without state that the properties depend on.

Next:

1. *An inductive invariant of Coherence with shared L2s*, for the three properties that
   survive a sibling L1, a prefetch or an eviction.
2. *The TLB*, composed with the core, and the directory cache.
