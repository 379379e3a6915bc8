------------------------------ MODULE EEPthread ------------------------------
(***************************************************************************)
(* The pthread library the frontend simulates inside one process: the      *)
(* scheduler of Pthread/EEPthreadScheduler.cpp and the managers behind the *)
(* pthread calls of Pthread/EEPthreadSim.cpp (mutexes, condition           *)
(* variables, barriers, join, cancellation).                               *)
(*                                                                         *)
(* One operating-system thread executes every simulated pthread, so a      *)
(* handler runs to its end without interruption.  A handler that blocks    *)
(* its thread saves the context at the CALL and clears `executed'; when    *)
(* the thread is scheduled again the call is made once more and the        *)
(* cleared bit makes the handler return without doing anything.  Which     *)
(* thread is scheduled next is decided by the timing model: it returns     *)
(* some hardware thread whose core is active.                              *)
(*                                                                         *)
(* `held' and `onReturn' are history variables: they record what the       *)
(* application concludes from the calls that returned to it.               *)
(***************************************************************************)
EXTENDS Integers, Sequences, FiniteSets

CONSTANTS
    MaxThreads,   \* bound: pthread ids that are ever handed out
    NumHthreads,  \* hardware threads of the process
    Fast, Recursive, ErrorCheck,  \* the mutexes of each kind
    Conds,        \* condition variables
    Barriers,     \* barriers
    MaxCount,     \* bound: depth of a recursive lock
    CreateAfterExit,  \* the program creates threads after others ended
    Cancels,          \* the program cancels or kills threads
    CancelBlocked,    \* it also does so to threads that are blocked
    Yields            \* the program calls routines named ..kmp..yield or __sleep

Mutexes == Fast \cup Recursive \cup ErrorCheck
Threads == 0 .. MaxThreads - 1
Hths    == 0 .. NumHthreads - 1
NoThread == -1

ASSUME EEPthreadAssumption ==
    /\ MaxThreads \in Nat \ {0} /\ NumHthreads \in Nat \ {0}
    /\ MaxCount \in Nat \ {0}
    /\ {CreateAfterExit, Cancels, CancelBlocked, Yields} \subseteq BOOLEAN
    /\ {"none", "yield", "join"} \cap (Mutexes \cup Conds \cup Barriers) = {}
    /\ Conds \cap Barriers = {} /\ Mutexes \cap (Conds \cup Barriers) = {}

VARIABLES
    live,      \* the keys of PthreadScheduler::pthreads
    active,    \* the threads with Pthread::active
    started,   \* the threads with Pthread::started
    executed,  \* the threads with Pthread::executed
    nactive,   \* PthreadScheduler::nactive
    current,   \* PthreadScheduler::current
    newId,     \* PthreadSim::new_thread_id
    hth,       \* pth_to_hth
    slot,      \* hth_to_pth
    coreActive,   \* the hardware threads with O3Core::active
    mutex,     \* mutex[m]: __count, __owner and the spinning queue of m
    waiters,   \* waiters[c]: the (thread, mutex) pairs waiting on c
    barrier,   \* barrier[b]: num_participants (0: no such entry) and waiters
    releasing, \* the condition variable or barrier whose queue is being emptied
    joinables, \* joinables[t]: PthreadJoinee of t
    joinings,  \* joinings[t]: the joinee of the PthreadJoiner of t
    cancel,    \* cancel[t]: PthreadCancel of t
    onReturn,  \* the mutex t will hold when its pending call returns, or "yield"
    held,      \* held[t][m]: how often t locked m and did not unlock it
    halted     \* why the process stopped

sched   == <<live, active, started, executed, nactive, current, newId, hth,
             slot, coreActive>>
queues  == <<mutex, waiters, barrier>>
joins   == <<joinables, joinings>>
history == <<onReturn, held>>
vars    == <<sched, queues, releasing, joins, cancel, history, halted>>

-----------------------------------------------------------------------------
FreeMutex   == [count |-> 0, owner |-> NoThread, spin |-> <<>>]
NoJoinee    == [st |-> "no", joiner |-> NoThread]
NewJoinee   == [st |-> "run", joiner |-> NoThread]
DoneJoinee  == [st |-> "done", joiner |-> NoThread]
NewCancel   == [canceled |-> FALSE, enabled |-> TRUE, async |-> FALSE]

\* PthreadSim::initiate: the managers are empty and the initial thread exists.
Init ==
    /\ live = {0} /\ active = {0} /\ started = {0} /\ executed = {0}
    /\ nactive = 1 /\ current = 0 /\ newId = 1
    /\ hth = [t \in Threads |-> 0]
    /\ slot = [h \in Hths |-> IF h = 0 THEN 0 ELSE NoThread]
    /\ coreActive = {0}
    /\ mutex = [m \in Mutexes |-> FreeMutex]
    /\ waiters = [c \in Conds |-> <<>>]
    /\ barrier = [b \in Barriers |-> [num |-> 0, waiters |-> <<>>]]
    /\ releasing = "none"
    /\ joinables = [t \in Threads |-> IF t = 0 THEN NewJoinee ELSE NoJoinee]
    /\ joinings = [t \in Threads |-> NoThread]
    /\ cancel = [t \in Threads |-> NewCancel]
    /\ onReturn = [t \in Threads |-> "none"]
    /\ held = [t \in Threads |-> [m \in Mutexes |-> 0]]
    /\ halted = "no"

-----------------------------------------------------------------------------
(* The scheduler.                                                          *)

\* The application runs, outside every handler, and calls one.
Runs == halted = "no" /\ releasing = "none" /\ current \in executed

\* A call that locks or waits gives its mutex to the application.
Gain(h, t, m) == IF m \in Mutexes THEN [h EXCEPT ![t][m] = @ + 1] ELSE h

\* resume_simulation: the timing model names an active core.  If it is the
\* core of the thread that asked, the handler goes on; otherwise `current'
\* moves and, if must_switch or several threads are active, its context is
\* installed.  What follows when there is no active core, when hth_to_pth
\* holds an erased iterator or when `current' moves without its context is
\* not modelled: the process is "nocore" or "astray".
Resume(alive, cores, na, exec, must) ==
    \/ \E h \in cores :
          LET next == slot[h]
              same == next = current /\ next \in alive \cap started
              goes == next \in alive /\ (must \/ na > 1)
          IN  /\ executed' = IF same THEN exec \cup {current} ELSE exec
              /\ current' = IF goes THEN next ELSE current
              /\ started' = IF goes THEN started \cup {next} ELSE started
              /\ halted' = IF same \/ goes THEN halted ELSE "astray"
    \/ /\ cores = {}
       /\ halted' = "nocore"
       /\ executed' = exec
       /\ UNCHANGED <<current, started>>

\* UnblockThread for the threads of ws (at most one).  SetActiveState passes
\* the pthread's own id, not its hardware thread, to set_active.
Waking(ws) == ws \subseteq live \ active

Wake(ws) ==
    IF Waking(ws)
    THEN /\ active' = active \cup ws
         /\ nactive' = nactive + Cardinality(ws)
         /\ coreActive' = coreActive \cup (ws \cap Hths)
         /\ UNCHANGED halted
    ELSE /\ halted' = "assert"
         /\ UNCHANGED <<active, nactive, coreActive>>

\* Mutant: the deadlock test is off by one.
BlockThreadOffByOne(ws, m, h) ==
    LET na    == nactive + Cardinality(ws) - 1
        cores == (coreActive \cup (ws \cap Hths)) \ {current}
    IN  /\ active' = (active \cup ws) \ {current}
        /\ nactive' = na
        /\ coreActive' = cores
        /\ IF na > 1
           THEN Resume(live, cores, na, executed \ {current}, TRUE)
           ELSE halted' = "deadlock" /\ UNCHANGED <<executed, current, started>>
        /\ held' = h /\ onReturn' = [onReturn EXCEPT ![current] = m]

\* BlockThread of the current thread, after the same handler woke ws.  The
\* thread will hold m when the call returns; h is `held' until then.
BlockThread(ws, m, h) ==
    LET na    == nactive + Cardinality(ws) - 1
        cores == (coreActive \cup (ws \cap Hths)) \ {current}
    IN  IF ~(Waking(ws) /\ current \in active)
        THEN /\ halted' = "assert"
             /\ UNCHANGED <<active, nactive, coreActive, executed, current,
                            started, history>>
        ELSE /\ active' = (active \cup ws) \ {current}
             /\ nactive' = na
             /\ coreActive' = cores
             /\ IF na > 0
                THEN Resume(live, cores, na, executed \ {current}, TRUE)
                ELSE halted' = "deadlock" /\ UNCHANGED <<executed, current, started>>
             /\ IF na > 0 /\ current \in executed'
                THEN held' = Gain(h, current, m) /\ UNCHANGED onReturn
                ELSE held' = h /\ onReturn' = [onReturn EXCEPT ![current] = m]

\* A call of the current thread returns without waking or blocking anybody.
Returns == UNCHANGED <<sched, halted>>

\* process_ins finds its core's queue full (must_resume) and lets the timing
\* model choose.  The other instructions change nothing modelled here.
ProcessIns ==
    /\ Runs
    /\ Resume(live, coreActive, nactive,
              IF nactive > 1 THEN executed \ {current} ELSE executed, FALSE)
    /\ UNCHANGED <<live, active, nactive, newId, hth, slot, coreActive,
                   queues, releasing, joins, cancel, history>>

\* A rescheduled thread repeats the call or instruction it left at: the
\* handler sets `executed' and returns at once.
Replay ==
    /\ halted = "no" /\ releasing = "none" /\ current \notin executed
    /\ executed' = executed \cup {current}
    /\ held' = Gain(held, current, onReturn[current])
    /\ onReturn' = [onReturn EXCEPT ![current] = "none"]
    /\ UNCHANGED <<live, active, started, nactive, current, newId, hth, slot,
                   coreActive, queues, releasing, joins, cancel, halted>>

-----------------------------------------------------------------------------
(* PthreadMutexManager.  s is the state of mutex m.                        *)

Relocks(t, m, s) == s.owner = t /\ m \in Recursive

\* Mutant: a thread that finds the mutex locked is not queued.
LockMutexNoQueue(t, m, s) ==
    CASE s.count = 0 -> [s EXCEPT !.count = 1, !.owner = t]
      [] s.count > 0 /\ Relocks(t, m, s) -> [s EXCEPT !.count = @ + 1]
      [] OTHER -> s

\* Lock(thread, mutex, false): the new state, and whether the thread blocks
\* (a second lock of a fast or error-checking mutex blocks too).
LockMutex(t, m, s) ==
    CASE s.count = 0      -> [s EXCEPT !.count = 1, !.owner = t]
      [] s.count > 0 /\ Relocks(t, m, s) -> [s EXCEPT !.count = @ + 1]
      [] OTHER            -> [s EXCEPT !.spin = Append(@, t)]
Blocks(t, m, s) == s.count > 0 /\ ~Relocks(t, m, s)

\* Unlock: an error-checking mutex refuses everybody but its owner; the last
\* unlock hands the mutex to the thread that spins longest.
Refuses(t, m, s)  == m \in ErrorCheck /\ (s.count = 0 \/ s.owner # t)
Releases(t, m, s) == ~Refuses(t, m, s) /\ (m \in Recursive => s.count = 1)

\* Mutants: the woken thread does not get the mutex; the queue is not popped;
\* the youngest thread is served first.
UnlockNoHandoff(t, m, s) ==
    IF Releases(t, m, s)
    THEN [s EXCEPT !.count = 0, !.spin = IF @ = <<>> THEN @ ELSE Tail(@)]
    ELSE IF Refuses(t, m, s) THEN s ELSE [s EXCEPT !.count = @ - 1]
UnlockKeepsQueue(t, m, s) ==
    IF Refuses(t, m, s) THEN s ELSE [s EXCEPT !.count = @ - 1]
UnlockYoungest(t, m, s) ==
    IF Releases(t, m, s) /\ s.spin # <<>>
    THEN [s EXCEPT !.owner = s.spin[Len(s.spin)], !.spin = SubSeq(@, 1, Len(@) - 1)]
    ELSE IF Refuses(t, m, s) THEN s ELSE [s EXCEPT !.count = @ - 1]

UnlockMutex(t, m, s) ==
    IF Releases(t, m, s)
    THEN LET free == [s EXCEPT !.count = 0]
         IN  IF s.spin = <<>> THEN free
             ELSE LockMutex(Head(s.spin), m, [free EXCEPT !.spin = Tail(s.spin)])
    ELSE IF Refuses(t, m, s) THEN s ELSE [s EXCEPT !.count = @ - 1]
Unblocked(t, m, s) ==
    IF Releases(t, m, s) /\ s.spin # <<>> THEN {Head(s.spin)} ELSE {}

\* held after the current thread gave m back.
Lose(m) == [held EXCEPT ![current][m] = @ - 1]

PthreadMutexLock(m) ==
    /\ Runs /\ held[current][m] < MaxCount
    /\ mutex' = [mutex EXCEPT ![m] = LockMutex(current, m, @)]
    /\ IF Blocks(current, m, mutex[m])
       THEN BlockThread({}, m, held)
       ELSE /\ held' = Gain(held, current, m)
            /\ UNCHANGED <<active, nactive, coreActive, executed, current,
                           started, onReturn, halted>>
    /\ UNCHANGED <<live, newId, hth, slot, waiters, barrier, releasing, joins, cancel>>

\* A trylock that fails leaves everything as it is (EBUSY, EDEADLK).
PthreadMutexTrylock(m) ==
    /\ Runs /\ held[current][m] < MaxCount
    /\ ~Blocks(current, m, mutex[m])
    /\ mutex' = [mutex EXCEPT ![m] = LockMutex(current, m, @)]
    /\ held' = Gain(held, current, m)
    /\ Returns
    /\ UNCHANGED <<waiters, barrier, releasing, joins, cancel, onReturn>>

\* The application unlocks what it holds; an error-checking mutex may be
\* unlocked by anybody.
PthreadMutexUnlock(m) ==
    /\ Runs /\ (held[current][m] > 0 \/ m \in ErrorCheck)
    /\ mutex' = [mutex EXCEPT ![m] = UnlockMutex(current, m, @)]
    /\ held' = IF held[current][m] > 0 THEN Lose(m) ELSE held
    /\ Wake(Unblocked(current, m, mutex[m]))
    /\ UNCHANGED <<live, started, executed, current, newId, hth, slot,
                   waiters, barrier, releasing, joins, cancel, onReturn>>

-----------------------------------------------------------------------------
(* Condition variables and barriers.                                       *)

\* pthread_cond_wait and pthread_cond_timedwait, whose deadline is only asserted
\* to be later than 10 hours: the application is taken to give an absolute one.
PthreadCondWait(c, m) ==
    /\ Runs /\ held[current][m] > 0
    /\ mutex' = [mutex EXCEPT ![m] = UnlockMutex(current, m, @)]
    /\ waiters' = [waiters EXCEPT ![c] = Append(@, [th |-> current, mx |-> m])]
    /\ BlockThread(Unblocked(current, m, mutex[m]), m, Lose(m))
    /\ UNCHANGED <<live, newId, hth, slot, barrier, releasing, joins, cancel>>

\* The next waiter of c tries to lock its mutex; if that is free it wakes,
\* otherwise it now spins.
ReleaseWaiter(c) ==
    LET w == Head(waiters[c])
    IN  /\ waiters' = [waiters EXCEPT ![c] = Tail(@)]
        /\ mutex' = [mutex EXCEPT ![w.mx] = LockMutex(w.th, w.mx, @)]
        /\ Wake(IF Blocks(w.th, w.mx, mutex[w.mx]) THEN {} ELSE {w.th})
        /\ UNCHANGED <<live, started, executed, current, newId, hth, slot,
                       barrier, joins, cancel, history>>

PthreadCondSignal(c) ==
    /\ Runs /\ waiters[c] # <<>>
    /\ ReleaseWaiter(c)
    /\ UNCHANGED releasing

\* pthread_cond_broadcast and the iterations of its loop.
PthreadCondBroadcast(c) ==
    /\ Runs /\ waiters[c] # <<>>
    /\ releasing' = c
    /\ Returns /\ UNCHANGED <<queues, joins, cancel, history>>

BroadcastNext(c) ==
    /\ halted = "no" /\ releasing = c
    /\ ReleaseWaiter(c)
    /\ releasing' = IF Len(waiters[c]) = 1 THEN "none" ELSE c

\* The application (re)initialises or destroys a barrier nobody waits on.
PthreadBarrierInit(b, n) ==
    /\ Runs /\ barrier[b].waiters = <<>>
    /\ barrier' = [barrier EXCEPT ![b] = [num |-> n, waiters |-> <<>>]]
    /\ Returns /\ UNCHANGED <<mutex, waiters, releasing, joins, cancel, history>>

PthreadBarrierDestroy(b) ==
    /\ Runs /\ barrier[b].num > 0 /\ barrier[b].waiters = <<>>
    /\ barrier' = [barrier EXCEPT ![b].num = 0]
    /\ Returns /\ UNCHANGED <<mutex, waiters, releasing, joins, cancel, history>>

\* Mutant: the last participant does not count itself.
PthreadBarrierWaitLate(b) ==
    /\ Runs /\ barrier[b].num > 0
    /\ barrier' = [barrier EXCEPT ![b].waiters = Append(@, current)]
    /\ IF Len(barrier[b].waiters) = barrier[b].num
       THEN /\ releasing' = b
            /\ Returns /\ UNCHANGED history
       ELSE /\ BlockThread({}, "none", held)
            /\ UNCHANGED <<releasing, live, newId, hth, slot>>
    /\ UNCHANGED <<mutex, waiters, joins, cancel>>

\* The last participant starts to release the others, an earlier one blocks.
PthreadBarrierWait(b) ==
    /\ Runs /\ barrier[b].num > 0
    /\ barrier' = [barrier EXCEPT ![b].waiters = Append(@, current)]
    /\ IF Len(barrier[b].waiters) + 1 = barrier[b].num
       THEN /\ releasing' = b
            /\ Returns /\ UNCHANGED history
       ELSE /\ BlockThread({}, "none", held)
            /\ UNCHANGED <<releasing, live, newId, hth, slot>>
    /\ UNCHANGED <<mutex, waiters, joins, cancel>>

BarrierNext(b) ==
    LET w == Head(barrier[b].waiters)
    IN  /\ halted = "no" /\ releasing = b
        /\ barrier' = [barrier EXCEPT ![b].waiters = Tail(@)]
        /\ releasing' = IF Len(barrier[b].waiters) = 1 THEN "none" ELSE b
        /\ Wake({w} \ {current})
        /\ UNCHANGED <<live, started, executed, current, newId, hth, slot,
                       mutex, waiters, joins, cancel, history>>

\* docontextswitch: the current thread is descheduled.
DoContextSwitch ==
    /\ Runs /\ Yields
    /\ BlockThread({}, "yield", held)
    /\ UNCHANGED <<live, newId, hth, slot, queues, releasing, joins, cancel>>

-----------------------------------------------------------------------------
(* Threads come and go.                                                    *)

Stop(why) == halted' = why /\ UNCHANGED <<sched, joins, cancel, history>>

\* pthread_create: AddThread of the scheduler, the join and the cancel
\* manager.  The hardware thread is the number of live threads.
PthreadCreate(joinable) ==
    LET t == newId
        i == Cardinality(live)
    IN  /\ Runs /\ newId < MaxThreads
        /\ CreateAfterExit \/ i = newId
        /\ IF i + 1 > NumHthreads THEN Stop("unsupported")
           ELSE /\ live' = live \cup {t} /\ active' = active \cup {t}
                /\ executed' = executed \cup {t}
                /\ nactive' = nactive + 1
                /\ newId' = newId + 1
                /\ slot' = [h \in Hths |-> CASE h < i -> slot[h]
                                             [] h = i -> t
                                             [] OTHER -> slot[h - 1]]
                /\ hth' = [hth EXCEPT ![t] = i]
                /\ coreActive' = coreActive \cup {i}
                /\ joinables' = [joinables EXCEPT ![t] =
                                    IF joinable THEN NewJoinee ELSE NoJoinee]
                /\ cancel' = [cancel EXCEPT ![t] = NewCancel]
                /\ UNCHANGED <<started, current, joinings, history, halted>>
        /\ UNCHANGED <<queues, releasing>>

\* PthreadJoinManager::KillThread: the joiner, if any, is released, otherwise
\* the return value waits for it.
JoinerOf(t) == IF joinables[t].st # "no" THEN {joinables[t].joiner} \cap Threads ELSE {}

\* Mutants: the joinee's record, the joiner's record is not erased.
KillJoineeKeepsJoinee(t) ==
    /\ joinables' = [joinables EXCEPT ![t] =
                        IF @.st = "no" \/ @.joiner # NoThread THEN @ ELSE DoneJoinee]
    /\ joinings' = [j \in Threads |-> IF j \in JoinerOf(t) THEN NoThread ELSE joinings[j]]
KillJoineeKeepsJoiner(t) ==
    /\ joinables' = [joinables EXCEPT ![t] =
                        IF @.st = "no" \/ @.joiner # NoThread THEN NoJoinee ELSE DoneJoinee]
    /\ UNCHANGED joinings

KillJoinee(t) ==
    /\ joinables' = [joinables EXCEPT ![t] =
                        IF @.st = "no" \/ @.joiner # NoThread THEN NoJoinee ELSE DoneJoinee]
    /\ joinings' = [j \in Threads |-> IF j \in JoinerOf(t) THEN NoThread ELSE joinings[j]]

\* Mutants: the active bit survives; the joiner is not counted; the core of
\* the dead thread stays active.
KillThreadStaysActive(t) ==
    /\ KillJoinee(t)
    /\ live' = live \ {t}
    /\ active' = active \cup JoinerOf(t)
    /\ nactive' = nactive + Cardinality(JoinerOf(t)) - 1
    /\ coreActive' = (coreActive \cup (JoinerOf(t) \cap Hths)) \ {hth[t]}
    /\ cancel' = [cancel EXCEPT ![t] = NewCancel]
    /\ UNCHANGED history
KillThreadMiscounts(t) ==
    /\ KillJoinee(t)
    /\ live' = live \ {t}
    /\ active' = (active \cup JoinerOf(t)) \ {t}
    /\ nactive' = nactive - 1
    /\ coreActive' = (coreActive \cup (JoinerOf(t) \cap Hths)) \ {hth[t]}
    /\ cancel' = [cancel EXCEPT ![t] = NewCancel]
    /\ UNCHANGED history
KillThreadNoCore(t) ==
    /\ KillJoinee(t)
    /\ live' = live \ {t}
    /\ active' = (active \cup JoinerOf(t)) \ {t}
    /\ nactive' = nactive + Cardinality(JoinerOf(t)) - 1
    /\ coreActive' = coreActive \cup (JoinerOf(t) \cap Hths)
    /\ cancel' = [cancel EXCEPT ![t] = NewCancel]
    /\ UNCHANGED history

\* The scheduler after thread t was erased and its joiner woken.
KillThread(t) ==
    /\ KillJoinee(t)
    /\ live' = live \ {t}
    /\ active' = (active \cup JoinerOf(t)) \ {t}
    /\ nactive' = nactive + Cardinality(JoinerOf(t)) - 1
    /\ coreActive' = (coreActive \cup (JoinerOf(t) \cap Hths)) \ {hth[t]}
    /\ cancel' = [cancel EXCEPT ![t] = NewCancel]
    /\ held' = [held EXCEPT ![t] = [m \in Mutexes |-> 0]]
    /\ onReturn' = [onReturn EXCEPT ![t] = "none"]

\* pthread_exit, which StartThreadFunc calls when the thread's function returns
\* (mock_pthread_exit).
PthreadExit ==
    /\ Runs
    /\ IF ~(Waking(JoinerOf(current)) /\ current \in active) THEN Stop("assert")
       ELSE /\ KillThread(current)
            /\ Resume(live', coreActive', nactive', executed \ {current}, TRUE)
            /\ UNCHANGED <<newId, hth, slot>>
    /\ UNCHANGED <<queues, releasing>>

\* pthread_join.  Joining oneself, a detached or an already joined thread
\* ends the process; a pending cancellation is acted upon first.
PthreadJoin(t) ==
    /\ Runs /\ ~cancel[current].canceled
    /\ \/ /\ t = current \/ joinables[t].st = "no" \/ joinables[t].joiner # NoThread
          /\ Stop("unsupported")
       \/ /\ t # current /\ joinables[t].st = "done"
          /\ joinables' = [joinables EXCEPT ![t] = NoJoinee]
          /\ Returns /\ UNCHANGED <<joinings, cancel, history>>
       \/ /\ t # current /\ joinables[t] = NewJoinee
          /\ joinables' = [joinables EXCEPT ![t].joiner = current]
          /\ joinings' = [joinings EXCEPT ![current] = t]
          /\ BlockThread({}, "none", held)
          /\ UNCHANGED <<live, newId, hth, slot, cancel>>
    /\ UNCHANGED <<queues, releasing>>

\* pthread_testcancel, and pthread_join of a canceled thread.
PthreadTestcancel == cancel[current].canceled /\ PthreadExit

PthreadDetach(t) ==
    /\ Runs /\ t \in live /\ joinables[t].st # "no" /\ joinables[t].joiner = NoThread
    /\ joinables' = [joinables EXCEPT ![t] = NoJoinee]
    /\ Returns /\ UNCHANGED <<queues, releasing, joinings, cancel, history>>

\* PthreadCancelManager::Cancel for state s, and the immediate cancellation.
PthreadCancel(t, s) ==
    /\ Runs /\ Cancels /\ t \in live
    /\ IF ~s.enabled THEN cancel' = [cancel EXCEPT ![t] = s]
                          /\ Returns /\ UNCHANGED <<joins, history>>
       ELSE IF ~s.async
       THEN /\ cancel' = [cancel EXCEPT ![t] = [s EXCEPT !.canceled = TRUE]]
            /\ Returns /\ UNCHANGED <<joins, history>>
       ELSE IF t = current THEN Stop("unsupported")
       ELSE IF ~Waking(JoinerOf(t)) THEN Stop("assert")
       ELSE /\ CancelBlocked \/ t \in active
            /\ KillThread(t)
            /\ executed' = executed \ {t}
            /\ UNCHANGED <<started, current, newId, hth, slot, halted>>
    /\ UNCHANGED <<queues, releasing>>

PthreadCancelCall(t) == PthreadCancel(t, cancel[t])

\* pthread_kill makes the thread cancelable at once and cancels it.
PthreadKill(t) ==
    PthreadCancel(t, [cancel[t] EXCEPT !.enabled = TRUE, !.async = TRUE])

\* pthread_setcancelstate and pthread_setcanceltype.
PthreadSetcancel(e, a) ==
    /\ Runs /\ Cancels
    /\ cancel' = [cancel EXCEPT ![current].enabled = e, ![current].async = a]
    /\ Returns /\ UNCHANGED <<queues, releasing, joins, history>>

\* The program ends with one thread left (~PthreadScheduler).
Fini ==
    /\ Runs /\ live = {current}
    /\ halted' = "end"
    /\ UNCHANGED <<sched, queues, releasing, joins, cancel, history>>

Halted == halted # "no" /\ UNCHANGED vars

-----------------------------------------------------------------------------
Mutual ==
    \E m \in Mutexes : \/ PthreadMutexLock(m) \/ PthreadMutexTrylock(m)
                       \/ PthreadMutexUnlock(m)
                       \/ \E c \in Conds : PthreadCondWait(c, m)
Release ==
    \/ \E c \in Conds : PthreadCondSignal(c) \/ PthreadCondBroadcast(c) \/ BroadcastNext(c)
    \/ \E b \in Barriers : \/ PthreadBarrierWait(b) \/ BarrierNext(b)
                           \/ PthreadBarrierDestroy(b)
                           \/ \E n \in 1 .. MaxThreads : PthreadBarrierInit(b, n)
Lifecycle ==
    \/ \E j \in BOOLEAN : PthreadCreate(j)
    \/ PthreadExit \/ PthreadTestcancel
    \/ \E t \in Threads : PthreadJoin(t) \/ PthreadDetach(t)
                          \/ PthreadCancelCall(t) \/ PthreadKill(t)
    \/ \E e, a \in BOOLEAN : PthreadSetcancel(e, a)
    \/ Fini

Next == ProcessIns \/ Replay \/ DoContextSwitch \/ Mutual \/ Release
        \/ Lifecycle \/ Halted

Spec == Init /\ [][Next]_vars

-----------------------------------------------------------------------------
(* Properties.                                                             *)

Reasons == {"no", "end", "deadlock", "unsupported", "assert", "astray", "nocore"}
Marks   == Mutexes \cup {"none", "yield"}

\* The values of the variables.
Types ==
    /\ live \subseteq Threads /\ active \subseteq live
    /\ started \subseteq Threads /\ executed \subseteq Threads
    /\ nactive \in Int
    /\ current \in Threads
    /\ newId \in 1 .. MaxThreads
    /\ hth \in [Threads -> Hths]
    /\ slot \in [Hths -> Threads \cup {NoThread}]
    /\ coreActive \subseteq Hths
    /\ mutex \in [Mutexes -> [count : Int, owner : Threads \cup {NoThread},
                              spin : Seq(Threads)]]
    /\ waiters \in [Conds -> Seq([th : Threads, mx : Mutexes])]
    /\ barrier \in [Barriers -> [num : 0 .. MaxThreads, waiters : Seq(Threads)]]
    /\ releasing \in Conds \cup Barriers \cup {"none"}
    /\ joinables \in [Threads -> [st : {"no", "run", "done"},
                                  joiner : Threads \cup {NoThread}]]
    /\ joinings \in [Threads -> Threads \cup {NoThread}]
    /\ cancel \in [Threads -> [canceled : BOOLEAN, enabled : BOOLEAN, async : BOOLEAN]]
    /\ onReturn \in [Threads -> Marks]
    /\ held \in [Threads -> [Mutexes -> Nat]]
    /\ halted \in Reasons

\* Every variable has the type its comment gives, and no mutex is unlocked more
\* often than it was locked: the assertion __count >= 1 of UnlockAgain
\* (PthreadMutex.cpp 262) never fails.
TypeOK == Types /\ \A m \in Mutexes : mutex[m].count >= 0

\* The places where a blocked thread waits for somebody to wake it.
Places(t) ==
    {p \in Mutexes \X (1 .. MaxThreads) :
        p[2] <= Len(mutex[p[1]].spin) /\ mutex[p[1]].spin[p[2]] = t}
    \cup {p \in Conds \X (1 .. MaxThreads) :
        p[2] <= Len(waiters[p[1]]) /\ waiters[p[1]][p[2]].th = t}
    \cup {p \in Barriers \X (1 .. MaxThreads) :
        /\ p[2] <= Len(barrier[p[1]].waiters) /\ barrier[p[1]].waiters[p[2]] = t
        /\ ~(releasing = p[1] /\ t = current)}
    \cup {<<"join", j>> : j \in {x \in Threads : joinables[x].joiner = t}}

\* Of the threads that left through a pthread call, the blocked ones stand in
\* exactly one queue and the others in none: no wakeup is lost (a blocked
\* thread nobody would ever wake) and none comes twice (an UnblockThread of a
\* thread that is active, EEPthreadScheduler.cpp 258).
BlockedIffQueued ==
    halted = "no" => \A t \in live :
        Cardinality(Places(t)) = IF t \in active \/ onReturn[t] = "yield" THEN 0 ELSE 1

\* nactive is the number of active threads.  The deadlock report, the choice
\* to save a context in process_ins and the choice to switch in
\* resume_simulation all rest on it.
NactiveCounts == nactive = Cardinality(active)

\* A call of pthread_mutex_lock or pthread_cond_wait that returned gave the
\* mutex to its caller: the count of a mutex is what its owner locked (plus
\* one when the owner was handed the mutex and has not run since), and no
\* other thread believes it holds it.
Handed(t, m) == t \in active /\ t \notin executed /\ onReturn[t] = m
Ownership ==
    halted = "no" => \A m \in Mutexes, t \in live :
        IF mutex[m].count > 0 /\ mutex[m].owner = t
        THEN mutex[m].count = held[t][m] + (IF Handed(t, m) THEN 1 ELSE 0)
        ELSE held[t][m] = 0 /\ ~Handed(t, m)

\* No thread spins on a mutex that is free: the unlock that freed it would
\* have handed it over.
NoSpinOnFree == \A m \in Mutexes : mutex[m].count = 0 => mutex[m].spin = <<>>

\* A mutex that others wait for passes to the one that came first, and nobody
\* overtakes it with a lock, a trylock or a signalled wait.
FirstComeFirstServed ==
    [][\A m \in Mutexes :
         mutex[m].spin # <<>> /\ mutex'[m].owner # mutex[m].owner =>
            /\ mutex'[m].owner = Head(mutex[m].spin)
            /\ mutex'[m].spin  = Tail(mutex[m].spin)]_vars

\* The two tables of the join manager mirror each other, and the joiner of a
\* thread that has not ended is a blocked thread.
JoinTables ==
    halted \in {"no", "deadlock"} => \A t, j \in Threads :
        /\ joinables[t].joiner = j <=> joinings[j] = t
        /\ joinables[t].joiner = j => t \in live /\ j \in live \ active
        /\ joinables[t].st = "done" => t \notin live

\* Fewer threads than a barrier's participants wait on it, unless it is being
\* emptied: AddWaiter's test for equality never steps over the limit.
BarrierBelowLimit ==
    \A b \in Barriers : barrier[b].waiters # <<>> =>
        Len(barrier[b].waiters) < barrier[b].num + (IF releasing = b THEN 1 ELSE 0)

\* The thread that executes is one that may: it is live, active, and its core
\* is the one the timing model sees as active.
CurrentMayRun ==
    halted = "no" => /\ current \in active /\ current \in started
                     /\ coreActive = {hth[t] : t \in active}
                     /\ slot[hth[current]] = current

\* "Deadlocked!" is reported only when no thread could go on, and no other
\* assertion of the scheduler fails.
StopsForAReason ==
    /\ halted = "deadlock" => active = {}
    /\ halted \notin {"assert", "astray"}

=============================================================================
