---------------------------- MODULE PTSHandshake ----------------------------
(***************************************************************************)
(* The RPC channel between the Pin frontends and the McSim backend.        *)
(*                                                                         *)
(* Every simulated process is one frontend (Pthread/PTS.cpp) that shares a *)
(* memory-mapped PTSMessage and two volatile flags with the backend loop   *)
(* of McSim/main.cc.  Neither side uses a lock: the frontend lowers        *)
(* flag[0] to post a request and spins on flag[1]; the backend polls       *)
(* flag[0] of ONE process, curr_pid, and lowers flag[1] to answer.  A      *)
(* resume_simulation request is answered to the process whose thread the   *)
(* timing model picks, which moves curr_pid.                               *)
(*                                                                         *)
(* The module also keeps what the channel carries: the batch of piled      *)
(* instructions, the num_available_slot estimate of every hardware thread, *)
(* the O3 queue lengths behind it, and the active bits of the cores.       *)
(* The timing model itself is abstract: processing events may drain any    *)
(* queue and returns some active core whose queue is at most half full.    *)
(***************************************************************************)
EXTENDS Integers, Sequences, FiniteSets

CONSTANTS
    NumProcs,    \* number of [[run]] entries, i.e. of frontend processes
    ThreadsPer,  \* hardware threads configured for each process
    BatchSize,   \* instr_batch_size (PTSInterface.h)
    QueueMax,    \* o3queue_max_size of every core
    MaxCreate    \* bound: pthread_create calls of a process

ASSUME HandshakeAssumption ==
    /\ NumProcs \in Nat \ {0}
    /\ ThreadsPer \in Nat \ {0}
    /\ BatchSize \in Nat \ {0}
    /\ QueueMax \in Nat /\ QueueMax >= 5
    /\ MaxCreate \in Nat

Procs   == 0 .. NumProcs - 1
Threads == 0 .. ThreadsPer - 1
First   == 0

ReqTypes == {"add", "set_active", "resume", "get", "destructor"}
MsgTypes == ReqTypes \cup {"none"}

\* One call of PthreadTimingSimulator that a handler makes.  `b' is is_active
\* for set_active and killed for resume; `pile' is can_be_piled for add.
Rpc == [type : ReqTypes, tid : Threads, b : BOOLEAN, pile : BOOLEAN]

\* PTSMessage without the fields no decision depends on.  `tid' is the thread
\* of the batched instructions, `val' is uint32_t_val.  `id' (the parity of
\* the request) and `rep' (the header was written by the backend) are history.
Message == [type : MsgTypes, tid : Threads, val : Nat, bool_val : BOOLEAN,
            killed : BOOLEAN, id : {0, 1, 2}, rep : BOOLEAN]

VARIABLES
    fpc,      \* fpc[p]: where frontend p stands
    todo,     \* todo[p]: RPCs the current handler of p has still to make
    batch,    \* batch[p]: the piled instructions (num_piled_instr, thread)
    slots,    \* slots[p][t]: num_available_slot
    cur,      \* cur[p]: the thread `current' of p's scheduler
    tstat,    \* tstat[p][t]: "none", "active" or "blocked"
    fresh,    \* fresh[p][t]: t issued an instruction since its last handler
    created,  \* created[p]: pthread_create calls so far
    seq,      \* seq[p]: parity of the requests p has posted
    flag0, flag1,   \* mmap_flag[0], mmap_flag[1] of every process
    shm,      \* shm[p]: the shared PTSMessage
    buf,      \* buf[p]: the backend's private copy (PTSProcess::buffer)
    bpc,      \* where the backend loop stands
    currPid,  \* curr_pid
    q,        \* q[p][t]: o3queue_size of the core of thread t of process p
    coreActive,  \* coreActive[p][t]: O3Core::active
    nactive,  \* nactive of main.cc
    signalled,   \* SIGINT was sent to the processes
    dropped   \* McSim::add_instruction found a full queue

frontVars == <<fpc, todo, batch, slots, cur, tstat, fresh, created, seq>>
backVars  == <<buf, bpc, currPid, q, coreActive, nactive, signalled, dropped>>
vars      == <<frontVars, flag0, flag1, shm, backVars>>

-----------------------------------------------------------------------------
(* The RPC sequences of the frontend's handlers.                           *)

Add(t, pile)   == [type |-> "add",        tid |-> t, b |-> FALSE,  pile |-> pile]
SetActive(t,b) == [type |-> "set_active", tid |-> t, b |-> b,      pile |-> FALSE]
Resume(killed) == [type |-> "resume",     tid |-> 0, b |-> killed, pile |-> FALSE]
Get            == [type |-> "get",        tid |-> 0, b |-> FALSE,  pile |-> FALSE]
Destructor     == [type |-> "destructor", tid |-> 0, b |-> FALSE,  pile |-> FALSE]

\* Mutant: the instruction is added before set_active has sent the batch.
UnblockAddFirst(ws) == [i \in 1 .. 2 * Len(ws) |->
                   IF i % 2 = 1 THEN Add(ws[(i + 1) \div 2], FALSE)
                                ELSE SetActive(ws[i \div 2], TRUE)]

\* PthreadScheduler::UnblockThread for each thread of ws, in that order.
Unblock(ws) == [i \in 1 .. 2 * Len(ws) |->
                   IF i % 2 = 1 THEN SetActive(ws[(i + 1) \div 2], TRUE)
                                ELSE Add(ws[i \div 2], FALSE)]

\* Mutants: the core stays active; the core is marked active.
BlockNoCore(t, barrier) ==
    (IF barrier THEN <<Add(t, FALSE)>> ELSE <<>>) \o <<Resume(FALSE)>>
BlockWrongBit(t, barrier) ==
    (IF barrier THEN <<Add(t, FALSE)>> ELSE <<>>) \o
    <<SetActive(t, TRUE), Resume(FALSE)>>

\* PthreadScheduler::BlockThread; a barrier first sends its own instruction.
Block(t, barrier) ==
    (IF barrier THEN <<Add(t, FALSE)>> ELSE <<>>) \o
    <<SetActive(t, FALSE), Resume(FALSE)>>

\* PthreadScheduler::KillThread; set_stack_n_size and get_curr_time are "get".
Kill(t) == <<Get, SetActive(t, FALSE), Get>>

\* PthreadScheduler::AddThread and the Pthread constructor.
Spawn(t) == <<Get, Get, SetActive(t, TRUE), Get, Add(t, FALSE)>>

\* The constructors and the first AddThread, which adds no instruction.
Boot == <<Get, Get, Get, SetActive(0, TRUE), Get, Get>>

-----------------------------------------------------------------------------
NoMsg == [type |-> "none", tid |-> 0, val |-> 0, bool_val |-> FALSE,
          killed |-> FALSE, id |-> 2, rep |-> FALSE]

\* main.cc sets both flags and, for every process but the first, piles a
\* dummy instruction on its first core and activates it, before any fork.
Init ==
    /\ fpc     = [p \in Procs |-> "run"]
    /\ todo    = [p \in Procs |-> Boot]
    /\ batch   = [p \in Procs |-> [tid |-> 0, n |-> 0]]
    /\ slots   = [p \in Procs |-> [t \in Threads |-> 1]]
    /\ cur     = [p \in Procs |-> 0]
    /\ tstat   = [p \in Procs |-> [t \in Threads |->
                                     IF t = 0 THEN "active" ELSE "none"]]
    /\ fresh   = [p \in Procs |-> [t \in Threads |-> FALSE]]
    /\ created = [p \in Procs |-> 0]
    /\ seq     = [p \in Procs |-> 0]
    /\ flag0   = [p \in Procs |-> TRUE]
    /\ flag1   = [p \in Procs |-> TRUE]
    /\ shm     = [p \in Procs |-> NoMsg]
    /\ buf     = [p \in Procs |-> NoMsg]
    /\ bpc     = "poll"
    /\ currPid = First
    /\ q = [p \in Procs |-> [t \in Threads |->
                               IF p # First /\ t = 0 THEN 1 ELSE 0]]
    /\ coreActive = [p \in Procs |-> [t \in Threads |-> p # First /\ t = 0]]
    /\ nactive = NumProcs * ThreadsPer
    /\ signalled = FALSE
    /\ dropped   = FALSE

-----------------------------------------------------------------------------
(* Frontend: the application runs and enters a handler.                    *)

Idle(p) == fpc[p] = "run" /\ todo[p] = <<>>

\* The thread statuses after the handler blocks the threads of B, wakes those
\* of W and erases those of K.
Restate(p, B, W, K) ==
    [t \in Threads |-> CASE t \in K -> "none"
                         [] t \in B -> "blocked"
                         [] t \in W -> "active"
                         [] OTHER   -> tstat[p][t]]

\* A handler of the running thread of p makes the RPCs `rpcs'.
Handler(p, rpcs, B, W, K) ==
    /\ todo'  = [todo EXCEPT ![p] = rpcs]
    /\ tstat' = [tstat EXCEPT ![p] = Restate(p, B, W, K)]
    /\ fresh' = [fresh EXCEPT ![p] = [t \in Threads |-> fresh[p][t] /\ t # cur[p]]]
    /\ UNCHANGED <<fpc, batch, slots, cur, created, seq, flag0, flag1, shm, backVars>>

\* Sequences of distinct blocked threads of p that a handler may wake.
Wakeable(p, n) ==
    {ws \in UNION {[1 .. k -> Threads] : k \in 0 .. n} :
        /\ \A i \in DOMAIN ws : tstat[p][ws[i]] = "blocked"
        /\ \A i, j \in DOMAIN ws : ws[i] = ws[j] => i = j}

Members(ws) == {ws[i] : i \in DOMAIN ws}

\* Mutant: the last active thread may block.
NoDeadlockCheck(p, ws) == TRUE

\* BlockThread asserts that another thread stays active (nactive > 0).
OtherActive(p, ws) == \E t \in Threads \ {cur[p]} :
                         tstat[p][t] = "active" \/ t \in Members(ws)

\* Only a thread that executed the call instruction is in a handler; the
\* call instruction itself went through process_ins.
Calls(p) == Idle(p) /\ tstat[p][cur[p]] = "active" /\ fresh[p][cur[p]]

\* PthreadScheduler::process_ins for one application instruction.
ProcessIns(p) ==
    /\ Idle(p) /\ tstat[p][cur[p]] = "active"
    /\ todo'  = [todo EXCEPT ![p] = <<Add(cur[p], TRUE)>>]
    /\ fresh' = [fresh EXCEPT ![p][cur[p]] = TRUE]
    /\ UNCHANGED <<fpc, batch, slots, cur, tstat, created, seq,
                   flag0, flag1, shm, backVars>>

\* pthread_mutex_lock on a free mutex, and on a held one.
MutexLock(p) ==
    /\ Calls(p)
    /\ \/ Handler(p, <<Add(cur[p], FALSE)>>, {}, {}, {})
       \/ /\ OtherActive(p, <<>>)
          /\ Handler(p, <<Add(cur[p], FALSE)>> \o Block(cur[p], FALSE),
                     {cur[p]}, {}, {})

\* pthread_mutex_unlock hands the mutex to at most one spinning thread.
MutexUnlock(p) ==
    /\ Calls(p)
    /\ \E ws \in Wakeable(p, 1) :
          Handler(p, <<Add(cur[p], FALSE)>> \o Unblock(ws), {}, Members(ws), {})

\* pthread_cond_wait: pthread_mutex_unlock and then BlockThread.
CondWait(p) ==
    /\ Calls(p)
    /\ \E ws \in Wakeable(p, 1) :
          /\ OtherActive(p, ws)
          /\ Handler(p, <<Add(cur[p], FALSE)>> \o Unblock(ws) \o Block(cur[p], FALSE),
                     {cur[p]}, Members(ws), {})

\* pthread_cond_signal and pthread_cond_broadcast (threads whose mutex is
\* free are unblocked, the others only change queue).
CondSignal(p) ==
    /\ Calls(p)
    /\ \E ws \in Wakeable(p, ThreadsPer - 1) :
          Handler(p, Unblock(ws), {}, Members(ws), {})

\* pthread_barrier_wait by the last participant, and by an earlier one.
BarrierWait(p) ==
    /\ Calls(p)
    /\ \/ \E ws \in Wakeable(p, ThreadsPer - 1) :
             Handler(p, <<Add(cur[p], FALSE)>> \o Unblock(ws), {}, Members(ws), {})
       \/ /\ OtherActive(p, <<>>)
          /\ Handler(p, Block(cur[p], TRUE), {cur[p]}, {}, {})

\* pthread_join on a thread that has not terminated, and docontextswitch: the
\* running thread is descheduled, in both cases by BlockThread alone.
Join(p) ==
    /\ Calls(p) /\ OtherActive(p, <<>>)
    /\ Handler(p, Block(cur[p], FALSE), {cur[p]}, {}, {})

\* pthread_create.  The new thread's id counts the pthread_create calls, its
\* hardware thread the live pthreads; SetActiveState sends the id and AddThread
\* the hardware thread to the backend.  This module has one index for both, so
\* the guard admits the programs where they are the same number: no thread is
\* created after another one has ended (EEPthread has the other programs).
Create(p) ==
    LET live == {t \in Threads : tstat[p][t] # "none"}
        new  == Cardinality(live)
    IN  /\ Calls(p) /\ created[p] < MaxCreate
        /\ new = created[p] + 1
        /\ new \in Threads \ live
        /\ todo'  = [todo EXCEPT ![p] = Spawn(new)]
        /\ tstat' = [tstat EXCEPT ![p][new] = "active"]
        /\ fresh' = [fresh EXCEPT ![p][cur[p]] = FALSE]
        /\ created' = [created EXCEPT ![p] = @ + 1]
        /\ UNCHANGED <<fpc, batch, slots, cur, seq, flag0, flag1, shm, backVars>>

\* pthread_exit: wake the joiner, if any, destroy the thread, let another run.
\* Nothing asks whether there is one.
Exit(p) ==
    /\ Calls(p)
    /\ \E ws \in Wakeable(p, 1) :
          Handler(p, Unblock(ws) \o Kill(cur[p]) \o <<Resume(TRUE)>>,
                  {}, Members(ws), {cur[p]})

\* pthread_cancel that takes effect at once, and pthread_kill: wake the joiner,
\* if any, and destroy the other thread k; the caller runs on.
Cancel(p) ==
    /\ Calls(p)
    /\ \E ws \in Wakeable(p, 1), k \in Threads \ {cur[p]} :
          /\ tstat[p][k] # "none" /\ k \notin Members(ws)
          /\ Handler(p, Unblock(ws) \o Kill(k), {}, Members(ws), {k})

\* The application ends after its other threads have: ~PthreadScheduler reports
\* a killed thread, destroys the last one and deletes the channel.
Fini(p) ==
    /\ Calls(p)
    /\ \A t \in Threads \ {cur[p]} : tstat[p][t] = "none"
    /\ Handler(p, <<Resume(TRUE)>> \o Kill(cur[p]) \o <<Destructor>>,
               {}, {}, {cur[p]})

App(p) == ProcessIns(p) \/ MutexLock(p) \/ MutexUnlock(p) \/ CondWait(p)
          \/ CondSignal(p) \/ BarrierWait(p) \/ Join(p) \/ Create(p)
          \/ Exit(p) \/ Cancel(p) \/ Fini(p)

-----------------------------------------------------------------------------
(* Frontend: PthreadTimingSimulator (Pthread/PTS.cpp).                     *)

\* Write a request into the shared message.  The code assigns only the fields
\* of this type of request; nobody reads the others before they are assigned
\* again, and the model clears them.
Post(p, msg) ==
    /\ shm' = [shm EXCEPT ![p] = [msg EXCEPT !.id = 1 - seq[p], !.rep = FALSE]]
    /\ seq' = [seq EXCEPT ![p] = 1 - @]
    /\ fpc' = [fpc EXCEPT ![p] = "post"]

BatchMsg(t, n) == [NoMsg EXCEPT !.type = "add", !.tid = t, !.val = n]

\* The test of add_instruction: when the piled instructions must be sent.
MustSync(p, r, n) == ~r.pile \/ n >= BatchSize \/ n >= slots[p][r.tid]

\* add_instruction: two threads in one batch end the process (exit(1)).
Pile(p) ==
    LET r == Head(todo[p])
        n == batch[p].n + 1
    IN  /\ fpc[p] = "run" /\ todo[p] # <<>> /\ r.type = "add"
        /\ \/ /\ batch[p].n > 0 /\ batch[p].tid # r.tid
              /\ fpc' = [fpc EXCEPT ![p] = "exited"]
              /\ UNCHANGED <<todo, batch, seq, shm>>
           \/ /\ batch[p].n > 0 => batch[p].tid = r.tid
              /\ batch' = [batch EXCEPT ![p] = [tid |-> r.tid, n |-> n]]
              /\ IF MustSync(p, r, n)
                 THEN /\ Post(p, BatchMsg(r.tid, n))
                      /\ UNCHANGED todo
                 ELSE /\ todo' = [todo EXCEPT ![p] = Tail(@)]
                      /\ UNCHANGED <<fpc, seq, shm>>
        /\ UNCHANGED <<slots, cur, tstat, fresh, created, flag0, flag1, backVars>>

\* Every other RPC first sends what is piled (send_instr_batch).
Flush(p) ==
    /\ fpc[p] = "run" /\ todo[p] # <<>> /\ Head(todo[p]).type # "add"
    /\ batch[p].n > 0
    /\ Post(p, BatchMsg(batch[p].tid, batch[p].n))
    /\ UNCHANGED <<todo, batch, slots, cur, tstat, fresh, created,
                   flag0, flag1, backVars>>

RequestMsg(r) ==
    CASE r.type = "set_active" -> [NoMsg EXCEPT !.type = "set_active", !.val = r.tid,
                                                 !.bool_val = r.b]
      [] r.type = "resume" -> [NoMsg EXCEPT !.type = "resume", !.killed = r.b]
      [] OTHER -> [NoMsg EXCEPT !.type = r.type]

Request(p) ==
    /\ fpc[p] = "run" /\ todo[p] # <<>> /\ Head(todo[p]).type # "add"
    /\ batch[p].n = 0
    /\ Post(p, RequestMsg(Head(todo[p])))
    /\ UNCHANGED <<todo, batch, slots, cur, tstat, fresh, created,
                   flag0, flag1, backVars>>

\* sync_with_mcsim, first store; the destructor does not wait for an answer.
LowerFlag0(p) ==
    /\ fpc[p] = "post"
    /\ flag0' = [flag0 EXCEPT ![p] = FALSE]
    /\ fpc'   = [fpc EXCEPT ![p] = IF shm[p].type = "destructor" THEN "gone" ELSE "spin"]
    /\ UNCHANGED <<todo, batch, slots, cur, tstat, fresh, created, seq,
                   flag1, shm, backVars>>

\* Mutant: the frontend does not wait.
SeeFlag1NoWait(p) ==
    /\ fpc[p] = "spin"
    /\ fpc' = [fpc EXCEPT ![p] = "got"]
    /\ UNCHANGED <<todo, batch, slots, cur, tstat, fresh, created, seq,
                   flag0, flag1, shm, backVars>>

\* The spin loop ends.
SeeFlag1(p) ==
    /\ fpc[p] = "spin" /\ ~flag1[p]
    /\ fpc' = [fpc EXCEPT ![p] = "got"]
    /\ UNCHANGED <<todo, batch, slots, cur, tstat, fresh, created, seq,
                   flag0, flag1, shm, backVars>>

\* What the caller does with the answer.  A resume whose answer names no
\* thread of the process ends it: vector::at throws.
UseReply(p) ==
    LET r   == Head(todo[p])
        val == shm[p].val
    IN  IF batch[p].n > 0
        THEN /\ slots' = [slots EXCEPT ![p][batch[p].tid] = val]
             /\ batch' = [batch EXCEPT ![p].n = 0]
             /\ todo'  = [todo EXCEPT ![p] =
                             IF r.type # "add" THEN @
                             ELSE (IF r.pile /\ val <= 1 THEN <<Resume(FALSE)>>
                                                         ELSE <<>>) \o Tail(@)]
             /\ fpc'   = [fpc EXCEPT ![p] = "run"]
             /\ UNCHANGED cur
        ELSE /\ todo' = [todo EXCEPT ![p] = Tail(@)]
             /\ IF r.type = "resume" /\ val \notin Threads
                THEN fpc' = [fpc EXCEPT ![p] = "exited"] /\ UNCHANGED cur
                ELSE /\ fpc' = [fpc EXCEPT ![p] = "run"]
                     /\ cur' = IF r.type = "resume" THEN [cur EXCEPT ![p] = val]
                                                    ELSE cur
             /\ UNCHANGED <<slots, batch>>

\* Mutant: flag[1] is not raised again.
RaiseFlag1Forgotten(p) ==
    /\ fpc[p] = "got"
    /\ UseReply(p)
    /\ UNCHANGED <<tstat, fresh, created, seq, flag0, flag1, shm, backVars>>

\* sync_with_mcsim, last store, and the return to the caller.
RaiseFlag1(p) ==
    /\ fpc[p] = "got"
    /\ flag1' = [flag1 EXCEPT ![p] = TRUE]
    /\ UseReply(p)
    /\ UNCHANGED <<tstat, fresh, created, seq, flag0, shm, backVars>>

Front(p) == Pile(p) \/ Flush(p) \/ Request(p) \/ LowerFlag0(p)
            \/ SeeFlag1(p) \/ RaiseFlag1(p)

-----------------------------------------------------------------------------
(* Backend: the loop of McSim/main.cc.                                     *)

\* `while (mmap_flag[0]) {}' ends.
SeeFlag0 ==
    /\ bpc = "poll" /\ ~flag0[currPid]
    /\ bpc' = "raise"
    /\ UNCHANGED <<frontVars, flag0, flag1, shm, buf, currPid, q, coreActive,
                   nactive, signalled, dropped>>

\* Mutant: flag[0] is not raised, the same request is seen twice.
RaiseFlag0Forgotten ==
    /\ bpc = "raise"
    /\ bpc' = "copyin"
    /\ UNCHANGED <<frontVars, flag0, flag1, shm, buf, currPid, q, coreActive,
                   nactive, signalled, dropped>>

RaiseFlag0 ==
    /\ bpc = "raise"
    /\ flag0' = [flag0 EXCEPT ![currPid] = TRUE]
    /\ bpc' = "copyin"
    /\ UNCHANGED <<frontVars, flag1, shm, buf, currPid, q, coreActive,
                   nactive, signalled, dropped>>

CopyIn ==
    /\ bpc = "copyin"
    /\ buf' = [buf EXCEPT ![currPid] = shm[currPid]]
    /\ bpc' = "serve"
    /\ UNCHANGED <<frontVars, flag0, flag1, shm, currPid, q, coreActive,
                   nactive, signalled, dropped>>

\* max_total_instrs or the per-thread limit is reached: SIGKILL and break.
Limit ==
    /\ bpc = "serve"
    /\ bpc' = "end"
    /\ fpc' = [p \in Procs |-> "killed"]
    /\ UNCHANGED <<todo, batch, slots, cur, tstat, fresh, created, seq,
                   flag0, flag1, shm, buf, currPid, q, coreActive,
                   nactive, signalled, dropped>>

\* Mutants: no reserve for unpiled instructions; unsigned wrap not prevented.
AvailableNoReserve(len) == QueueMax - len
AvailableNoClamp(len)   == QueueMax - (len + 4)

\* McSim::add_instruction for each instruction of the batch; a full queue
\* silently drops.  The answer keeps 4 entries in reserve.
Available(len) == IF len + 4 > QueueMax THEN 0 ELSE QueueMax - (len + 4)

ServeAdd ==
    LET m   == buf[currPid]
        len == q[currPid][m.tid] + m.val
        new == IF len > QueueMax THEN QueueMax ELSE len
    IN  /\ bpc = "serve" /\ m.type = "add"
        /\ q' = [q EXCEPT ![currPid][m.tid] = new]
        /\ dropped' = (dropped \/ len > QueueMax)
        /\ buf' = [buf EXCEPT ![currPid].val = Available(new),
                              ![currPid].rep = TRUE]
        /\ bpc' = "copyout"
        /\ UNCHANGED <<frontVars, flag0, flag1, shm, currPid, coreActive,
                       nactive, signalled>>

ServeSetActive ==
    LET m == buf[currPid]
    IN  /\ bpc = "serve" /\ m.type = "set_active"
        /\ coreActive' = IF m.val \in Threads
                         THEN [coreActive EXCEPT ![currPid][m.val] = m.bool_val]
                         ELSE coreActive
        /\ buf' = [buf EXCEPT ![currPid].rep = TRUE]
        /\ bpc' = "copyout"
        /\ UNCHANGED <<frontVars, flag0, flag1, shm, currPid, q,
                       nactive, signalled, dropped>>

\* get_num_hthreads, get_param_*, get_curr_time, set_stack_n_size.
ServeGet ==
    /\ bpc = "serve" /\ buf[currPid].type = "get"
    /\ buf' = [buf EXCEPT ![currPid].val = NumProcs * ThreadsPer,
                          ![currPid].rep = TRUE]
    /\ bpc' = "copyout"
    /\ UNCHANGED <<frontVars, flag0, flag1, shm, currPid, q, coreActive,
                   nactive, signalled, dropped>>

\* What cycles of the cores (O3Core::process_event) may leave in their queues:
\* how fast an instruction moves on to the reorder buffer is not modelled.
Drained == {f \in [Procs -> [Threads -> 0 .. QueueMax]] :
               \A x \in Procs, y \in Threads : f[x][y] <= q[x][y]}

\* McSim::resume_simulation: queues drain, an active core at most half full
\* is returned, and the answer goes to ITS process.
ResumeTo(p, t) ==
    /\ coreActive[p][t]
    /\ q' \in Drained /\ q'[p][t] <= QueueMax \div 2
    /\ currPid' = p
    /\ buf' = [buf EXCEPT ![p] = [@ EXCEPT !.type = "resume", !.val = t, !.rep = TRUE]]

\* A killed thread is counted; at zero every process gets SIGINT.  When no core
\* is active resume_simulation answers num_hthreads, and main.cc reads curr_pid
\* past the end of htid_to_pid: nothing is known of what it does from then on.
ServeResume ==
    LET m == buf[currPid]
        left == IF m.killed THEN nactive - 1 ELSE nactive
    IN  /\ bpc = "serve" /\ m.type = "resume"
        /\ nactive' = left
        /\ signalled' = (signalled \/ (m.killed /\ left = 0))
        /\ \/ /\ \E p \in Procs, t \in Threads : ResumeTo(p, t)
              /\ bpc' = "copyout"
           \/ /\ \A p \in Procs, t \in Threads : ~coreActive[p][t]
              /\ bpc' = "wild"
              /\ UNCHANGED <<buf, currPid, q>>
        /\ UNCHANGED <<frontVars, flag0, flag1, shm, coreActive, dropped>>

\* A process is gone: go on with another one, or end the loop after copying
\* the answer nobody reads.
ServeDestructor ==
    /\ bpc = "serve" /\ buf[currPid].type = "destructor"
    /\ \/ /\ \E p \in Procs, t \in Threads : ResumeTo(p, t)
          /\ bpc' = "copyout"
       \/ /\ \A p \in Procs, t \in Threads : ~coreActive[p][t]
          /\ bpc' = "last"
          /\ UNCHANGED <<buf, currPid, q>>
    /\ UNCHANGED <<frontVars, flag0, flag1, shm, coreActive,
                   nactive, signalled, dropped>>

\* The header is copied out; the instruction union is not.
CopyOut ==
    /\ bpc \in {"copyout", "last"}
    /\ shm' = [shm EXCEPT ![currPid] = [buf[currPid] EXCEPT !.tid = shm[currPid].tid]]
    /\ bpc' = IF bpc = "last" THEN "lastlower" ELSE "lower"
    /\ UNCHANGED <<frontVars, flag0, flag1, buf, currPid, q, coreActive,
                   nactive, signalled, dropped>>

\* Mutant: the answer is copied but never announced.
LowerFlag1Forgotten ==
    /\ bpc \in {"lower", "lastlower"}
    /\ bpc' = IF bpc = "lastlower" THEN "end" ELSE "poll"
    /\ UNCHANGED <<frontVars, flag0, flag1, shm, buf, currPid, q, coreActive,
                   nactive, signalled, dropped>>

LowerFlag1 ==
    /\ bpc \in {"lower", "lastlower"}
    /\ flag1' = [flag1 EXCEPT ![currPid] = FALSE]
    /\ bpc' = IF bpc = "lastlower" THEN "end" ELSE "poll"
    /\ UNCHANGED <<frontVars, flag0, shm, buf, currPid, q, coreActive,
                   nactive, signalled, dropped>>

Serve == ServeAdd \/ ServeSetActive \/ ServeGet \/ ServeResume \/ ServeDestructor
Back  == SeeFlag0 \/ RaiseFlag0 \/ CopyIn \/ Limit \/ Serve \/ CopyOut \/ LowerFlag1

\* The backend has left its loop, or left its tables.
Terminated == bpc \in {"end", "wild"} /\ UNCHANGED vars

Next == (\E p \in Procs : App(p) \/ Front(p)) \/ Back \/ Terminated

\* Both sides are processes the operating system keeps running: the frontend
\* completes the RPCs of the handler it is in, the backend loop goes on.  That
\* the application calls another handler, or that the instruction limit is
\* reached, is not assumed.
Fairness ==
    /\ WF_vars(SeeFlag0 \/ RaiseFlag0 \/ CopyIn \/ Serve \/ CopyOut \/ LowerFlag1)
    /\ \A p \in Procs : WF_vars(Front(p))

Spec     == Init /\ [][Next]_vars
FairSpec == Spec /\ Fairness

-----------------------------------------------------------------------------
(* Properties.                                                             *)

FrontPc == {"run", "post", "spin", "got", "gone", "exited", "killed"}
BackPc  == {"poll", "raise", "copyin", "serve", "copyout", "lower",
            "last", "lastlower", "end", "wild"}

\* Every variable has the type its comment gives.
TypeOK ==
    /\ fpc \in [Procs -> FrontPc]
    /\ todo \in [Procs -> Seq(Rpc)]
    /\ batch \in [Procs -> [tid : Threads, n : Nat]]
    /\ slots \in [Procs -> [Threads -> Nat]]
    /\ cur \in [Procs -> Threads]
    /\ tstat \in [Procs -> [Threads -> {"none", "active", "blocked"}]]
    /\ fresh \in [Procs -> [Threads -> BOOLEAN]]
    /\ created \in [Procs -> Nat]
    /\ seq \in [Procs -> {0, 1}]
    /\ flag0 \in [Procs -> BOOLEAN] /\ flag1 \in [Procs -> BOOLEAN]
    /\ shm \in [Procs -> Message] /\ buf \in [Procs -> Message]
    /\ bpc \in BackPc
    /\ currPid \in Procs
    /\ q \in [Procs -> [Threads -> 0 .. QueueMax]]
    /\ coreActive \in [Procs -> [Threads -> BOOLEAN]]
    /\ nactive \in Int
    /\ signalled \in BOOLEAN /\ dropped \in BOOLEAN

\* The two flags give mutual exclusion on the shared message: while the
\* backend copies the message of p in or out (main.cc 287 and 450), frontend p
\* is in its spin loop and neither writes a request nor reads an answer.
BufferExclusion(p) ==
    bpc \in {"copyin", "copyout"} /\ currPid = p => fpc[p] \in {"spin", "gone", "killed"}

\* When the spin loop of sync_with_mcsim ends, the header in shared memory is
\* the backend's answer to the request this process posted last, not an older
\* answer and not an answer meant for somebody else.
ReplyMatches(p) == fpc[p] = "got" => shm[p].rep /\ shm[p].id = seq[p]

\* The channel of the first process is sound whatever the others do.
FirstExclusion == BufferExclusion(First)
FirstReply     == ReplyMatches(First)

\* The stages of a request of the first process, from the moment it lowers
\* flag[0] until its spin loop sees the answer.
Posted   == /\ ~flag0[First] /\ flag1[First] /\ currPid = First
            /\ bpc \in {"poll", "raise"}
            /\ shm[First].id = seq[First] /\ shm[First].type # "destructor"
Received == /\ flag0[First] /\ flag1[First] /\ currPid = First /\ bpc = "copyin"
            /\ shm[First].id = seq[First] /\ shm[First].type # "destructor"
Serving  == /\ flag0[First] /\ flag1[First] /\ currPid = First /\ bpc = "serve"
            /\ buf[First].id = seq[First] /\ buf[First].type # "destructor"
Served   == /\ flag0[First] /\ flag1[First] /\ currPid = First /\ bpc = "copyout"
            /\ buf[First].id = seq[First] /\ buf[First].rep
Copied   == /\ flag0[First] /\ flag1[First] /\ currPid = First /\ bpc = "lower"
            /\ shm[First].id = seq[First] /\ shm[First].rep
Parked   == /\ flag0[First] /\ flag1[First] /\ currPid # First
            /\ buf[First].id = seq[First]
Replied  == /\ flag0[First] /\ ~flag1[First] /\ currPid = First /\ bpc = "poll"
            /\ shm[First].id = seq[First] /\ shm[First].rep
\* The request found no active core and will never be answered.
Stuck    == flag0[First] /\ flag1[First] /\ bpc = "wild"

\* The inductive invariant of the channel: while the first process runs the
\* backend polls it and nobody else, and while it spins its request is in
\* exactly one of the stages above.
ChannelInv ==
    /\ fpc[First] \in {"run", "post", "got", "exited"} =>
          currPid = First /\ bpc = "poll" /\ flag0[First]
    /\ fpc[First] \in {"run", "post"} => flag1[First]
    /\ fpc[First] = "post" => shm[First].id = seq[First]
    /\ fpc[First] = "got"  => shm[First].id = seq[First] /\ shm[First].rep
    /\ fpc[First] = "spin" => \/ Posted \/ Received \/ Serving \/ Served
                              \/ Copied \/ Parked \/ Replied \/ Stuck

\* The first process's requests as procedure calls: asked while the backend has
\* the request before it or in hand, then served until the caller returns.  The
\* calls are over when the process has ended or the backend has gone astray.
CallStage ==
    CASE fpc[First] \in {"gone", "exited", "killed"} \/ bpc = "wild" -> "over"
      [] fpc[First] \in {"run", "post"} -> "free"
      [] /\ fpc[First] = "spin" /\ currPid = First
         /\ bpc \in {"raise", "copyin", "serve"} \/ (bpc = "poll" /\ flag1[First]) -> "asked"
      [] OTHER -> "served"
Channel == INSTANCE RemoteCall WITH stage <- CallStage

\* The two flags and the polling loop implement the procedure call: a request
\* is not lost, not served twice and not returned from before it was served,
\* also when the resume of one process is answered to another.
ImplementsCall == Channel!Spec

\* The 4 entries add_instruction keeps in reserve suffice for every
\* synchronisation instruction that is sent without looking at the number of
\* free slots: no core's queue is ever full when an instruction arrives, so
\* none is silently lost.
NoDrop == ~dropped

\* The first process never dies in add_instruction's exit(1) (two threads in
\* one batch) nor in hth_to_pth.at() (an answer that is no thread).
FirstNeverExits == fpc[First] # "exited"

\* Between two handlers the active bits of the cores are those of the threads:
\* no thread that may run is hidden from the timing model and no blocked or
\* dead one can be picked by it.
CoresAgree ==
    Idle(First) => \A t \in Threads : coreActive[First][t] <=> tstat[First][t] = "active"

\* When main.cc serves a resume request some core is active, so that htid_to_pid
\* is not read out of bounds with num_hthreads (main.cc 312), except after the
\* one handler that does not look: the exit of a process's last active thread.
\* No block, full queue or end of a process ever finds all cores inactive.
ResumeFindsCore ==
    bpc = "serve" /\ buf[currPid].type = "resume" =>
        \/ \E p \in Procs, t \in Threads : coreActive[p][t]
        \/ buf[currPid].killed /\ \A t \in Threads : tstat[currPid][t] # "active"

\* The thread that resume_simulation names is one that can run: the frontend
\* never switches to a blocked or a dead thread.
RunsActiveThread == Idle(First) => tstat[First][cur[First]] = "active"

\* The first process is eventually released whenever it spins on flag[1], unless
\* the backend read past its table when it looked for a core.
Answered == fpc[First] = "spin" ~> (fpc[First] # "spin" \/ bpc = "wild")

\* ReplyMatches for every process.
EveryReply == \A p \in Procs : ReplyMatches(p)

=============================================================================
