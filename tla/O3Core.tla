------------------------------- MODULE O3Core -------------------------------
(***************************************************************************)
(* One out-of-order core of the timing simulator: PTSO3Core.cc, and        *)
(* McSim::add_instruction, which feeds it.  The core runs only when the    *)
(* global event queue holds an event for it, so every path must schedule   *)
(* the next one.  The reorder buffer is a ring; dependences, and the       *)
(* memory requests in flight, are slot numbers of that ring.               *)
(*                                                                         *)
(* Times are relative to now and in units of process_interval; Past stands *)
(* for any time before now.  TLBs, caches and the frontend are external:   *)
(* they answer and supply when and as the code that calls them allows.     *)
(***************************************************************************)
EXTENDS Integers, Sequences, FiniteSets, FiniteSetsExt, SequencesExt

CONSTANTS
    QueueMax,       \* o3queue_max_size
    RobMax,         \* o3rob_max_size
    IssueWidth,     \* max_issue_width
    CommitWidth,    \* max_commit_width
    MaxAlu, MaxLdst, MaxLd, MaxSt, MaxSse,
    LongT,          \* lock_t, unlock_t, barrier_t and sse_t; the code rounds the
                    \* first three up to whole cycles, sse_t is taken to be one
    MissPenalty,    \* branch_miss_penalty
    InOrder,        \* mimick_inorder
    MaxNacks,       \* consecutive_nack_threshold: beyond it the run aborts
    Instrs,         \* the instructions the frontend sends
    MaxInstrs,      \* bound: how many of them
    MaxLat          \* bound: latency of a TLB or cache answer

\* The constructor checks RobMax >= 4.
ASSUME CoreAssumption ==
    /\ RobMax \in Nat /\ RobMax >= 4
    /\ {QueueMax, IssueWidth, CommitWidth, MaxAlu, MaxLdst, MaxLd, MaxSt, MaxSse} \subseteq Nat \ {0}
    /\ {LongT, MissPenalty, MaxNacks, MaxInstrs, MaxLat} \subseteq Nat
    /\ LongT > 0 /\ InOrder \in BOOLEAN

Slots == 0 .. RobMax - 1
Past  == -1
Times == Past .. LongT + MissPenalty + MaxLat + 1

\* An instruction: kind, cache line of its ip, the registers it reads and
\* writes, its accesses in the order raddr, raddr2, waddr, each of a word
\* other than 0, and whether the branch predictor will be wrong about it.
Kinds == {"plain", "x87", "sync", "notify", "waitfor"}
ASSUME InstrsAssumption ==
    /\ Instrs \subseteq [kind : Kinds, line : Nat, rr : SUBSET Nat, rw : SUBSET Nat,
                         mem : Seq([addr : Nat \ {0}, isread : BOOLEAN]), miss : BOOLEAN]
    /\ \A ins \in Instrs : Len(ins.mem) <= 3

VARIABLES
    o3queue,        \* sequence of [state, ready, ins]
    o3rob, o3rob_head, o3rob_size,
    events,         \* times at which the event queue holds an event for the core
    memreqs,        \* requests under way: [rob or line, phase, at]
    resume_time,
    nacks,          \* num_consecutive_nacks
    migrate,        \* is_migrate_ready of the one core that notify and waitfor name
    active,
    returned,       \* process_event has returned: the core's thread runs in the frontend
    supplied        \* instructions sent so far

vars == <<o3queue, o3rob, o3rob_head, o3rob_size, events, memreqs, resume_time, nacks,
          migrate, active, returned, supplied>>

NoIns   == [kind |-> "plain", line |-> 0, rr |-> {}, rw |-> {}, mem |-> <<>>, miss |-> FALSE]
NoEntry == [state |-> "invalid", ready |-> Past, addr |-> 0, isread |-> FALSE,
            deps |-> {}, ins |-> NoIns]

Init ==
    /\ o3queue = <<>>
    /\ o3rob = [s \in Slots |-> NoEntry] /\ o3rob_head = 0 /\ o3rob_size = 0
    /\ events = {} /\ memreqs = {} /\ resume_time = Past /\ nacks = 0
    /\ migrate = FALSE /\ active = FALSE /\ returned = FALSE /\ supplied = 0

-----------------------------------------------------------------------------
(* The frontend's side.                                                    *)

\* McSim::add_instruction: only the first instruction of an empty queue
\* schedules the core, and only if no access is waiting for its TLB.
AddInstruction(ins) ==
    /\ supplied < MaxInstrs /\ Len(o3queue) < QueueMax
    /\ supplied' = supplied + 1
    /\ events' = IF o3queue = <<>> /\ resume_time <= 0 THEN events \cup {0} ELSE events
    /\ o3queue' = Append(o3queue, [state |-> "not_in_queue", ready |-> 0, ins |-> ins])
    /\ UNCHANGED <<o3rob, o3rob_head, o3rob_size, memreqs, resume_time, nacks, migrate>>

\* The core's thread starts or is woken: set_active, then an instruction.
Wake(ins) ==
    /\ ~active /\ active' = TRUE
    /\ AddInstruction(ins)
    /\ UNCHANGED returned

\* The thread runs and sends an instruction.
Supply(ins) ==
    /\ returned
    /\ AddInstruction(ins)
    /\ UNCHANGED <<active, returned>>

\* The thread lets the simulation go on; with too few instructions it would be
\* asked again at once.
Resume ==
    /\ returned /\ 2 * Len(o3queue) > QueueMax
    /\ returned' = FALSE
    /\ UNCHANGED <<o3queue, o3rob, o3rob_head, o3rob_size, events, memreqs, resume_time, nacks,
                   migrate, active, supplied>>

\* The thread blocks or ends: set_active(FALSE), resume_simulation.
Block ==
    /\ returned
    /\ returned' = FALSE /\ active' = FALSE
    /\ UNCHANGED <<o3queue, o3rob, o3rob_head, o3rob_size, events, memreqs, resume_time, nacks,
                   migrate, supplied>>

\* Another core executes a notify.
OtherNotifies ==
    /\ ~migrate /\ \E i \in Instrs : i.kind = "waitfor"
    /\ migrate' = TRUE
    /\ UNCHANGED <<o3queue, o3rob, o3rob_head, o3rob_size, events, memreqs, resume_time, nacks,
                   active, returned, supplied>>

-----------------------------------------------------------------------------
(* O3Core::process_event, one operator for each of its loops.  x holds the *)
(* core's state during the call: q, rob, head, size, events, reqs and the  *)
(* migrate flag.                                                           *)

Slot(x, i)    == (x.head + i) % RobMax            \* the slot of position i
Occupied(x)   == {Slot(x, i) : i \in 0 .. x.size - 1}
Entry(x, i)   == x.rob[Slot(x, i)]
Finished(e)   == e.state = "completed" /\ e.ready <= 0
Unfinished(x) == {i \in 0 .. x.size - 1 : ~Finished(Entry(x, i))}
At(x, t)      == [x EXCEPT !.events = x.events \cup {t}]  \* geq->add_event(now + t)

\* x after n rounds of a loop, F(x, i) being the round of index i.
Repeat(F(_, _), x, n) ==
    LET f[k \in 0 .. n] == IF k = 0 THEN x ELSE F(f[k - 1], k - 1) IN f[n]

\* One pass over the instructions not yet asked for.  addr_to_read = 0 means no
\* line was chosen, and line 0 is that of the synchronisation instructions (ip
\* 0): each one before the first other line is asked for by itself, and that
\* line, with all its instructions, in the same pass.  Equal requests of one
\* moment are one element of reqs: the first answer serves them all.
Fetch(x) ==
    LET new   == {i \in DOMAIN x.q : x.q[i].state = "not_in_queue"}
        far   == {i \in new : x.q[i].ins.line # 0}
        asked == {i \in new : IF x.q[i].ins.line = 0 THEN \A j \in far : i < j
                              ELSE x.q[i].ins.line = x.q[Min(far)].ins.line}
    IN  [x EXCEPT !.q = [i \in DOMAIN x.q |-> IF i \in asked
                            THEN [x.q[i] EXCEPT !.state = "being_loaded"] ELSE x.q[i]],
                  !.reqs = x.reqs \cup {[rob |-> -1, line |-> x.q[i].ins.line,
                                         phase |-> "tlb", at |-> 0] : i \in asked}]

\* The youngest of some positions, as a set of at most one slot.
Youngest(x, is) == IF is = {} THEN {} ELSE {Slot(x, Max(is))}

\* branch_dep and rr0 .. rr3 of an instruction.
RegDep(x, ins) ==
    (UNION {Youngest(x, {i \in Unfinished(x) : r \in Entry(x, i).ins.rw}) : r \in ins.rr})
    \cup Youngest(x, {i \in Unfinished(x) : Entry(x, i).ins.miss})

\* One access of the instruction (k = 0: it has none) takes the next slot.  It
\* also waits for the access before it and for the youngest one of its word.
Filled(ins, k, deps) ==
    [state |-> "issued", ready |-> 1, addr |-> IF k = 0 THEN 0 ELSE ins.mem[k].addr,
     isread |-> k # 0 /\ ins.mem[k].isread, deps |-> deps, ins |-> ins]
InstrDep(y, k) == IF k > 1 THEN {Slot(y, y.size - 1)} ELSE {}
MemDep(y, ins, k) ==
    IF k = 0 THEN {}
    ELSE Youngest(y, {i \in Unfinished(y) : Entry(y, i).addr = ins.mem[k].addr})
FillNoMemDep(y, ins, k, deps) ==        \* a faulty variant: no memory dependence
    [y EXCEPT !.size = y.size + 1,
              !.rob[Slot(y, y.size)] = Filled(ins, k, deps \cup InstrDep(y, k))]
Fill(y, ins, k, deps) ==
    [y EXCEPT !.size = y.size + 1,
              !.rob[Slot(y, y.size)] =
                  Filled(ins, k, deps \cup InstrDep(y, k) \cup MemDep(y, ins, k))]

FillAll(y, ins, deps) == Repeat(LAMBDA z, k : Fill(z, ins, k + 1, deps), y, Len(ins.mem))

\* The fill loop runs once more after the last access and marks the slot
\* behind it as issued.
Stray(y) == [y EXCEPT !.rob[Slot(y, y.size)] =
                [y.rob[Slot(y, y.size)] EXCEPT !.state = "issued", !.ready = 1]]

\* "-3": an instruction takes up to three slots, and Stray writes a fourth.
RoomOffByOne(x) == x.size < RobMax - 2      \* a faulty variant
Room(x) == x.size < RobMax - 3

\* The head of the queue moves to the reorder buffer.
IssueOne(x, n) ==
    IF x.q # <<>> /\ Room(x) /\ Head(x.q).state = "ready" /\ Head(x.q).ready <= 0
    THEN LET ins  == Head(x.q).ins
             deps == RegDep(x, ins)
             y    == At([x EXCEPT !.q = Tail(x.q)], 1)
         IN  IF ins.mem = <<>> THEN Fill(y, ins, 0, deps)
             ELSE Stray(FillAll(y, ins, deps))
    ELSE x

Issue(x) == Repeat(IssueOne, x, IssueWidth)

Latency(ins) == IF ins.kind \in {"x87", "sync"} THEN LongT
                ELSE IF ins.miss THEN MissPenalty + 1 ELSE 1

\* An entry is complete at now + t.
Complete(x, s, t) ==
    At([x EXCEPT !.rob[s] = [x.rob[s] EXCEPT !.state = "completed", !.ready = t]], t)

\* An entry sends its access.
Send(x, s) ==
    [x EXCEPT !.rob[s] = [x.rob[s] EXCEPT !.state = "executing", !.ready = Past],
              !.reqs = x.reqs \cup {[rob |-> s, line |-> 0, phase |-> "tlb", at |-> 0]}]

\* An entry starts: z.x is the core's state, z.n counts the units in use and
\* z.stop ends the loop.
Units == {"alu", "ldst", "ld", "st", "sse"}
Stop(z) == [z EXCEPT !.x = At(z.x, 1), !.stop = TRUE]
Count(z, units) == [z EXCEPT !.n = [u \in Units |-> IF u \in units THEN z.n[u] + 1 ELSE z.n[u]]]

StartAlu(z, s) ==
    LET ins == z.x.rob[s].ins
    IN  IF z.n["alu"] < MaxAlu /\ (ins.kind = "x87" => z.n["sse"] < MaxSse)
        THEN Count([z EXCEPT !.x = Complete(z.x, s, Latency(ins))],
                   IF ins.kind = "x87" THEN {"alu", "sse"} ELSE {"alu"})
        ELSE z

StartMem(z, s) ==
    LET u == IF z.x.rob[s].isread THEN "ld" ELSE "st"
    IN  IF z.n["ldst"] < MaxLdst /\ z.n[u] < (IF u = "ld" THEN MaxLd ELSE MaxSt)
        THEN Count([z EXCEPT !.x = Send(z.x, s)], {"ldst", u})
        ELSE z

\* The round of position i.  Notify and waitfor wait until they are the oldest.
StartEntry(z, i) ==
    LET s      == Slot(z.x, i)
        e      == z.x.rob[s]
        due    == e.state = "issued" /\ e.ready <= 0
        serial == e.ins.kind \in {"notify", "waitfor"}
    IN  IF z.stop THEN z
        ELSE IF due /\ e.ins.kind = "notify" /\ i = 0
        THEN [z EXCEPT !.x = [Complete(z.x, s, LongT) EXCEPT !.migrate = TRUE]]
        ELSE IF due /\ e.ins.kind = "waitfor" /\ i = 0 /\ z.x.migrate
        THEN [z EXCEPT !.x = [Complete(z.x, s, 1) EXCEPT !.migrate = FALSE]]
        ELSE IF due /\ ~serial /\ e.deps = {}
        THEN IF e.addr = 0 THEN StartAlu(z, s) ELSE StartMem(z, s)
        ELSE IF InOrder \/ (due /\ serial) THEN Stop(z) ELSE z

Execute(x) ==
    Repeat(StartEntry, [x |-> x, stop |-> FALSE, n |-> [u \in Units |-> 0]], x.size).x

\* What is finished at this very moment no longer holds up younger entries.
Done(x) == {i \in 0 .. x.size - 1 : Entry(x, i).state = "completed" /\ Entry(x, i).ready = 0}
Released(x) ==
    [x EXCEPT !.rob = [s \in Slots |->
        IF \E j \in 0 .. x.size - 1 : s = Slot(x, j) /\ x.rob[s].state = "issued"
        THEN [x.rob[s] EXCEPT !.deps =
                {d \in x.rob[s].deps : \A i \in Done(x), j \in 0 .. x.size - 1 :
                                          s = Slot(x, j) /\ i < j => d # Slot(x, i)}]
        ELSE x.rob[s]]]
WakeUpQuietly(x) == Released(x)         \* a faulty variant: schedules nothing
WakeUp(x) == IF Done(x) = {} THEN Released(x) ELSE At(Released(x), 1)

CommitOne(x, n) ==
    IF x.size > 0 /\ Finished(x.rob[x.head])
    THEN [x EXCEPT !.rob[x.head] = NoEntry, !.size = x.size - 1, !.head = (x.head + 1) % RobMax]
    ELSE x

\* In order, at most CommitWidth; what is left over schedules the next cycle.
CommitForgets(x) == Repeat(CommitOne, x, CommitWidth)    \* a faulty variant
Commit(x) ==
    LET y == Repeat(CommitOne, x, CommitWidth)
    IN  IF y.size > 0 /\ Finished(y.rob[y.head]) THEN At(y, 1) ELSE y

Core == [q |-> o3queue, rob |-> o3rob, head |-> o3rob_head, size |-> o3rob_size,
         events |-> events \ {0}, reqs |-> memreqs, migrate |-> migrate]

\* The thread of an active core has sent too little: back to the frontend.
NeedsInstrs == active /\ 2 * Len(o3queue) <= QueueMax
AskForInstrs ==
    /\ 0 \in events /\ ~returned /\ NeedsInstrs
    /\ returned' = TRUE
    /\ UNCHANGED <<o3queue, o3rob, o3rob_head, o3rob_size, events, memreqs, resume_time, nacks,
                   migrate, active, supplied>>

Process ==
    /\ 0 \in events /\ ~returned /\ ~NeedsInstrs
    /\ LET y == Commit(WakeUp(Execute(Issue(Fetch(Core)))))
       IN  /\ o3queue' = y.q /\ o3rob' = y.rob /\ o3rob_head' = y.head /\ o3rob_size' = y.size
           /\ events' = y.events /\ memreqs' = y.reqs /\ migrate' = y.migrate
    /\ UNCHANGED <<resume_time, nacks, active, returned, supplied>>

-----------------------------------------------------------------------------
(* add_req_event (instruction side) and add_rep_event (data side).         *)

\* The TLB answers: the access goes on to the L1 cache.
TlbReply(r, t) ==
    /\ r.phase = "tlb"
    /\ resume_time' = t
    /\ memreqs' = (memreqs \ {r}) \cup {[r EXCEPT !.phase = "l1", !.at = t]}
    /\ UNCHANGED <<o3queue, o3rob, o3rob_head, o3rob_size, events, nacks, migrate, active,
                   returned, supplied>>

\* The L1 cache refuses: the access is sent again.
Nack(r, t) ==
    /\ r.phase = "l1" /\ r.at = 0 /\ nacks < MaxNacks
    /\ nacks' = nacks + 1
    /\ resume_time' = t
    /\ memreqs' = (memreqs \ {r}) \cup {[r EXCEPT !.at = t]}
    /\ UNCHANGED <<o3queue, o3rob, o3rob_head, o3rob_size, events, migrate, active, returned,
                   supplied>>

\* The instruction cache delivers a line at t.
Loaded(r, t) ==
    /\ r.phase = "l1" /\ r.at = 0 /\ r.rob = -1
    /\ memreqs' = memreqs \ {r} /\ nacks' = 0
    /\ events' = events \cup {t}
    /\ o3queue' = [i \in DOMAIN o3queue |->
          IF o3queue[i].state = "being_loaded" /\ o3queue[i].ins.line = r.line
          THEN [o3queue[i] EXCEPT !.state = "ready", !.ready = t] ELSE o3queue[i]]
    /\ UNCHANGED <<o3rob, o3rob_head, o3rob_size, resume_time, migrate, active, returned,
                   supplied>>

\* The data cache answers at t: the entry is complete, after a mispredicted
\* branch MissPenalty later.
Accessed(r, t) ==
    LET done == t + (IF o3rob[r.rob].ins.miss THEN MissPenalty ELSE 0)
    IN  /\ r.phase = "l1" /\ r.at = 0 /\ r.rob # -1
        /\ memreqs' = memreqs \ {r} /\ nacks' = 0
        /\ events' = events \cup {t, done}
        /\ o3rob' = [o3rob EXCEPT ![r.rob] =
                        [o3rob[r.rob] EXCEPT !.state = "completed", !.ready = done]]
        /\ UNCHANGED <<o3queue, o3rob_head, o3rob_size, resume_time, migrate, active, returned,
                       supplied>>

-----------------------------------------------------------------------------
\* GlobalEventQueue: the next moment, once nothing is left for this one.
Earlier(t) == IF t = Past THEN Past ELSE t - 1
Pass ==
    /\ events' = {t - 1 : t \in events}
    /\ o3queue' = [i \in DOMAIN o3queue |->
                      [o3queue[i] EXCEPT !.ready = Earlier(o3queue[i].ready)]]
    /\ o3rob' = [s \in Slots |-> [o3rob[s] EXCEPT !.ready = Earlier(o3rob[s].ready)]]
    /\ memreqs' = {[r EXCEPT !.at = IF r.at > 0 THEN r.at - 1 ELSE 0] : r \in memreqs}
    /\ resume_time' = Earlier(resume_time)
    /\ UNCHANGED <<o3rob_head, o3rob_size, nacks, migrate, active, returned, supplied>>
TickPastEvents == Pass                  \* a faulty variant: time goes on past an event
Tick == 0 \notin events /\ Pass

Answers == \E r \in memreqs, t \in 0 .. MaxLat : TlbReply(r, t) \/ Loaded(r, t) \/ Accessed(r, t)

Next ==
    \/ \E ins \in Instrs : Wake(ins) \/ Supply(ins)
    \/ Resume \/ Block \/ OtherNotifies
    \/ AskForInstrs \/ Process \/ Tick
    \/ \E r \in memreqs, t \in 0 .. MaxLat :
          TlbReply(r, t) \/ Nack(r, t) \/ Loaded(r, t) \/ Accessed(r, t)

Spec == Init /\ [][Next]_vars

\* The event queue runs what it holds and time goes on, TLBs and caches answer,
\* other cores notify, and a thread that is asked for instructions sends them or
\* blocks.  For Process the weak fairness is written out: it is enabled
\* whenever its guard holds.
Fairness ==
    /\ []<>~(0 \in events /\ ~returned /\ ~NeedsInstrs) \/ []<><<Process>>_vars
    /\ WF_vars(AskForInstrs) /\ WF_vars(Tick) /\ WF_vars(Answers)
    /\ WF_vars(OtherNotifies) /\ WF_vars(Resume \/ Block)
FairSpec == Spec /\ Fairness

-----------------------------------------------------------------------------
Entries ==
    [state : {"invalid", "issued", "executing", "completed"}, ready : Times,
     addr : Nat, isread : BOOLEAN, deps : SUBSET Slots, ins : Instrs \cup {NoIns}]
QEntries == [state : {"not_in_queue", "being_loaded", "ready"}, ready : Times, ins : Instrs]
Requests == [rob : Slots \cup {-1}, line : Nat, phase : {"tlb", "l1"}, at : 0 .. MaxLat]

\* Types: the ring indices stay in the reorder buffer, no event is in the past
\* and nothing completes later than the longest latency allows.
TypeOK ==
    /\ o3queue \in Seq(QEntries) /\ Len(o3queue) <= QueueMax
    /\ o3rob \in [Slots -> Entries] /\ o3rob_head \in Slots /\ o3rob_size \in 0 .. RobMax
    /\ events \subseteq Times \ {Past}
    /\ memreqs \subseteq Requests
    /\ resume_time \in Past .. MaxLat /\ nacks \in 0 .. MaxNacks
    /\ migrate \in BOOLEAN /\ active \in BOOLEAN /\ returned \in BOOLEAN
    /\ supplied \in 0 .. MaxInstrs

\* No lost wakeup: while the core holds instructions, an event for it is
\* scheduled or an access of it is under way.
NoLostWakeup == o3queue # <<>> \/ o3rob_size > 0 => events # {} \/ memreqs # {}

\* Slot numbers stay true: a data request in flight names an executing entry and
\* every executing entry has one, although slots are reused and the fill loop
\* writes one slot too many; every instruction that waits for its line has a
\* fetch of that line under way.
RequestsMatch ==
    /\ \A s \in Slots :
          (s \in Occupied(Core) /\ o3rob[s].state = "executing")
          <=> Cardinality({r \in memreqs : r.rob = s}) = 1
    /\ \A i \in DOMAIN o3queue : o3queue[i].state = "being_loaded" =>
          \E r \in memreqs : r.rob = -1 /\ r.line = o3queue[i].ins.line

\* Position j of the reorder buffer needs the older position i: a mispredicted
\* branch, an access of the same word, or the last writer of a register it reads.
Needs(x, j, i) ==
    LET o == Entry(x, i)
        e == Entry(x, j)
    IN  \/ o.ins.miss
        \/ o.addr # 0 /\ o.addr = e.addr
        \/ \E r \in e.ins.rr \cap o.ins.rw :
              \A k \in i + 1 .. j - 1 : r \notin Entry(x, k).ins.rw

\* Out of order, but not out of dependence: an entry has started only if every
\* older one it needs is finished.
ProgramOrder ==
    \A j \in 0 .. o3rob_size - 1 : \A i \in 0 .. j - 1 :
        Entry(Core, j).state \in {"executing", "completed"} /\ Needs(Core, j, i)
        => Finished(Entry(Core, i))

\* Every instruction commits in the end.
Drains == (o3queue # <<>> \/ o3rob_size > 0) ~> (o3queue = <<>> /\ o3rob_size = 0)

=============================================================================
