--------------------------- MODULE EEPthreadProofs ---------------------------
(***************************************************************************)
(* Proofs about EEPthread for the programs its scheduler can serve: who    *)
(* runs, where the blocked threads are, who holds the mutexes, and the     *)
(* theorems.  Such a program creates no thread after another ended         *)
(* (finding 2 of the README: the hardware thread would be handed out       *)
(* twice) and cancels no blocked thread (its queue would keep a thread     *)
(* that no longer exists).                                                 *)
(*                                                                         *)
(* SchedInv is inductive by itself.  JoinInv, PlaceInv and NoAssert need   *)
(* each other: that an UnblockThread finds its thread blocked is known     *)
(* from the queue the thread is taken from, and that the queues hold the   *)
(* blocked threads and no others is only true as long as no assertion      *)
(* failed half-way.                                                        *)
(*                                                                         *)
(* Ownership is not inductive.  A thread that unlocks a mutex passes it to *)
(* the head of the queue, and that this thread will believe it holds the   *)
(* mutex, and no other, is what QueueMarks says.  That it has not executed *)
(* since it blocked is MarkInv; that a new thread holds nothing is Fresh;  *)
(* that the last unlock of a plain mutex frees it is Counts.               *)
(***************************************************************************)
EXTENDS EEPthreadBase

\* The programs the scheduler serves: no thread is created after another ended,
\* and no blocked thread is canceled.
Regular == ~CreateAfterExit /\ ~CancelBlocked

\* pthread ids, hardware threads and cores coincide, and the current thread is
\* one the scheduler may run.
SchedInv ==
    /\ newId <= NumHthreads
    /\ \A t \in Threads : t < newId => hth[t] = t
    /\ \A h \in Hths : slot[h] = IF h < newId THEN h ELSE NoThread
    /\ coreActive = active
    /\ halted = "no" => current \in active /\ current \in started
    /\ halted = "deadlock" => active = {}
    /\ halted # "astray"

\* What a thread can wait on, and the queue of each.
Objects == Mutexes \cup Conds \cup Barriers
QueueOf(mu, wa, ba) ==
    [x \in Objects |-> IF x \in Mutexes THEN mu[x].spin
                       ELSE IF x \in Conds THEN [i \in 1 .. Len(wa[x]) |-> wa[x][i].th]
                       ELSE ba[x].waiters]
Queue == QueueOf(mutex, waiters, barrier)
\* No thread stands in two places; thread t stands in one.
OneSpot(q) ==
    \A x, y \in Objects : \A i \in 1 .. Len(q[x]), j \in 1 .. Len(q[y]) :
        q[x][i] = q[y][j] => x = y /\ i = j
In(q, t) == \E x \in Objects : \E i \in 1 .. Len(q[x]) : q[x][i] = t

\* The tables of PthreadJoinManager: they mirror each other, a joiner is blocked,
\* and a joinee's state tells whether it has ended.
JoinInv ==
    halted \in {"no", "deadlock"} => \A t \in Threads :
        /\ \A j \in Threads : /\ joinables[t].joiner = j <=> joinings[j] = t
                              /\ joinables[t].joiner = j => j \in live \ active
        /\ joinables[t].st = "run" => t \in live
        /\ joinables[t].st = "done" => t \notin live
        /\ joinables[t].joiner # NoThread => joinables[t].st = "run"

\* t is blocked in a call; t empties the barrier it was the last to reach and
\* still stands in; t stands in a queue somebody else will empty.
Waits(t) == t \in live \ active /\ onReturn[t] # "yield"
Empties(t) == releasing \in Barriers /\ t = current
Queued(t) == In(Queue, t) /\ ~Empties(t)
\* The threads blocked in a call are those in a queue or in a join, in one place
\* only; the thread that empties a barrier is the last in its queue.
PlaceInv ==
    halted = "no" =>
        /\ OneSpot(Queue)
        /\ \A t \in Threads :
              /\ Waits(t) <=> Queued(t) \/ joinings[t] # NoThread
              /\ In(Queue, t) => joinings[t] = NoThread
        /\ releasing \in Barriers =>
              LET q == barrier[releasing].waiters IN q[Len(q)] = current

\* No assertion of the scheduler failed.
NoAssert == halted # "assert"

\* The scheduler between two handlers of such a program.
SchedOK == BaseInv /\ CountInv /\ SchedInv

-----------------------------------------------------------------------------
\* The timing model names an active thread, and it is switched to.
LEMMA ResumeRight ==
    ASSUME BaseInv, NEW alive, NEW cores \in SUBSET alive, NEW na, NEW exec,
           \A h \in cores : slot[h] = h,
           Resume(alive, cores, na, exec, TRUE)
    PROVE  \/ /\ cores = {} /\ halted' = "nocore" /\ executed' = exec
              /\ UNCHANGED <<current, started>>
           \/ /\ current' \in cores /\ current' \in started' /\ started \subseteq started'
              /\ UNCHANGED halted
              /\ current \notin cores => executed' = exec
  BY DEF Resume

\* In a regular program the threads have hardware threads of their own.
LEMMA Placed ==
    ASSUME SchedOK
    PROVE  /\ live \subseteq Hths /\ live \subseteq Threads /\ active \subseteq live
           /\ \A t \in live : hth[t] = t /\ slot[t] = t
           /\ newId \in Nat /\ newId \notin live
  BY EEPthreadAssumption DEF SchedOK, BaseInv, Types, CountInv, SchedInv, Hths, Threads

\* What BlockThread does when none of its assertions fails.
LEMMA BlockEffect ==
    ASSUME SchedOK, Runs, NEW ws \in SUBSET Threads, Waking(ws), NEW m, NEW h,
           BlockThread(ws, m, h), UNCHANGED <<live, newId, hth, slot>>
    PROVE  /\ active' = (active \cup ws) \ {current} /\ coreActive' = active'
           /\ held' = h /\ onReturn' = [onReturn EXCEPT ![current] = m]
           /\ \/ /\ halted' = "no" /\ executed' = executed \ {current}
                 /\ current' \in active' /\ current' \in started'
              \/ /\ halted' = "deadlock" /\ active' = {}
                 /\ UNCHANGED <<executed, current>>
  <1> DEFINE na    == nactive + Cardinality(ws) - 1
             cores == (coreActive \cup (ws \cap Hths)) \ {current}
  <1>1. halted = "no" /\ current \in active /\ current \in executed
    BY DEF Runs, SchedOK, SchedInv
  <1>2. /\ active' = (active \cup ws) \ {current} /\ nactive' = na /\ coreActive' = cores
        /\ IF na > 0
           THEN Resume(live, cores, na, executed \ {current}, TRUE)
           ELSE halted' = "deadlock" /\ UNCHANGED <<executed, current, started>>
        /\ IF na > 0 /\ current \in executed'
           THEN held' = Gain(h, current, m) /\ UNCHANGED onReturn
           ELSE held' = h /\ onReturn' = [onReturn EXCEPT ![current] = m]
    BY <1>1 DEF BlockThread
  <1>3. cores = active' /\ cores \in SUBSET live /\ current \notin cores
        /\ \A x \in cores : slot[x] = x
    BY <1>2, Placed DEF Waking, SchedOK, SchedInv
  <1>4. na = Cardinality(active') /\ na \in Nat /\ active' \subseteq Threads
    <2>1. active \cup ws \in SUBSET Threads /\ current \in active \cup ws
          /\ active \cap ws = {} /\ active \in SUBSET Threads
      BY <1>1, Placed DEF Waking
    <2>2. Cardinality(active') = Cardinality(active \cup ws) - 1
      BY <1>2, <2>1, CardinalityLess
    <2>3. Cardinality(active \cup ws) = nactive + Cardinality(ws)
      BY <2>1, CardinalityAdds DEF SchedOK, CountInv
    <2>4. active' \subseteq Threads /\ Cardinality(active') \in Nat
      BY <1>2, <2>1, ThreadsFinite
    <2>5. Cardinality(ws) \in Nat /\ nactive \in Int
      BY ThreadsFinite DEF SchedOK, BaseInv, Types
    <2> QED BY <2>2, <2>3, <2>4, <2>5
  <1>5. CASE na > 0
    <2>1. Resume(live, cores, na, executed \ {current}, TRUE)
      BY <1>2, <1>5
    <2>2. active' # {}
      <3>1. Cardinality({}) = 0 /\ Cardinality(active') # 0
        BY <1>4, <1>5, FS_EmptySet
      <3> QED BY <3>1, Zenon
    <2> HIDE DEF na, cores
    <2>3. /\ current' \in cores /\ current' \in started' /\ UNCHANGED halted
          /\ executed' = executed \ {current}
      BY <1>3, <2>1, <2>2, ResumeRight DEF SchedOK
    <2> QED BY <1>1, <1>2, <1>3, <2>3
  <1>6. CASE ~(na > 0)
    <2>1. active' = {}
      <3>1. Cardinality(active') = 0 /\ IsFiniteSet(active')
        BY <1>4, <1>6, ThreadsFinite
      <3> QED BY <3>1, FS_EmptySet
    <2> QED BY <1>2, <1>3, <1>6, <2>1
  <1> QED BY <1>4, <1>5, <1>6

\* Every step keeps the scheduler's tables in order.
LEMMA SchedNext ==
    ASSUME Regular, SchedOK, [Next]_vars PROVE SchedInv'
  <1>1. /\ newId <= NumHthreads /\ coreActive = active /\ newId \in Nat
        /\ \A t \in Threads : t < newId => hth[t] = t
        /\ \A h \in Hths : slot[h] = IF h < newId THEN h ELSE NoThread
        /\ halted = "no" => current \in active /\ current \in started
        /\ halted = "deadlock" => active = {}
        /\ halted # "astray"
    BY DEF SchedOK, SchedInv, BaseInv, Types
  <1>2. CASE /\ UNCHANGED <<live, active, nactive, newId, hth, slot, coreActive,
                            current, started>>
             /\ halted' \in {halted, "unsupported", "end", "assert"}
    BY <1>1, <1>2 DEF SchedInv
  <1>3. CASE ProcessIns
    <2>1. /\ UNCHANGED <<live, active, nactive, newId, hth, slot, coreActive>>
          /\ halted = "no"
          /\ \E exec : Resume(live, coreActive, nactive, exec, FALSE)
      BY <1>3 DEF ProcessIns, Runs
    <2>2. PICK exec : Resume(live, coreActive, nactive, exec, FALSE)
      BY <2>1
    <2>3. current \in active /\ current \in started
      BY <1>1, <2>1
    <2>4. PICK h \in coreActive :
             LET next == slot[h]
                 same == next = current /\ next \in live \cap started
                 goes == next \in live /\ (FALSE \/ nactive > 1)
             IN  /\ current' = IF goes THEN next ELSE current
                 /\ started' = IF goes THEN started \cup {next} ELSE started
                 /\ halted' = IF same \/ goes THEN halted ELSE "astray"
      BY <1>1, <2>2, <2>3 DEF Resume
    <2>5. slot[h] = h /\ h \in active /\ h \in live
      BY <1>1, <2>4, Placed
    <2>6. CASE nactive > 1
      <3>1. current' = h /\ started' = started \cup {h} /\ halted' = halted
        BY <2>4, <2>5, <2>6
      <3> QED BY <1>1, <2>1, <2>5, <3>1 DEF SchedInv
    <2>7. CASE ~(nactive > 1)
      <3>1. h = current
        <4>1. active \in SUBSET Threads /\ current \in active /\ h \in active
          BY <2>3, <2>5, Placed
        <4>2. nactive = Cardinality(active) /\ nactive \in Nat
          BY <4>1, ThreadsFinite DEF SchedOK, CountInv
        <4>3. Cardinality(active \ {current}) = nactive - 1
              /\ Cardinality(active \ {current}) \in Nat /\ IsFiniteSet(active \ {current})
          BY <4>1, <4>2, CardinalityLess, ThreadsFinite
        <4>4. active \ {current} = {}
          <5>1. Cardinality(active \ {current}) = 0
            BY <2>7, <4>2, <4>3
          <5> QED BY <4>3, <5>1, FS_EmptySet
        <4> QED BY <4>1, <4>4
      <3>2. current' = current /\ started' = started /\ halted' = halted
        BY <2>3, <2>4, <2>5, <2>7, <3>1, Placed
      <3> QED BY <1>1, <2>1, <3>2 DEF SchedInv
    <2> QED BY <2>6, <2>7
  <1>4. ASSUME NEW ws \in SUBSET Threads, Wakes(ws)
        PROVE  SchedInv'
    <2>1. CASE Waking(ws)
      <3>1. active' = active \cup ws /\ coreActive' = coreActive \cup (ws \cap Hths)
            /\ ws \subseteq live /\ UNCHANGED halted
        BY <1>4, <2>1 DEF Wakes, Wake, Waking
      <3>2. coreActive' = active'
        BY <1>1, <3>1, Placed
      <3> QED BY <1>1, <1>4, <3>1, <3>2 DEF Wakes, SchedInv
    <2>2. CASE ~Waking(ws)
      BY <1>1, <1>4, <2>2 DEF Wakes, Wake, SchedInv
    <2> QED BY <2>1, <2>2
  <1>5. ASSUME NEW ws \in SUBSET Threads, NEW m, NEW h,
               BlockThread(ws, m, h), Runs, UNCHANGED <<live, newId, hth, slot>>
        PROVE  SchedInv'
    <2>1. CASE Waking(ws)
      BY <1>1, <1>5, <2>1, BlockEffect DEF SchedInv
    <2>2. CASE ~Waking(ws)
      BY <1>1, <1>5, <2>2 DEF BlockThread, SchedInv
    <2> QED BY <2>1, <2>2
  <1>6. ASSUME NEW j \in BOOLEAN, PthreadCreate(j) PROVE SchedInv'
    <2> DEFINE i == Cardinality(live)
    <2>1. CASE Stop("unsupported")
      BY <1>1, <2>1 DEF Stop, sched, SchedInv
    <2>2. CASE ~(i + 1 > NumHthreads)
      <3>1. i = newId /\ newId < MaxThreads /\ newId + 1 <= NumHthreads
        <4>1. i = newId /\ newId < MaxThreads
          BY <1>6 DEF PthreadCreate, Regular
        <4> QED BY <1>1, <2>2, <4>1, EEPthreadAssumption
      <3>2. /\ active' = active \cup {newId} /\ newId' = newId + 1
            /\ slot' = [h \in Hths |-> CASE h < i -> slot[h]
                                         [] h = i -> newId
                                         [] OTHER -> slot[h - 1]]
            /\ hth' = [hth EXCEPT ![newId] = i]
            /\ coreActive' = coreActive \cup {i}
            /\ UNCHANGED <<started, current, halted>> /\ halted = "no"
        BY <1>6, <2>2 DEF PthreadCreate, Runs
      <3> HIDE DEF i
      <3>3. newId \in Threads /\ hth \in [Threads -> Hths]
        BY <1>1, <3>1, EEPthreadAssumption DEF Threads, SchedOK, BaseInv, Types
      <3>4. \A t \in Threads : t < newId' => hth'[t] = t
        BY <1>1, <3>1, <3>2, <3>3 DEF Threads
      <3>5. ASSUME NEW h \in Hths PROVE slot'[h] = IF h < newId' THEN h ELSE NoThread
        <4>1. h \in Nat
          BY EEPthreadAssumption DEF Hths
        <4>2. CASE h < newId
          BY <1>1, <3>1, <3>2, <4>1, <4>2
        <4>3. CASE h = newId
          BY <1>1, <3>1, <3>2, <4>1, <4>3
        <4>4. CASE h > newId
          <5>1. slot'[h] = slot[h - 1]
            BY <1>1, <3>1, <3>2, <4>1, <4>4
          <5>2. h - 1 \in Hths /\ ~(h - 1 < newId)
            BY <1>1, <4>1, <4>4, EEPthreadAssumption DEF Hths
          <5> QED BY <1>1, <3>2, <4>1, <4>4, <5>1, <5>2
        <4> QED BY <1>1, <4>1, <4>2, <4>3, <4>4
      <3> QED BY <1>1, <3>1, <3>2, <3>4, <3>5 DEF SchedInv
    <2> QED BY <1>6, <2>1, <2>2 DEF PthreadCreate
  <1>7. ASSUME NEW t \in live, Kills(t), halted = "no"
        PROVE  /\ coreActive' = active' /\ active' \subseteq live'
               /\ live' \subseteq live /\ \A x \in active' : slot[x] = x
    <2>1. /\ live' = live \ {t} /\ active' = (active \cup JoinerOf(t)) \ {t}
          /\ coreActive' = (coreActive \cup (JoinerOf(t) \cap Hths)) \ {hth[t]}
          /\ JoinerOf(t) \subseteq live
      BY <1>7 DEF Kills, KillThread, Waking
    <2> QED BY <1>1, <2>1, Placed
  <1>8. ASSUME Runs, current \in active, Kills(current),
               Resume(live', coreActive', nactive', executed \ {current}, TRUE)
        PROVE  SchedInv'
    <2>1. halted = "no" /\ current \in live /\ UNCHANGED <<newId, hth, slot>>
      BY <1>8, Placed DEF Runs, Kills
    <2>2. /\ coreActive' = active' /\ coreActive' \in SUBSET live'
          /\ \A x \in coreActive' : slot[x] = x
      BY <1>7, <1>8, <2>1
    <2>3. \/ halted' = "nocore"
          \/ current' \in active' /\ current' \in started' /\ UNCHANGED halted
      BY <1>8, <2>2, ResumeRight DEF SchedOK
    <2> QED BY <1>1, <2>1, <2>2, <2>3 DEF SchedInv
  <1>9. ASSUME NEW t \in live, t # current, t \in active, Kills(t),
               UNCHANGED <<started, current, halted>>, halted = "no"
        PROVE  SchedInv'
    <2>1. coreActive' = active' /\ UNCHANGED <<newId, hth, slot>>
      BY <1>7, <1>9 DEF Kills
    <2>2. current \in active'
      BY <1>1, <1>9 DEF Kills, KillThread
    <2> QED BY <1>1, <1>9, <2>1, <2>2 DEF SchedInv
  <1> QED BY <1>2, <1>3, <1>4, <1>5, <1>6, <1>8, <1>9, SchedFrame DEF SchedOK, Regular

\* The scheduler's tables are in order in every reachable state.
LEMMA SchedCorrect == ASSUME Regular PROVE Spec => []SchedOK
  <1>1. Init => SchedInv
    BY EEPthreadAssumption DEF Init, SchedInv, Threads, Hths
  <1>2. SchedOK /\ [Next]_vars => SchedOK'
    BY BaseNext, CountNext, SchedNext DEF SchedOK, Regular
  <1> QED BY <1>1, <1>2, BaseInit, CountInit, PTL DEF Spec, SchedOK

\* In a regular program the thread that executes is live and active, its core
\* is active, and no core of a blocked or ended thread is.
THEOREM CurrentRuns == ASSUME Regular PROVE Spec => []CurrentMayRun
  <1>1. ASSUME SchedOK PROVE CurrentMayRun
    <2>1. coreActive = {hth[t] : t \in active}
      <3>1. coreActive = active /\ \A t \in active : hth[t] = t
        BY <1>1, Placed DEF SchedOK, SchedInv
      <3> QED BY <3>1
    <2>2. halted = "no" => current \in active /\ current \in started /\ slot[hth[current]] = current
      BY <1>1, Placed DEF SchedOK, SchedInv
    <2> QED BY <2>1, <2>2 DEF CurrentMayRun
  <1> QED BY <1>1, SchedCorrect, PTL

-----------------------------------------------------------------------------
(* The queues.                                                             *)

\* The type of Queue.
Queues == [Objects -> Seq(Threads)]

\* One thread more at the end of the queue of x, one less at its head.
Pushed(q, r, x, t) ==
    r[x] = Append(q[x], t) /\ \A y \in Objects \ {x} : r[y] = q[y]
Popped(q, r, x) ==
    q[x] # <<>> /\ r[x] = Tail(q[x]) /\ \A y \in Objects \ {x} : r[y] = q[y]

\* A thread that stood nowhere joins a queue: it still stands in one place.
LEMMA PushLemma ==
    ASSUME NEW q \in Queues, NEW r \in Queues, NEW x \in Objects, NEW t \in Threads,
           OneSpot(q), ~In(q, t), Pushed(q, r, x, t)
    PROVE  OneSpot(r) /\ \A u \in Threads : In(r, u) <=> In(q, u) \/ u = t
  <1>1. /\ Len(r[x]) = Len(q[x]) + 1 /\ Len(q[x]) \in Nat
        /\ \A i \in 1 .. Len(r[x]) : r[x][i] = IF i <= Len(q[x]) THEN q[x][i] ELSE t
    <2>1. q[x] \in Seq(Threads)
      BY DEF Queues
    <2> QED BY <2>1 DEF Pushed
  <1>2. \A y \in Objects \ {x} : r[y] = q[y]
    BY DEF Pushed
  <1>3. ASSUME NEW y \in Objects, NEW i \in 1 .. Len(r[y])
        PROVE  \/ i \in 1 .. Len(q[y]) /\ r[y][i] = q[y][i]
               \/ y = x /\ i = Len(q[x]) + 1 /\ r[y][i] = t
    BY <1>1, <1>2, <1>3
  <1>4. ASSUME NEW y \in Objects, NEW i \in 1 .. Len(q[y])
        PROVE  i \in 1 .. Len(r[y]) /\ r[y][i] = q[y][i]
    BY <1>1, <1>2, <1>4
  <1>5. OneSpot(r)
    <2> SUFFICES ASSUME NEW y \in Objects, NEW z \in Objects, NEW i \in 1 .. Len(r[y]),
                        NEW j \in 1 .. Len(r[z]), r[y][i] = r[z][j]
                 PROVE  y = z /\ i = j
      BY DEF OneSpot
    <2>1. \A w \in Objects : \A k \in 1 .. Len(q[w]) : q[w][k] # t
      BY DEF In
    <2>2. CASE i \in 1 .. Len(q[y]) /\ r[y][i] = q[y][i] /\ j \in 1 .. Len(q[z]) /\ r[z][j] = q[z][j]
      <3>1. /\ y \in Objects /\ z \in Objects /\ i \in 1 .. Len(q[y]) /\ j \in 1 .. Len(q[z])
            /\ q[y][i] = q[z][j]
        BY <2>2, Zenon
      <3>2. OneSpot(q)
        OBVIOUS
      <3> QED BY ONLY <3>1, <3>2, Zenon DEF OneSpot
    <2> QED BY <1>3, <2>1, <2>2
  <1>6. ASSUME NEW u \in Threads PROVE In(r, u) <=> In(q, u) \/ u = t
    <2>1. In(r, u) => In(q, u) \/ u = t
      BY <1>3 DEF In
    <2>2. In(q, u) => In(r, u)
      BY <1>4 DEF In
    <2>3. In(r, t)
      <3>1. Len(r[x]) \in 1 .. Len(r[x]) /\ r[x][Len(r[x])] = t
        BY <1>1
      <3> QED BY <3>1 DEF In
    <2> QED BY <2>1, <2>2, <2>3
  <1> QED BY <1>5, <1>6

\* The head leaves a queue: it stands nowhere now.
LEMMA PopLemma ==
    ASSUME NEW q \in Queues, NEW r \in Queues, NEW x \in Objects,
           OneSpot(q), Popped(q, r, x)
    PROVE  /\ OneSpot(r) /\ Head(q[x]) \in Threads /\ In(q, Head(q[x]))
           /\ \A u \in Threads : In(r, u) <=> In(q, u) /\ u # Head(q[x])
  <1>1. /\ Len(r[x]) = Len(q[x]) - 1 /\ Len(q[x]) \in Nat /\ Len(q[x]) >= 1
        /\ \A i \in 1 .. Len(r[x]) : r[x][i] = q[x][i + 1]
        /\ Head(q[x]) = q[x][1] /\ Head(q[x]) \in Threads
    <2>1. q[x] \in Seq(Threads) /\ q[x] # <<>>
      BY DEF Queues, Popped
    <2>2. Len(q[x]) \in Nat \ {0}
      BY <2>1, EmptySeq
    <2> QED BY <2>1, <2>2, HeadTailProperties DEF Popped
  <1>2. \A y \in Objects \ {x} : r[y] = q[y]
    BY DEF Popped
  <1> DEFINE Up(y, i) == IF y = x THEN i + 1 ELSE i
  <1>3. ASSUME NEW y \in Objects, NEW i \in 1 .. Len(r[y])
        PROVE  /\ Up(y, i) \in 1 .. Len(q[y]) /\ r[y][i] = q[y][Up(y, i)]
               /\ y = x => Up(y, i) # 1
    BY <1>1, <1>2, <1>3
  <1>4. \A y \in Objects : \A i \in 1 .. Len(q[y]) : q[y][i] = q[x][1] => y = x /\ i = 1
    <2>1. 1 \in 1 .. Len(q[x])
      BY <1>1
    <2> QED BY <2>1 DEF OneSpot
  <1>5. OneSpot(r)
    <2> SUFFICES ASSUME NEW y \in Objects, NEW z \in Objects, NEW i \in 1 .. Len(r[y]),
                        NEW j \in 1 .. Len(r[z]), r[y][i] = r[z][j]
                 PROVE  y = z /\ i = j
      BY DEF OneSpot
    <2>1. /\ Up(y, i) \in 1 .. Len(q[y]) /\ Up(z, j) \in 1 .. Len(q[z])
          /\ q[y][Up(y, i)] = q[z][Up(z, j)]
      BY <1>3
    <2> HIDE DEF Up
    <2>2. y = z /\ Up(y, i) = Up(z, j)
      BY <2>1, Zenon DEF OneSpot
    <2> QED BY <2>2 DEF Up
  <1>6. In(q, Head(q[x]))
    <2>1. 1 \in 1 .. Len(q[x])
      BY <1>1
    <2> QED BY <1>1, <2>1 DEF In
  <1>7. ASSUME NEW u \in Threads PROVE In(r, u) <=> In(q, u) /\ u # Head(q[x])
    <2>1. ASSUME In(r, u) PROVE In(q, u) /\ u # Head(q[x])
      <3>1. PICK y \in Objects : \E k \in 1 .. Len(r[y]) : r[y][k] = u
        BY <2>1 DEF In
      <3> PICK i \in 1 .. Len(r[y]) : r[y][i] = u
        BY <3>1
      <3>2. Up(y, i) \in 1 .. Len(q[y]) /\ q[y][Up(y, i)] = u /\ (y = x => Up(y, i) # 1)
        BY <1>3, <3>1
      <3> HIDE DEF Up
      <3> QED BY <1>1, <1>4, <3>2 DEF In
    <2>2. ASSUME In(q, u), u # Head(q[x]) PROVE In(r, u)
      <3>1. PICK y \in Objects : \E k \in 1 .. Len(q[y]) : q[y][k] = u
        BY <2>2 DEF In
      <3> PICK i \in 1 .. Len(q[y]) : q[y][i] = u
        BY <3>1
      <3>2. CASE y # x
        BY <1>2, <3>1, <3>2 DEF In
      <3>3. CASE y = x
        <4>1. i # 1
          BY <1>1, <2>2, <3>1, <3>3
        <4>2. i - 1 \in 1 .. Len(r[x]) /\ r[x][i - 1] = u
          BY <1>1, <3>1, <3>3, <4>1
        <4> QED BY <4>2 DEF In
      <3> QED BY <3>2, <3>3
    <2> QED BY <2>1, <2>2
  <1> QED BY <1>1, <1>5, <1>6, <1>7

\* The tables of the three managers.
MutexMap   == [Mutexes -> MutexType]
WaiterMap  == [Conds -> Seq([th : Threads, mx : Mutexes])]
BarrierMap == [Barriers -> BarrierType]

\* What the queue of a mutex, a condition variable and a barrier is.
LEMMA QueueFacts ==
    ASSUME NEW mu \in MutexMap, NEW wa \in WaiterMap, NEW ba \in BarrierMap
    PROVE  LET q == QueueOf(mu, wa, ba)
           IN  /\ q \in Queues
               /\ \A m \in Mutexes : m \in Objects /\ q[m] = mu[m].spin
               /\ \A b \in Barriers : b \in Objects /\ q[b] = ba[b].waiters
               /\ \A c \in Conds : /\ c \in Objects /\ Len(q[c]) = Len(wa[c])
                                   /\ \A i \in 1 .. Len(wa[c]) : q[c][i] = wa[c][i].th
  <1> DEFINE q == QueueOf(mu, wa, ba)
  <1>1. \A m \in Mutexes : m \in Objects /\ q[m] = mu[m].spin /\ q[m] \in Seq(Threads)
    BY DEF QueueOf, Objects, MutexMap, MutexType
  <1>2. \A b \in Barriers : b \in Objects /\ q[b] = ba[b].waiters /\ q[b] \in Seq(Threads)
    BY EEPthreadAssumption DEF QueueOf, Objects, BarrierMap, BarrierType
  <1>3. ASSUME NEW c \in Conds
        PROVE  /\ c \in Objects /\ Len(q[c]) = Len(wa[c]) /\ q[c] \in Seq(Threads)
               /\ \A i \in 1 .. Len(wa[c]) : q[c][i] = wa[c][i].th
    <2>1. c \in Objects /\ q[c] = [i \in 1 .. Len(wa[c]) |-> wa[c][i].th]
      BY EEPthreadAssumption DEF QueueOf, Objects
    <2>2. wa[c] \in Seq([th : Threads, mx : Mutexes])
      BY DEF WaiterMap
    <2>3. Len(wa[c]) \in Nat /\ \A i \in 1 .. Len(wa[c]) : wa[c][i].th \in Threads
      <3>1. \A i \in 1 .. Len(wa[c]) : wa[c][i] \in [th : Threads, mx : Mutexes]
        BY <2>2, ElementOfSeq
      <3>2. \A w \in [th : Threads, mx : Mutexes] : w.th \in Threads
        OBVIOUS
      <3> QED BY <2>2, <3>1, <3>2, LenProperties
    <2>4. q[c] \in [1 .. Len(wa[c]) -> Threads]
      BY <2>1, <2>3
    <2>5. q[c] \in Seq(Threads) /\ Len(q[c]) = Len(wa[c])
      BY <2>3, <2>4
    <2> QED BY <2>1, <2>5
  <1>4. q \in Queues
    <2>1. \A x \in Objects : q[x] \in Seq(Threads)
      BY <1>1, <1>2, <1>3 DEF Objects
    <2>2. q = [x \in Objects |-> q[x]]
      BY DEF QueueOf
    <2> HIDE DEF q
    <2> QED BY <2>1, <2>2 DEF Queues
  <1> QED BY <1>1, <1>2, <1>3, <1>4

\* A mutex gains or loses a spinning thread: so does its queue.
LEMMA SpinQueue ==
    ASSUME NEW mu \in MutexMap, NEW nu \in MutexMap, NEW wa \in WaiterMap,
           NEW ba \in BarrierMap, NEW m \in Mutexes, \A n \in Mutexes \ {m} : nu[n] = mu[n]
    PROVE  LET q == QueueOf(mu, wa, ba)
               r == QueueOf(nu, wa, ba)
           IN  /\ \A t : nu[m].spin = Append(mu[m].spin, t) => Pushed(q, r, m, t)
               /\ mu[m].spin # <<>> /\ nu[m].spin = Tail(mu[m].spin) => Popped(q, r, m)
               /\ nu[m].spin = mu[m].spin => r = q
  <1> DEFINE q == QueueOf(mu, wa, ba)
             r == QueueOf(nu, wa, ba)
  <1>1. q[m] = mu[m].spin /\ r[m] = nu[m].spin
    BY DEF QueueOf, Objects
  <1>2. \A y \in Objects \ {m} : r[y] = q[y]
    BY DEF QueueOf, Objects
  <1>3. (\A y \in Objects : r[y] = q[y]) => r = q
    BY DEF QueueOf
  <1> HIDE DEF q, r
  <1> QED BY <1>1, <1>2, <1>3 DEF Pushed, Popped, q, r

\* The same for a barrier.
LEMMA BarrierSteps ==
    ASSUME NEW mu \in MutexMap, NEW wa \in WaiterMap, NEW ba \in BarrierMap,
           NEW na \in BarrierMap, NEW b \in Barriers, \A d \in Barriers \ {b} : na[d] = ba[d]
    PROVE  LET q == QueueOf(mu, wa, ba)
               r == QueueOf(mu, wa, na)
           IN  /\ \A t : na[b].waiters = Append(ba[b].waiters, t) => Pushed(q, r, b, t)
               /\ ba[b].waiters # <<>> /\ na[b].waiters = Tail(ba[b].waiters) => Popped(q, r, b)
               /\ na[b].waiters = ba[b].waiters => r = q
  <1> DEFINE q == QueueOf(mu, wa, ba)
             r == QueueOf(mu, wa, na)
  <1>1. q[b] = ba[b].waiters /\ r[b] = na[b].waiters
    BY EEPthreadAssumption DEF QueueOf, Objects
  <1>2. \A y \in Objects \ {b} : r[y] = q[y]
    BY DEF QueueOf, Objects
  <1>3. (\A y \in Objects : r[y] = q[y]) => r = q
    BY DEF QueueOf
  <1> HIDE DEF q, r
  <1> QED BY <1>1, <1>2, <1>3 DEF Pushed, Popped, q, r

\* The same for a condition variable, whose queue holds pairs.
LEMMA WaiterSteps ==
    ASSUME NEW mu \in MutexMap, NEW wa \in WaiterMap, NEW za \in WaiterMap,
           NEW ba \in BarrierMap, NEW c \in Conds, \A d \in Conds \ {c} : za[d] = wa[d]
    PROVE  LET q == QueueOf(mu, wa, ba)
               r == QueueOf(mu, za, ba)
           IN  /\ \A w \in [th : Threads, mx : Mutexes] :
                     za[c] = Append(wa[c], w) => Pushed(q, r, c, w.th)
               /\ wa[c] # <<>> /\ za[c] = Tail(wa[c]) =>
                     Popped(q, r, c) /\ Head(q[c]) = Head(wa[c]).th
  <1> DEFINE q == QueueOf(mu, wa, ba)
             r == QueueOf(mu, za, ba)
  <1>1. \A y \in Objects \ {c} : r[y] = q[y]
    BY DEF QueueOf, Objects
  <1>2. /\ Len(q[c]) = Len(wa[c]) /\ \A i \in 1 .. Len(wa[c]) : q[c][i] = wa[c][i].th
        /\ Len(r[c]) = Len(za[c]) /\ \A i \in 1 .. Len(za[c]) : r[c][i] = za[c][i].th
        /\ q[c] \in Seq(Threads) /\ r[c] \in Seq(Threads)
    BY QueueFacts DEF Queues
  <1>3. wa[c] \in Seq([th : Threads, mx : Mutexes]) /\ Len(wa[c]) \in Nat
    <2>1. wa[c] \in Seq([th : Threads, mx : Mutexes])
      BY DEF WaiterMap
    <2> QED BY <2>1, LenProperties
  <1> HIDE DEF q, r
  <1>4. ASSUME NEW w \in [th : Threads, mx : Mutexes], za[c] = Append(wa[c], w)
        PROVE  r[c] = Append(q[c], w.th)
    <2>1. /\ Len(za[c]) = Len(wa[c]) + 1
          /\ \A i \in 1 .. Len(za[c]) :
                za[c][i] = IF i <= Len(wa[c]) THEN wa[c][i] ELSE w
      BY <1>3, <1>4
    <2>2. w.th \in Threads
      OBVIOUS
    <2>3. /\ Append(q[c], w.th) \in Seq(Threads)
          /\ Len(Append(q[c], w.th)) = Len(q[c]) + 1
          /\ \A i \in 1 .. Len(q[c]) + 1 :
                Append(q[c], w.th)[i] = IF i <= Len(q[c]) THEN q[c][i] ELSE w.th
      BY <1>2, <2>2
    <2>4. ASSUME NEW i \in 1 .. Len(r[c]) PROVE r[c][i] = Append(q[c], w.th)[i]
      <3>1. i \in 1 .. Len(za[c]) /\ r[c][i] = za[c][i].th
        BY <1>2
      <3>2. CASE i <= Len(wa[c])
        <4>1. r[c][i] = wa[c][i].th /\ i \in 1 .. Len(wa[c])
          BY <2>1, <3>1, <3>2, <1>3
        <4>2. Append(q[c], w.th)[i] = q[c][i]
          BY <1>2, <1>3, <2>1, <2>3, <3>1, <3>2
        <4> QED BY <1>2, <4>1, <4>2
      <3>3. CASE ~(i <= Len(wa[c]))
        <4>1. za[c][i] = w
          BY <2>1, <3>1, <3>3
        <4>2. Append(q[c], w.th)[i] = w.th
          BY <1>2, <1>3, <2>1, <2>3, <3>1, <3>3
        <4> QED BY <3>1, <4>1, <4>2
      <3> QED BY <3>2, <3>3
    <2>5. Len(r[c]) = Len(Append(q[c], w.th))
      BY <1>2, <2>1, <2>3
    <2> QED BY <1>2, <2>3, <2>4, <2>5, SeqEqual
  <1>5. ASSUME wa[c] # <<>>, za[c] = Tail(wa[c])
        PROVE  q[c] # <<>> /\ r[c] = Tail(q[c]) /\ Head(q[c]) = Head(wa[c]).th
    <2>1. Len(wa[c]) # 0
      BY <1>3, <1>5, EmptySeq
    <2>2. q[c] # <<>>
      BY <1>2, <2>1
    <2>3. /\ Len(za[c]) = Len(wa[c]) - 1
          /\ \A i \in 1 .. Len(za[c]) : za[c][i] = wa[c][i + 1]
          /\ Head(wa[c]) = wa[c][1]
      BY <1>3, <1>5, HeadTailProperties
    <2>4. /\ Tail(q[c]) \in Seq(Threads) /\ Len(Tail(q[c])) = Len(q[c]) - 1
          /\ \A i \in 1 .. Len(q[c]) - 1 : Tail(q[c])[i] = q[c][i + 1]
          /\ Head(q[c]) = q[c][1]
      BY <1>2, <2>2, HeadTailProperties
    <2>5. \A i \in 1 .. Len(r[c]) : r[c][i] = Tail(q[c])[i]
      BY <1>2, <1>3, <2>1, <2>3, <2>4
    <2>6. Len(r[c]) = Len(Tail(q[c]))
      BY <1>2, <2>3, <2>4
    <2>7. r[c] = Tail(q[c])
      BY <1>2, <2>4, <2>5, <2>6, SeqEqual
    <2>8. 1 \in 1 .. Len(wa[c])
      BY <1>3, <2>1
    <2> QED BY <1>2, <2>2, <2>3, <2>4, <2>7, <2>8
  <1> QED BY <1>1, <1>4, <1>5 DEF Pushed, Popped, q, r

-----------------------------------------------------------------------------
(* Where the blocked threads are.                                          *)

\* What holds of a regular program besides the ownership of its mutexes.
ServedInv == SchedOK /\ JoinInv /\ PlaceInv /\ NoAssert

\* The marks that are no threads and no objects.
LEMMA NoThreadIsNone == NoThread \notin Threads /\ "none" \notin Objects /\ "yield" \notin Objects
  BY EEPthreadAssumption DEF NoThread, Threads, Objects

\* A handler that wakes threads taken out of a queue.
LEMMA WakePlaces ==
    ASSUME ServedInv, halted = "no", NEW ws \in SUBSET Threads, Wake(ws),
           \A t \in ws : Queued(t),
           UNCHANGED <<live, current, onReturn, joinables, joinings>>,
           OneSpot(Queue'),
           \A t \in Threads : Queued(t)' <=> Queued(t) /\ t \notin ws,
           \A t \in Threads : In(Queue', t) => In(Queue, t),
           releasing' \in Barriers => LET q == barrier'[releasing'].waiters
                                      IN  q[Len(q)] = current'
    PROVE  JoinInv' /\ PlaceInv' /\ NoAssert'
  <1>1. /\ OneSpot(Queue)
        /\ \A t \in Threads : /\ Waits(t) <=> Queued(t) \/ joinings[t] # NoThread
                              /\ In(Queue, t) => joinings[t] = NoThread
    BY DEF ServedInv, PlaceInv
  <1>2. Waking(ws) /\ active' = active \cup ws /\ halted' = "no"
    <2>1. Waking(ws)
      BY <1>1 DEF Waking, Waits
    <2> QED BY <2>1 DEF Wake
  <1>3. \A t \in ws : joinings[t] = NoThread
    BY <1>1 DEF Queued
  <1>4. PlaceInv'
    <2>1. ASSUME NEW t \in Threads
          PROVE  /\ Waits(t)' <=> Queued(t)' \/ joinings'[t] # NoThread
                 /\ In(Queue', t) => joinings'[t] = NoThread
      <3>1. Waits(t)' <=> Waits(t) /\ t \notin ws
        BY <1>2 DEF Waits
      <3> QED BY <1>1, <1>3, <3>1
    <2> QED BY <1>2, <2>1 DEF PlaceInv
  <1>5. JoinInv'
    <2>1. ASSUME NEW t \in Threads, NEW j \in Threads, joinables[t].joiner = j
          PROVE  j \in live \ active'
      <3>1. j \in live \ active /\ joinings[j] = t
        BY <2>1 DEF ServedInv, JoinInv
      <3> QED BY <1>2, <1>3, <3>1, NoThreadIsNone
    <2> QED BY <1>2, <2>1 DEF ServedInv, JoinInv
  <1> QED BY <1>2, <1>4, <1>5 DEF NoAssert

\* A handler that blocks its thread: it wakes ws, taken out of a queue, and the
\* thread stands in a queue (a lock or a wait) or in none (a yield).
LEMMA BlockPlaces ==
    ASSUME ServedInv, Runs, NEW ws \in SUBSET Threads, NEW m, NEW h, BlockThread(ws, m, h),
           \A t \in ws : Queued(t),
           UNCHANGED <<live, newId, hth, slot, releasing, joinables, joinings>>,
           OneSpot(Queue'),
           \A t \in Threads :
              In(Queue', t) <=> (In(Queue, t) /\ t \notin ws) \/ (t = current /\ m # "yield")
    PROVE  JoinInv' /\ PlaceInv' /\ NoAssert'
  <1>1. /\ OneSpot(Queue) /\ halted = "no" /\ current \in active /\ current \in Threads
        /\ \A t \in Threads : /\ Waits(t) <=> Queued(t) \/ joinings[t] # NoThread
                              /\ In(Queue, t) => joinings[t] = NoThread
    BY Placed DEF ServedInv, PlaceInv, Runs, SchedOK, SchedInv
  <1>2. \A t \in Threads : ~Empties(t) /\ ~Empties(t)'
    BY NoThreadIsNone DEF Runs, Empties, Objects
  <1>3. \A t \in Threads : Queued(t) <=> In(Queue, t)
    BY <1>2 DEF Queued
  <1>4. Waking(ws)
    BY <1>1 DEF Waking, Waits
  <1>5. /\ active' = (active \cup ws) \ {current}
        /\ onReturn' = [onReturn EXCEPT ![current] = m]
        /\ halted' \in {"no", "deadlock"}
    BY <1>4, BlockEffect DEF ServedInv
  <1>6. current \notin ws /\ joinings[current] = NoThread /\ ~In(Queue, current)
        /\ \A t \in ws : joinings[t] = NoThread
    BY <1>1, <1>3 DEF Waits
  <1>7. PlaceInv'
    <2>1. ASSUME NEW t \in Threads
          PROVE  /\ Waits(t)' <=> Queued(t)' \/ joinings'[t] # NoThread
                 /\ In(Queue', t) => joinings'[t] = NoThread
      <3>1. Queued(t)' <=> In(Queue', t)
        BY <1>2 DEF Queued
      <3>2. onReturn'[t] = IF t = current THEN m ELSE onReturn[t]
        BY <1>5 DEF ServedInv, SchedOK, BaseInv, Types
      <3>3. CASE t = current
        BY <1>1, <1>5, <1>6, <3>1, <3>2, <3>3, Placed DEF Waits, ServedInv
      <3>4. CASE t # current
        <4>1. Waits(t)' <=> Waits(t) /\ t \notin ws
          BY <1>5, <3>2, <3>4 DEF Waits
        <4> QED BY <1>1, <1>3, <1>6, <3>1, <3>4, <4>1
      <3> QED BY <3>3, <3>4
    <2>2. releasing' \notin Barriers
      BY NoThreadIsNone DEF Runs, Objects
    <2> QED BY <2>1, <2>2 DEF PlaceInv
  <1>8. JoinInv'
    <2>1. ASSUME NEW t \in Threads, NEW j \in Threads, joinables[t].joiner = j
          PROVE  j \in live \ active'
      <3>1. j \in live \ active /\ joinings[j] = t
        BY <1>1, <2>1 DEF ServedInv, JoinInv
      <3> QED BY <1>5, <1>6, <3>1, NoThreadIsNone
    <2> QED BY <1>1, <1>5, <2>1 DEF ServedInv, JoinInv
  <1> QED BY <1>5, <1>7, <1>8 DEF NoAssert

\* A handler that moves no thread.
LEMMA StillPlaces ==
    ASSUME ServedInv, halted = "no", halted' # "assert", Queue' = Queue,
           releasing \notin Barriers, releasing' \notin Barriers,
           \A t \in Threads : onReturn'[t] = onReturn[t] \/ t \in active,
           UNCHANGED <<live, active, joinables, joinings>>
    PROVE  JoinInv' /\ PlaceInv' /\ NoAssert'
  <1>1. /\ OneSpot(Queue)
        /\ \A t \in Threads : /\ Waits(t) <=> Queued(t) \/ joinings[t] # NoThread
                              /\ In(Queue, t) => joinings[t] = NoThread
    BY DEF ServedInv, PlaceInv
  <1>2. PlaceInv'
    <2>1. ASSUME NEW t \in Threads
          PROVE  /\ Waits(t)' <=> Queued(t)' \/ joinings'[t] # NoThread
                 /\ In(Queue', t) => joinings'[t] = NoThread
      <3>1. Waits(t)' <=> Waits(t)
        BY DEF Waits
      <3>2. Queued(t)' <=> Queued(t)
        BY DEF Queued, Empties
      <3> QED BY <1>1, <3>1, <3>2
    <2> QED BY <1>1, <2>1 DEF PlaceInv
  <1>3. JoinInv'
    BY DEF ServedInv, JoinInv
  <1> QED BY <1>2, <1>3 DEF NoAssert

\* What the queues need to know of the mutexes: Lock would queue a thread on a
\* mutex with a negative count without blocking it.
NonNegative == \A m \in Mutexes : mutex[m].count >= 0

\* The tables the queues are read from, before and after a step.
LEMMA MapsTyped ==
    ASSUME ServedInv, [Next]_vars
    PROVE  /\ mutex \in MutexMap /\ waiters \in WaiterMap /\ barrier \in BarrierMap
           /\ mutex' \in MutexMap /\ waiters' \in WaiterMap /\ barrier' \in BarrierMap
           /\ Queue \in Queues /\ Queue' \in Queues
  <1>1. BaseInv /\ BaseInv'
    BY BaseNext DEF ServedInv, SchedOK
  <1>2. /\ mutex \in MutexMap /\ waiters \in WaiterMap /\ barrier \in BarrierMap
        /\ mutex' \in MutexMap /\ waiters' \in WaiterMap /\ barrier' \in BarrierMap
    BY <1>1 DEF BaseInv, Types, MutexMap, MutexType, WaiterMap, BarrierMap, BarrierType
  <1> QED BY <1>2, QueueFacts DEF Queue

\* A lock queues its thread exactly when it blocks it.
LEMMA PlaceLock ==
    ASSUME ServedInv, NonNegative, [Next]_vars, NEW m \in Mutexes,
           PthreadMutexLock(m) \/ PthreadMutexTrylock(m)
    PROVE  JoinInv' /\ PlaceInv' /\ NoAssert'
  <1> DEFINE l == LockMutex(current, m, mutex[m])
  <1>1. /\ Runs /\ mutex' = [mutex EXCEPT ![m] = l]
        /\ UNCHANGED <<live, newId, hth, slot, barrier, joinables, joinings, waiters, releasing>>
    BY DEF PthreadMutexLock, PthreadMutexTrylock, Runs, Returns, sched, joins
  <1>2. mutex[m] \in MutexType /\ mutex[m].count \in Nat /\ current \in Threads /\ m \in Objects
    BY MapsTyped DEF MutexMap, MutexType, NonNegative, ServedInv, SchedOK, BaseInv, Types, Objects
  <1>3. mutex'[m] = l /\ \A n \in Mutexes \ {m} : mutex'[n] = mutex[n]
    BY <1>1, MapsTyped DEF MutexMap
  <1>4. halted = "no" /\ releasing \notin Barriers /\ releasing' \notin Barriers
        /\ current \in active
    BY <1>1, NoThreadIsNone DEF Runs, Objects, ServedInv, SchedOK, SchedInv
  <1> HIDE DEF l
  <1>5. CASE Blocks(current, m, mutex[m])
    <2>1. BlockThread({}, m, held)
      BY <1>5 DEF PthreadMutexLock, PthreadMutexTrylock
    <2>2. l.spin = Append(mutex[m].spin, current)
      BY <1>2, <1>5, LockCases DEF l, Blocks
    <2>3. Pushed(Queue, Queue', m, current)
      <3>1. mutex'[m].spin = Append(mutex[m].spin, current)
        BY <1>3, <2>2
      <3>2. Pushed(QueueOf(mutex, waiters, barrier), QueueOf(mutex', waiters, barrier), m, current)
        BY <1>3, <3>1, MapsTyped, SpinQueue
      <3> QED BY <1>1, <3>2 DEF Queue
    <2>4. ~In(Queue, current) /\ OneSpot(Queue)
      BY <1>2, <1>4 DEF ServedInv, PlaceInv, Waits, Queued, Empties
    <2>5. OneSpot(Queue') /\ \A t \in Threads : In(Queue', t) <=> In(Queue, t) \/ t = current
      BY <1>2, <2>3, <2>4, MapsTyped, PushLemma
    <2>6. m # "yield"
      BY <1>2, NoThreadIsNone
    <2> QED BY <1>1, <2>1, <2>5, <2>6, BlockPlaces
  <1>6. CASE ~Blocks(current, m, mutex[m])
    <2>1. UNCHANGED <<active, onReturn, halted>>
      BY <1>6 DEF PthreadMutexLock, PthreadMutexTrylock, Returns, sched
    <2>2. l.spin = mutex[m].spin
      BY <1>2, <1>6, LockCases DEF l, Blocks
    <2>3. Queue' = Queue
      <3>1. QueueOf(mutex', waiters, barrier) = QueueOf(mutex, waiters, barrier)
        BY <1>3, <2>2, MapsTyped, SpinQueue
      <3> QED BY <1>1, <3>1 DEF Queue
    <2> QED BY <1>1, <1>4, <2>1, <2>3, StillPlaces
  <1> QED BY <1>5, <1>6

\* An unlock passes the mutex on to the head of its queue, or moves nobody.
LEMMA UnlockQueue ==
    ASSUME ServedInv, halted = "no", releasing \notin Barriers, NEW m \in Mutexes,
           NEW mu \in MutexMap, mu = [mutex EXCEPT ![m] = UnlockMutex(current, m, mutex[m])],
           mutex \in MutexMap, waiters \in WaiterMap, barrier \in BarrierMap
    PROVE  LET q  == QueueOf(mu, waiters, barrier)
               ws == Unblocked(current, m, mutex[m])
           IN  /\ OneSpot(q) /\ ws \in SUBSET Threads /\ \A t \in ws : Queued(t)
               /\ \A t \in Threads : In(q, t) <=> In(Queue, t) /\ t \notin ws
  <1> DEFINE q  == QueueOf(mu, waiters, barrier)
             ws == Unblocked(current, m, mutex[m])
             u  == UnlockMutex(current, m, mutex[m])
  <1>1. mutex[m] \in MutexType /\ current \in Threads /\ m \in Objects
    BY DEF MutexMap, ServedInv, SchedOK, BaseInv, Types, Objects
  <1>2. mu[m] = u /\ \A n \in Mutexes \ {m} : mu[n] = mutex[n]
    BY DEF MutexMap
  <1>3. OneSpot(Queue) /\ Queue \in Queues /\ q \in Queues /\ Queue[m] = mutex[m].spin
    BY QueueFacts DEF ServedInv, PlaceInv, Queue
  <1>4. \A t \in Threads : Queued(t) <=> In(Queue, t)
    BY DEF Queued, Empties
  <1>5. ws \subseteq Threads
    BY <1>1, UnblockedCases
  <1> HIDE DEF q, u
  <1>6. CASE Releases(current, m, mutex[m]) /\ mutex[m].spin # <<>>
    <2>1. ws = {Head(mutex[m].spin)} /\ u.spin = Tail(mutex[m].spin)
      BY <1>1, <1>6, UnlockCases DEF u, Unblocked
    <2>2. Popped(Queue, q, m)
      BY <1>2, <1>6, <2>1, SpinQueue DEF Queue, q
    <2>3. /\ OneSpot(q) /\ Head(Queue[m]) \in Threads /\ In(Queue, Head(Queue[m]))
          /\ \A t \in Threads : In(q, t) <=> In(Queue, t) /\ t # Head(Queue[m])
      BY <1>1, <1>3, <2>2, PopLemma
    <2> QED BY <1>3, <1>4, <1>5, <2>1, <2>3 DEF q
  <1>7. CASE ~(Releases(current, m, mutex[m]) /\ mutex[m].spin # <<>>)
    <2>1. ws = {} /\ u.spin = mutex[m].spin
      BY <1>1, <1>7, UnlockCases DEF u, Unblocked
    <2>2. q = Queue
      BY <1>2, <2>1, SpinQueue DEF Queue, q
    <2> QED BY <1>3, <2>1, <2>2 DEF q
  <1> QED BY <1>6, <1>7

\* An unlock wakes the thread it takes out of the queue.
LEMMA PlaceUnlock ==
    ASSUME ServedInv, [Next]_vars, NEW m \in Mutexes, PthreadMutexUnlock(m)
    PROVE  JoinInv' /\ PlaceInv' /\ NoAssert'
  <1> DEFINE ws == Unblocked(current, m, mutex[m])
  <1>1. /\ Runs /\ mutex' = [mutex EXCEPT ![m] = UnlockMutex(current, m, mutex[m])]
        /\ Wake(ws)
        /\ UNCHANGED <<live, current, barrier, joinables, joinings, waiters, releasing, onReturn>>
    BY DEF PthreadMutexUnlock, Runs, joins
  <1>2. halted = "no" /\ releasing \notin Barriers /\ releasing' \notin Barriers
    BY <1>1, NoThreadIsNone DEF Runs, Objects
  <1>3. /\ OneSpot(Queue') /\ ws \in SUBSET Threads /\ \A t \in ws : Queued(t)
        /\ \A t \in Threads : In(Queue', t) <=> In(Queue, t) /\ t \notin ws
    BY <1>1, <1>2, MapsTyped, UnlockQueue DEF Queue
  <1> HIDE DEF ws
  <1>4. \A t \in Threads : Queued(t)' <=> Queued(t) /\ t \notin ws
    BY <1>2, <1>3 DEF Queued, Empties
  <1> QED BY <1>1, <1>2, <1>3, <1>4, WakePlaces

\* A wait gives the mutex away and queues its thread, in one handler.
LEMMA PlaceCondWait ==
    ASSUME ServedInv, [Next]_vars, NEW m \in Mutexes, NEW c \in Conds, PthreadCondWait(c, m)
    PROVE  JoinInv' /\ PlaceInv' /\ NoAssert'
  <1> DEFINE ws == Unblocked(current, m, mutex[m])
             q  == QueueOf(mutex', waiters, barrier)
             w  == [th |-> current, mx |-> m]
  <1>1. /\ Runs /\ mutex' = [mutex EXCEPT ![m] = UnlockMutex(current, m, mutex[m])]
        /\ BlockThread(ws, m, Lose(m))
        /\ waiters' = [waiters EXCEPT ![c] = Append(@, w)]
        /\ UNCHANGED <<live, newId, hth, slot, barrier, joinables, joinings, releasing>>
    BY DEF PthreadCondWait, Runs, joins
  <1>2. halted = "no" /\ releasing \notin Barriers /\ current \in Threads /\ current \in active
    BY <1>1, NoThreadIsNone DEF Runs, Objects, ServedInv, SchedOK, SchedInv, BaseInv, Types
  <1>3. /\ OneSpot(q) /\ ws \in SUBSET Threads /\ \A t \in ws : Queued(t)
        /\ \A t \in Threads : In(q, t) <=> In(Queue, t) /\ t \notin ws
    BY <1>1, <1>2, MapsTyped, UnlockQueue
  <1>4. w \in [th : Threads, mx : Mutexes] /\ w.th = current /\ c \in Objects
    BY <1>2 DEF Objects
  <1>5. waiters'[c] = Append(waiters[c], w) /\ \A d \in Conds \ {c} : waiters'[d] = waiters[d]
    BY <1>1, MapsTyped DEF WaiterMap
  <1> HIDE DEF ws, w
  <1>6. Pushed(q, Queue', c, current)
    BY <1>1, <1>4, <1>5, MapsTyped, WaiterSteps DEF Queue
  <1>7. q \in Queues
    BY MapsTyped, QueueFacts
  <1>8. ~In(Queue, current)
    BY <1>2 DEF ServedInv, PlaceInv, Waits, Queued, Empties
  <1> HIDE DEF q
  <1>9. OneSpot(Queue') /\ \A t \in Threads : In(Queue', t) <=> In(q, t) \/ t = current
    BY <1>2, <1>3, <1>4, <1>6, <1>7, <1>8, MapsTyped, PushLemma
  <1>10. m # "yield"
    BY NoThreadIsNone DEF Objects
  <1> QED BY <1>1, <1>3, <1>9, <1>10, BlockPlaces

\* A signal or one iteration of a broadcast.
LEMMA PlaceReleaseWaiter ==
    ASSUME ServedInv, NonNegative, [Next]_vars, halted = "no", NEW c \in Conds,
           waiters[c] # <<>>, ReleaseWaiter(c),
           releasing \notin Barriers, releasing' \notin Barriers
    PROVE  JoinInv' /\ PlaceInv' /\ NoAssert'
  <1> DEFINE w  == Head(waiters[c])
             l  == LockMutex(w.th, w.mx, mutex[w.mx])
             ws == IF Blocks(w.th, w.mx, mutex[w.mx]) THEN {} ELSE {w.th}
             q  == QueueOf(mutex, waiters', barrier)
  <1>1. /\ waiters' = [waiters EXCEPT ![c] = Tail(@)]
        /\ mutex' = [mutex EXCEPT ![w.mx] = l]
        /\ Wake(ws)
        /\ UNCHANGED <<live, current, barrier, joinables, joinings, onReturn>>
    BY DEF ReleaseWaiter, joins, history
  <1>2. w.th \in Threads /\ w.mx \in Mutexes /\ c \in Objects /\ w.mx \in Objects
    BY WaiterTyped DEF ServedInv, SchedOK, Objects
  <1>3. mutex[w.mx] \in MutexType /\ mutex[w.mx].count \in Nat
    BY <1>2, MapsTyped DEF MutexMap, MutexType, NonNegative
  <1>4. waiters'[c] = Tail(waiters[c]) /\ \A d \in Conds \ {c} : waiters'[d] = waiters[d]
    BY <1>1, MapsTyped DEF WaiterMap
  <1>5. mutex'[w.mx] = l /\ \A n \in Mutexes \ {w.mx} : mutex'[n] = mutex[n]
    BY <1>1, <1>2, MapsTyped DEF MutexMap
  <1>6. OneSpot(Queue) /\ Queue \in Queues /\ Queue' \in Queues /\ q \in Queues
    BY MapsTyped, QueueFacts DEF ServedInv, PlaceInv
  <1>7. Popped(Queue, q, c) /\ Head(Queue[c]) = w.th
    BY <1>4, MapsTyped, WaiterSteps DEF Queue
  <1> HIDE DEF w, l, q
  <1>8. /\ OneSpot(q) /\ In(Queue, w.th)
        /\ \A t \in Threads : In(q, t) <=> In(Queue, t) /\ t # w.th
    BY <1>2, <1>6, <1>7, PopLemma
  <1>9. \A t \in Threads : (Queued(t) <=> In(Queue, t)) /\ (Queued(t)' <=> In(Queue', t))
    BY DEF Queued, Empties
  <1>10. CASE Blocks(w.th, w.mx, mutex[w.mx])
    <2>1. mutex'[w.mx].spin = Append(mutex[w.mx].spin, w.th) /\ ws = {}
      BY <1>2, <1>3, <1>5, <1>10, LockCases DEF l, Blocks
    <2>2. Pushed(q, QueueOf(mutex', waiters', barrier), w.mx, w.th)
      BY <1>2, <1>5, <2>1, MapsTyped, SpinQueue DEF q
    <2>3. Pushed(q, Queue', w.mx, w.th)
      BY <1>1, <2>2 DEF Queue
    <2>4. ~In(q, w.th)
      BY <1>2, <1>8
    <2>5. OneSpot(Queue') /\ \A t \in Threads : In(Queue', t) <=> In(q, t) \/ t = w.th
      BY <1>2, <1>6, <1>8, <2>3, <2>4, PushLemma
    <2>6. \A t \in Threads : In(Queue', t) <=> In(Queue, t)
      BY <1>8, <2>5
    <2> HIDE DEF ws
    <2> QED BY <1>1, <1>9, <2>1, <2>5, <2>6, WakePlaces
  <1>11. CASE ~Blocks(w.th, w.mx, mutex[w.mx])
    <2>1. mutex'[w.mx].spin = mutex[w.mx].spin /\ ws = {w.th}
      BY <1>2, <1>3, <1>5, <1>11, LockCases DEF l, Blocks
    <2>2. q = QueueOf(mutex', waiters', barrier)
      BY <1>2, <1>5, <2>1, MapsTyped, SpinQueue DEF q
    <2>3. Queue' = q
      BY <1>1, <2>2 DEF Queue
    <2> HIDE DEF ws
    <2>4. ws \in SUBSET Threads /\ \A t \in ws : Queued(t)
      BY <1>2, <1>8, <1>9, <2>1
    <2>5. \A t \in Threads : Queued(t)' <=> Queued(t) /\ t \notin ws
      BY <1>8, <1>9, <2>1, <2>3
    <2> QED BY <1>1, <1>8, <2>3, <2>4, <2>5, WakePlaces
  <1> QED BY <1>10, <1>11

\* The last participant of a barrier stands in its queue while it empties it.
LEMMA PlaceBarrierWait ==
    ASSUME ServedInv, [Next]_vars, NEW b \in Barriers, PthreadBarrierWait(b)
    PROVE  JoinInv' /\ PlaceInv' /\ NoAssert'
  <1> DEFINE q == barrier[b].waiters
  <1>1. /\ Runs /\ barrier' = [barrier EXCEPT ![b].waiters = Append(q, current)]
        /\ UNCHANGED <<live, newId, hth, slot, mutex, waiters, joinables, joinings>>
    BY DEF PthreadBarrierWait, Runs, Returns, sched, joins
  <1>2. /\ halted = "no" /\ releasing = "none" /\ releasing \notin Barriers
        /\ current \in Threads /\ current \in active /\ b \in Objects /\ q \in Seq(Threads)
    BY <1>1, NoThreadIsNone DEF Runs, Objects, ServedInv, SchedOK, SchedInv, BaseInv, Types
  <1>3. Append(q, current) \in Seq(Threads) /\ Len(q) \in Nat
    BY <1>2
  <1>4. /\ barrier'[b].waiters = Append(q, current)
        /\ \A d \in Barriers \ {b} : barrier'[d] = barrier[d]
    BY <1>1, <1>3, BarrierQueue DEF ServedInv, SchedOK
  <1>5. Pushed(Queue, Queue', b, current)
    <2>1. Pushed(QueueOf(mutex, waiters, barrier), QueueOf(mutex, waiters, barrier'), b, current)
      BY <1>4, MapsTyped, BarrierSteps
    <2> QED BY <1>1, <2>1 DEF Queue
  <1>6. ~In(Queue, current) /\ OneSpot(Queue) /\ joinings[current] = NoThread
    BY <1>2 DEF ServedInv, PlaceInv, Waits, Queued, Empties
  <1>7. OneSpot(Queue') /\ \A t \in Threads : In(Queue', t) <=> In(Queue, t) \/ t = current
    BY <1>2, <1>5, <1>6, MapsTyped, PushLemma
  <1> HIDE DEF q
  <1>8. CASE Len(q) + 1 = barrier[b].num
    <2>1. releasing' = b /\ UNCHANGED <<active, current, onReturn, halted>>
      BY <1>8 DEF PthreadBarrierWait, Returns, sched, history, q
    <2>2. ASSUME NEW t \in Threads
          PROVE  /\ Waits(t)' <=> Queued(t)' \/ joinings'[t] # NoThread
                 /\ In(Queue', t) => joinings'[t] = NoThread
      <3>1. Waits(t)' <=> Waits(t)
        BY <1>1, <2>1 DEF Waits
      <3>2. Empties(t)' <=> t = current
        BY <2>1 DEF Empties
      <3>3. Queued(t) <=> In(Queue, t)
        BY <1>2 DEF Queued, Empties
      <3>4. Queued(t)' <=> In(Queue', t) /\ ~Empties(t)'
        BY DEF Queued
      <3> QED BY <1>1, <1>2, <1>6, <1>7, <3>1, <3>2, <3>3, <3>4 DEF ServedInv, PlaceInv
    <2>3. barrier'[releasing'].waiters[Len(barrier'[releasing'].waiters)] = current'
      BY <1>2, <1>3, <1>4, <2>1
    <2>4. PlaceInv'
      BY <1>7, <2>2, <2>3 DEF PlaceInv
    <2> QED BY <1>1, <2>1, <2>4 DEF ServedInv, JoinInv, NoAssert
  <1>9. CASE ~(Len(q) + 1 = barrier[b].num)
    <2>1. BlockThread({}, "none", held) /\ UNCHANGED releasing
      BY <1>9 DEF PthreadBarrierWait, q
    <2> QED BY <1>1, <1>7, <2>1, BlockPlaces
  <1> QED BY <1>8, <1>9

\* One iteration of the release loop, for another thread or for the one that
\* runs the loop.
LEMMA PlaceBarrierNext ==
    ASSUME ServedInv, [Next]_vars, NEW b \in Barriers, BarrierNext(b)
    PROVE  JoinInv' /\ PlaceInv' /\ NoAssert'
  <1> DEFINE q == barrier[b].waiters
             w == Head(q)
             ws == {w} \ {current}
  <1>1. /\ halted = "no" /\ releasing = b
        /\ barrier' = [barrier EXCEPT ![b].waiters = Tail(q)]
        /\ releasing' = IF Len(q) = 1 THEN "none" ELSE b
        /\ Wake(ws)
        /\ UNCHANGED <<live, current, mutex, waiters, joinables, joinings, onReturn>>
    BY DEF BarrierNext, joins, history
  <1>2. q \in Seq(Threads) /\ q # <<>> /\ b \in Objects /\ current \in Threads
    BY <1>1 DEF Objects, ServedInv, SchedOK, BaseInv, LoopInv, Types
  <1>3. /\ Tail(q) \in Seq(Threads) /\ w = q[1] /\ w \in Threads /\ Len(q) \in Nat \ {0}
        /\ Len(Tail(q)) = Len(q) - 1 /\ \A i \in 1 .. Len(q) - 1 : Tail(q)[i] = q[i + 1]
    <2>1. Len(q) \in Nat \ {0}
      BY <1>2, EmptySeq
    <2> QED BY <1>2, <2>1, HeadTailProperties
  <1>4. /\ barrier'[b].waiters = Tail(q)
        /\ \A d \in Barriers \ {b} : barrier'[d] = barrier[d]
    BY <1>1, <1>3, BarrierQueue DEF ServedInv, SchedOK
  <1>5. Popped(Queue, Queue', b)
    <2>1. Popped(QueueOf(mutex, waiters, barrier), QueueOf(mutex, waiters, barrier'), b)
      BY <1>2, <1>4, MapsTyped, BarrierSteps
    <2> QED BY <1>1, <2>1 DEF Queue
  <1>6. OneSpot(Queue) /\ Queue[b] = q /\ q[Len(q)] = current
    BY <1>1, MapsTyped, QueueFacts DEF ServedInv, PlaceInv, Queue
  <1>7. /\ OneSpot(Queue') /\ In(Queue, w)
        /\ \A t \in Threads : In(Queue', t) <=> In(Queue, t) /\ t # w
    BY <1>2, <1>5, <1>6, MapsTyped, PopLemma
  <1>8. \A t \in Threads : Queued(t) <=> In(Queue, t) /\ t # current
    BY <1>1 DEF Queued, Empties
  <1>9. ws \in SUBSET Threads /\ \A t \in ws : Queued(t)
    BY <1>3, <1>7, <1>8
  <1> HIDE DEF q, w
  <1>10. CASE Len(q) = 1
    <2>1. w = current /\ ws = {} /\ releasing' = "none"
      BY <1>1, <1>3, <1>6, <1>10
    <2>2. \A t \in Threads : Queued(t)' <=> In(Queue', t)
      BY <2>1, NoThreadIsNone DEF Queued, Empties, Objects
    <2>3. releasing' \notin Barriers
      BY <2>1, NoThreadIsNone DEF Objects
    <2> HIDE DEF ws
    <2>4. \A t \in Threads : Queued(t)' <=> Queued(t) /\ t \notin ws
      BY <1>7, <1>8, <2>1, <2>2
    <2> QED BY <1>1, <1>7, <1>9, <2>3, <2>4, WakePlaces
  <1>11. CASE Len(q) # 1
    <2>1. w # current /\ ws = {w}
      <3>1. 1 \in 1 .. Len(Queue[b]) /\ Len(q) \in 1 .. Len(Queue[b]) /\ Len(q) # 1
        BY <1>3, <1>6, <1>11
      <3>2. w = Queue[b][1] /\ current = Queue[b][Len(q)]
        BY <1>3, <1>6
      <3>3. w # current
        BY <1>2, <1>6, <3>1, <3>2 DEF OneSpot
      <3> QED BY <3>3
    <2>2. \A t \in Threads : Queued(t)' <=> In(Queue', t) /\ t # current
      BY <1>1, <1>11 DEF Queued, Empties
    <2>3. barrier'[releasing'].waiters[Len(barrier'[releasing'].waiters)] = current'
      BY <1>1, <1>3, <1>4, <1>6, <1>11
    <2> HIDE DEF ws
    <2>4. \A t \in Threads : Queued(t)' <=> Queued(t) /\ t \notin ws
      BY <1>7, <1>8, <2>1, <2>2
    <2> QED BY <1>1, <1>7, <1>9, <2>3, <2>4, WakePlaces
  <1> QED BY <1>10, <1>11

\* A join blocks its thread or takes the result of a thread that has ended.
LEMMA PlaceJoin ==
    ASSUME ServedInv, [Next]_vars, NEW t \in Threads, PthreadJoin(t) \/ PthreadDetach(t)
    PROVE  JoinInv' /\ PlaceInv' /\ NoAssert'
  <1>1. Runs /\ Queue' = Queue /\ UNCHANGED releasing
    BY DEF PthreadJoin, PthreadDetach, queues, Queue
  <1>2. /\ halted = "no" /\ releasing \notin Barriers /\ releasing' \notin Barriers
        /\ current \in Threads /\ current \in active /\ active \subseteq live
    BY <1>1, NoThreadIsNone, Placed DEF Runs, Objects, ServedInv, SchedOK, SchedInv, BaseInv, Types
  <1>3. /\ OneSpot(Queue)
        /\ \A x \in Threads : /\ Waits(x) <=> In(Queue, x) \/ joinings[x] # NoThread
                              /\ In(Queue, x) => joinings[x] = NoThread
    BY <1>2 DEF ServedInv, PlaceInv, Queued, Empties
  <1>4. /\ joinables \in [Threads -> [st : {"no", "run", "done"}, joiner : Threads \cup {NoThread}]]
        /\ joinings \in [Threads -> Threads \cup {NoThread}]
    BY DEF ServedInv, SchedOK, BaseInv, Types
  <1>5. \A x \in Threads :
            /\ \A j \in Threads : /\ joinables[x].joiner = j <=> joinings[j] = x
                                  /\ joinables[x].joiner = j => j \in live \ active
            /\ joinables[x].st = "run" => x \in live
            /\ joinables[x].st = "done" => x \notin live
            /\ joinables[x].joiner # NoThread => joinables[x].st = "run"
    BY <1>2 DEF ServedInv, JoinInv
  <1>6. CASE Stop("unsupported")
    BY <1>1, <1>2, <1>6, StillPlaces DEF Stop, sched, joins, history
  <1>7. CASE /\ joinables[t].joiner = NoThread
             /\ joinables' = [joinables EXCEPT ![t] = NoJoinee]
             /\ UNCHANGED <<live, active, joinings, onReturn, halted>>
    <2>1. JoinInv'
      <3> SUFFICES ASSUME NEW x \in Threads
                   PROVE  /\ \A j \in Threads :
                                /\ joinables'[x].joiner = j <=> joinings[j] = x
                                /\ joinables'[x].joiner = j => j \in live \ active
                          /\ joinables'[x].st = "run" => x \in live
                          /\ joinables'[x].st = "done" => x \notin live
                          /\ joinables'[x].joiner # NoThread => joinables'[x].st = "run"
        BY <1>7 DEF JoinInv
      <3>1. joinables'[x] = IF x = t THEN NoJoinee ELSE joinables[x]
        BY <1>4, <1>7
      <3> QED BY <1>5, <1>7, <3>1 DEF NoJoinee
    <2>2. PlaceInv'
      <3>1. \A x \in Threads : (Waits(x)' <=> Waits(x)) /\ (Queued(x)' <=> In(Queue, x))
        BY <1>1, <1>2, <1>7 DEF Waits, Queued, Empties
      <3> QED BY <1>1, <1>2, <1>3, <1>7, <3>1 DEF PlaceInv
    <2> QED BY <1>2, <1>7, <2>1, <2>2 DEF NoAssert
  <1>8. CASE /\ t # current /\ joinables[t] = NewJoinee
             /\ joinables' = [joinables EXCEPT ![t].joiner = current]
             /\ joinings' = [joinings EXCEPT ![current] = t]
             /\ BlockThread({}, "none", held)
             /\ UNCHANGED <<live, newId, hth, slot, cancel>>
    <2>1. /\ active' = active \ {current}
          /\ onReturn' = [onReturn EXCEPT ![current] = "none"]
          /\ halted' \in {"no", "deadlock"}
      <3>1. Waking({}) /\ {} \in SUBSET Threads
        BY DEF Waking
      <3> QED BY <1>1, <1>8, <3>1, BlockEffect DEF ServedInv
    <2>2. joinings[current] = NoThread /\ ~In(Queue, current)
      BY <1>2, <1>3 DEF Waits
    <2>3. /\ joinables'[t].st = "run" /\ joinables'[t].joiner = current
          /\ joinables[t].st = "run" /\ joinables[t].joiner = NoThread
          /\ \A x \in Threads \ {t} : joinables'[x] = joinables[x]
          /\ \A x \in Threads : joinings'[x] = IF x = current THEN t ELSE joinings[x]
      BY <1>2, <1>4, <1>8 DEF NewJoinee
    <2>4. JoinInv'
      <3> SUFFICES ASSUME NEW x \in Threads
                   PROVE  /\ \A j \in Threads :
                                /\ joinables'[x].joiner = j <=> joinings'[j] = x
                                /\ joinables'[x].joiner = j => j \in live \ active'
                          /\ joinables'[x].st = "run" => x \in live
                          /\ joinables'[x].st = "done" => x \notin live
                          /\ joinables'[x].joiner # NoThread => joinables'[x].st = "run"
        BY <1>8 DEF JoinInv
      <3>1. CASE x = t
        BY <1>2, <1>5, <2>1, <2>2, <2>3, <3>1, NoThreadIsNone
      <3>2. CASE x # t
        BY <1>2, <1>5, <2>1, <2>2, <2>3, <3>2, NoThreadIsNone
      <3> QED BY <3>1, <3>2
    <2>5. PlaceInv'
      <3>1. ASSUME NEW x \in Threads
            PROVE  /\ Waits(x)' <=> Queued(x)' \/ joinings'[x] # NoThread
                   /\ In(Queue', x) => joinings'[x] = NoThread
        <4>1. Queued(x)' <=> In(Queue, x)
          BY <1>1, <1>2 DEF Queued, Empties
        <4>2. onReturn'[x] = IF x = current THEN "none" ELSE onReturn[x]
          BY <2>1 DEF ServedInv, SchedOK, BaseInv, Types
        <4>3. Waits(x)' <=> Waits(x) \/ x = current
          BY <1>2, <1>8, <2>1, <4>2 DEF Waits
        <4> QED BY <1>1, <1>3, <2>2, <2>3, <4>1, <4>3, NoThreadIsNone
      <3> QED BY <1>1, <1>2, <1>3, <3>1 DEF PlaceInv
    <2> QED BY <2>1, <2>4, <2>5 DEF NoAssert
  <1>9. \/ Stop("unsupported")
        \/ /\ joinables[t].joiner = NoThread
           /\ joinables' = [joinables EXCEPT ![t] = NoJoinee]
           /\ UNCHANGED <<live, active, joinings, onReturn, halted>>
        \/ /\ t # current /\ joinables[t] = NewJoinee
           /\ joinables' = [joinables EXCEPT ![t].joiner = current]
           /\ joinings' = [joinings EXCEPT ![current] = t]
           /\ BlockThread({}, "none", held)
           /\ UNCHANGED <<live, newId, hth, slot, cancel>>
    <2>1. joinables[t].st = "done" => joinables[t].joiner = NoThread
      BY <1>5
    <2>2. CASE PthreadJoin(t)
      BY <2>1, <2>2 DEF PthreadJoin, Returns, sched, history
    <2>3. CASE PthreadDetach(t)
      BY <2>3 DEF PthreadDetach, Returns, sched, history
    <2> QED BY <2>2, <2>3
  <1> QED BY <1>6, <1>7, <1>8, <1>9

\* An active thread ends, alone or with the joiner it wakes.
LEMMA PlaceKill ==
    ASSUME ServedInv, Runs, NEW t \in active, Waking(JoinerOf(t)), KillThread(t),
           Queue' = Queue, UNCHANGED releasing, halted' \in {"no", "nocore"}
    PROVE  JoinInv' /\ PlaceInv' /\ NoAssert'
  <1>1. /\ halted = "no" /\ releasing \notin Barriers /\ releasing' \notin Barriers
        /\ t \in Threads /\ active \subseteq live
    BY NoThreadIsNone, Placed DEF Runs, Objects, ServedInv
  <1>2. /\ OneSpot(Queue)
        /\ \A x \in Threads : /\ Waits(x) <=> In(Queue, x) \/ joinings[x] # NoThread
                              /\ In(Queue, x) => joinings[x] = NoThread
    BY <1>1 DEF ServedInv, PlaceInv, Queued, Empties
  <1>3. /\ joinables \in [Threads -> [st : {"no", "run", "done"}, joiner : Threads \cup {NoThread}]]
        /\ joinings \in [Threads -> Threads \cup {NoThread}] /\ onReturn \in [Threads -> Marks]
    BY DEF ServedInv, SchedOK, BaseInv, Types
  <1>4. \A x \in Threads :
            /\ \A j \in Threads : /\ joinables[x].joiner = j <=> joinings[j] = x
                                  /\ joinables[x].joiner = j => j \in live \ active
            /\ joinables[x].st = "run" => x \in live
            /\ joinables[x].st = "done" => x \notin live
            /\ joinables[x].joiner # NoThread => joinables[x].st = "run"
    BY <1>1 DEF ServedInv, JoinInv
  <1> DEFINE J == JoinerOf(t)
  <1>5. \A j \in Threads : j \in J <=> joinings[j] = t
    <2>1. \A j \in Threads : joinables[t].joiner = j => joinables[t].st # "no"
      BY <1>1, <1>4, NoThreadIsNone
    <2> QED BY <1>1, <1>4, <2>1 DEF JoinerOf
  <1>6. /\ joinables' = [joinables EXCEPT ![t] =
              IF @.st = "no" \/ @.joiner # NoThread THEN NoJoinee ELSE DoneJoinee]
        /\ joinings' = [j \in Threads |-> IF j \in J THEN NoThread ELSE joinings[j]]
        /\ live' = live \ {t} /\ active' = (active \cup J) \ {t}
        /\ onReturn' = [onReturn EXCEPT ![t] = "none"]
    BY DEF KillThread, KillJoinee
  <1>7. J \subseteq live \ active /\ J \subseteq Threads
    BY DEF Waking, JoinerOf
  <1> HIDE DEF J
  <1>8. joinings[t] = NoThread /\ ~In(Queue, t) /\ \A j \in J : ~In(Queue, j)
    BY <1>1, <1>2, <1>5, <1>7, NoThreadIsNone DEF Waits
  <1>9. /\ joinables'[t].joiner = NoThread /\ joinables'[t].st \in {"no", "done"}
        /\ \A x \in Threads \ {t} : joinables'[x] = joinables[x]
        /\ \A x \in Threads : joinings'[x] = IF x \in J THEN NoThread ELSE joinings[x]
        /\ \A x \in Threads : onReturn'[x] = IF x = t THEN "none" ELSE onReturn[x]
    BY <1>1, <1>3, <1>6 DEF NoJoinee, DoneJoinee
  <1>10. JoinInv'
    <2> SUFFICES ASSUME NEW x \in Threads
                 PROVE  /\ \A j \in Threads :
                              /\ joinables'[x].joiner = j <=> joinings'[j] = x
                              /\ joinables'[x].joiner = j => j \in live' \ active'
                        /\ joinables'[x].st = "run" => x \in live'
                        /\ joinables'[x].st = "done" => x \notin live'
                        /\ joinables'[x].joiner # NoThread => joinables'[x].st = "run"
      BY DEF JoinInv
    <2>1. CASE x = t
      BY <1>1, <1>5, <1>6, <1>9, <2>1, NoThreadIsNone
    <2>2. CASE x # t
      <3>1. \A j \in Threads : joinings[j] = x => j \notin J /\ j # t
        BY <1>5, <1>8, <2>2, NoThreadIsNone
      <3>2. \A j \in Threads : joinables'[x].joiner = j <=> joinings'[j] = x
        BY <1>4, <1>9, <2>2, <3>1, NoThreadIsNone
      <3>3. \A j \in Threads : joinables'[x].joiner = j => j \in live' \ active'
        BY <1>4, <1>6, <1>9, <2>2, <3>1
      <3> QED BY <1>4, <1>6, <1>9, <2>2, <3>2, <3>3
    <2> QED BY <2>1, <2>2
  <1>11. PlaceInv'
    <2>1. ASSUME NEW x \in Threads
          PROVE  /\ Waits(x)' <=> Queued(x)' \/ joinings'[x] # NoThread
                 /\ In(Queue', x) => joinings'[x] = NoThread
      <3>1. Queued(x)' <=> In(Queue, x)
        BY <1>1 DEF Queued, Empties
      <3>2. Waits(x)' <=> Waits(x) /\ x \notin J
        BY <1>1, <1>6, <1>7, <1>9 DEF Waits
      <3> QED BY <1>2, <1>8, <1>9, <3>1, <3>2
    <2> QED BY <1>1, <1>2, <2>1 DEF PlaceInv
  <1> QED BY <1>10, <1>11 DEF NoAssert

\* The joiner an ending thread wakes is blocked.
LEMMA JoinerBlocked ==
    ASSUME ServedInv, halted = "no", NEW t \in Threads PROVE Waking(JoinerOf(t))
  BY DEF ServedInv, JoinInv, JoinerOf, Waking

\* pthread_exit finds its joiner blocked and wakes it.
LEMMA PlaceExit ==
    ASSUME Regular, ServedInv, [Next]_vars, PthreadExit
    PROVE  JoinInv' /\ PlaceInv' /\ NoAssert'
  <1>1. /\ Runs /\ halted = "no" /\ current \in active /\ current \in Threads
        /\ Queue' = Queue /\ UNCHANGED releasing
    BY Placed DEF PthreadExit, Runs, queues, Queue, ServedInv, SchedOK, SchedInv
  <1>2. Waking(JoinerOf(current))
    BY <1>1, JoinerBlocked
  <1>3. KillThread(current) /\ Resume(live', coreActive', nactive', executed \ {current}, TRUE)
    BY <1>1, <1>2 DEF PthreadExit
  <1>4. halted' \in {"no", "nocore", "astray"}
    BY <1>1, <1>3 DEF Resume
  <1>5. halted' # "astray"
    BY SchedNext DEF ServedInv, SchedInv
  <1> QED BY <1>1, <1>2, <1>3, <1>4, <1>5, PlaceKill

\* A cancellation of an active thread is an exit of that thread.
LEMMA PlaceCancel ==
    ASSUME Regular, ServedInv, NEW t \in Threads, NEW s, PthreadCancel(t, s)
    PROVE  JoinInv' /\ PlaceInv' /\ NoAssert'
  <1>1. /\ Runs /\ halted = "no" /\ Queue' = Queue /\ UNCHANGED releasing
        /\ releasing \notin Barriers /\ releasing' \notin Barriers
    BY NoThreadIsNone DEF PthreadCancel, Runs, queues, Queue, Objects
  <1>2. Waking(JoinerOf(t))
    BY <1>1, JoinerBlocked
  <1>3. \/ /\ Returns \/ Stop("unsupported")
           /\ UNCHANGED <<joins, history>>
        \/ t \in active /\ KillThread(t) /\ UNCHANGED halted
    BY <1>2 DEF PthreadCancel, Regular, Stop
  <1>4. CASE (Returns \/ Stop("unsupported")) /\ UNCHANGED <<joins, history>>
    <2>1. UNCHANGED <<live, active, joinables, joinings, onReturn>> /\ halted' # "assert"
      BY <1>1, <1>4 DEF Returns, Stop, sched, joins, history
    <2> QED BY <1>1, <2>1, StillPlaces
  <1>5. CASE t \in active /\ KillThread(t) /\ UNCHANGED halted
    BY <1>1, <1>2, <1>5, PlaceKill
  <1> QED BY <1>3, <1>4, <1>5

\* A new thread stands nowhere.
LEMMA PlaceCreate ==
    ASSUME Regular, ServedInv, NEW j \in BOOLEAN, PthreadCreate(j)
    PROVE  JoinInv' /\ PlaceInv' /\ NoAssert'
  <1>1. /\ Runs /\ halted = "no" /\ Queue' = Queue /\ UNCHANGED releasing
        /\ releasing \notin Barriers /\ releasing' \notin Barriers
    BY NoThreadIsNone DEF PthreadCreate, Runs, queues, Queue, Objects
  <1>2. CASE Stop("unsupported")
    BY <1>1, <1>2, StillPlaces DEF Stop, sched, joins, history
  <1>3. CASE /\ live' = live \cup {newId} /\ active' = active \cup {newId}
             /\ joinables' = [joinables EXCEPT ![newId] = IF j THEN NewJoinee ELSE NoJoinee]
             /\ UNCHANGED <<current, joinings, onReturn, halted>>
    <2>1. newId \in Threads /\ newId \notin live
      BY Placed, EEPthreadAssumption DEF PthreadCreate, Threads, ServedInv
    <2>2. /\ joinables \in [Threads -> [st : {"no", "run", "done"}, joiner : Threads \cup {NoThread}]]
          /\ joinings \in [Threads -> Threads \cup {NoThread}]
      BY DEF ServedInv, SchedOK, BaseInv, Types
    <2>3. \A x \in Threads :
              /\ \A y \in Threads : /\ joinables[x].joiner = y <=> joinings[y] = x
                                    /\ joinables[x].joiner = y => y \in live \ active
              /\ joinables[x].st = "run" => x \in live
              /\ joinables[x].st = "done" => x \notin live
              /\ joinables[x].joiner # NoThread => joinables[x].st = "run"
      BY <1>1 DEF ServedInv, JoinInv
    <2>4. /\ OneSpot(Queue)
          /\ \A x \in Threads : /\ Waits(x) <=> In(Queue, x) \/ joinings[x] # NoThread
                                /\ In(Queue, x) => joinings[x] = NoThread
      BY <1>1 DEF ServedInv, PlaceInv, Queued, Empties
    <2>5. joinables[newId].joiner = NoThread
      BY <2>1, <2>3
    <2>6. /\ joinables'[newId].joiner = NoThread /\ joinables'[newId].st \in {"no", "run"}
          /\ \A x \in Threads \ {newId} : joinables'[x] = joinables[x]
      BY <1>3, <2>1, <2>2 DEF NewJoinee, NoJoinee
    <2>7. JoinInv'
      <3> SUFFICES ASSUME NEW x \in Threads
                   PROVE  /\ \A y \in Threads :
                                /\ joinables'[x].joiner = y <=> joinings[y] = x
                                /\ joinables'[x].joiner = y => y \in live' \ active'
                          /\ joinables'[x].st = "run" => x \in live'
                          /\ joinables'[x].st = "done" => x \notin live'
                          /\ joinables'[x].joiner # NoThread => joinables'[x].st = "run"
        BY <1>3 DEF JoinInv
      <3>1. CASE x = newId
        BY <1>3, <2>1, <2>3, <2>5, <2>6, <3>1, NoThreadIsNone
      <3>2. CASE x # newId
        BY <1>3, <2>1, <2>3, <2>6, <3>2
      <3> QED BY <3>1, <3>2
    <2>8. PlaceInv'
      <3>1. \A x \in Threads : Queued(x)' <=> In(Queue, x)
        BY <1>1 DEF Queued, Empties
      <3>2. \A x \in Threads : Waits(x)' <=> Waits(x)
        BY <1>3, <2>1 DEF Waits
      <3> QED BY <1>1, <1>3, <2>4, <3>1, <3>2 DEF PlaceInv
    <2> QED BY <1>1, <1>3, <2>7, <2>8 DEF NoAssert
  <1> QED BY <1>2, <1>3 DEF PthreadCreate, history

\* The handlers that touch no queue, and the yield.
LEMMA PlaceRest ==
    ASSUME Regular, ServedInv, [Next]_vars,
           \/ ProcessIns \/ Replay \/ DoContextSwitch \/ Fini
           \/ \E c \in Conds : PthreadCondBroadcast(c)
           \/ \E b \in Barriers : \/ PthreadBarrierDestroy(b)
                                  \/ \E n \in 1 .. MaxThreads : PthreadBarrierInit(b, n)
           \/ \E e, a \in BOOLEAN : PthreadSetcancel(e, a)
    PROVE  JoinInv' /\ PlaceInv' /\ NoAssert'
  <1>1. /\ halted = "no" /\ releasing \notin Barriers /\ current \in active
        /\ onReturn \in [Threads -> Marks]
    BY NoThreadIsNone DEF ProcessIns, Replay, DoContextSwitch, Fini, PthreadCondBroadcast,
       PthreadBarrierDestroy, PthreadBarrierInit, PthreadSetcancel, Runs, Objects,
       ServedInv, SchedOK, SchedInv, BaseInv, Types
  <1>2. CASE ProcessIns
    <2>1. /\ Queue' = Queue /\ UNCHANGED <<live, active, joinables, joinings, onReturn, releasing>>
          /\ halted' # "assert"
      BY <1>1, <1>2 DEF ProcessIns, Resume, queues, Queue, joins, history
    <2> QED BY <1>1, <2>1, StillPlaces
  <1>3. CASE Replay
    <2>1. /\ Queue' = Queue /\ UNCHANGED <<live, active, joinables, joinings, releasing, halted>>
          /\ onReturn' = [onReturn EXCEPT ![current] = "none"]
      BY <1>3 DEF Replay, queues, Queue, joins
    <2>2. \A t \in Threads : onReturn'[t] = onReturn[t] \/ t \in active
      BY <1>1, <2>1
    <2> QED BY <1>1, <2>1, <2>2, StillPlaces
  <1>4. CASE DoContextSwitch
    <2>1. /\ Queue' = Queue /\ Runs /\ BlockThread({}, "yield", held)
          /\ UNCHANGED <<live, newId, hth, slot, releasing, joinables, joinings>>
      BY <1>4 DEF DoContextSwitch, queues, Queue, joins
    <2>2. OneSpot(Queue) /\ OneSpot(Queue')
      BY <1>1, <2>1 DEF ServedInv, PlaceInv
    <2> QED BY <2>1, <2>2, BlockPlaces
  <1>5. CASE \/ Fini \/ \E c \in Conds : PthreadCondBroadcast(c)
             \/ \E e, a \in BOOLEAN : PthreadSetcancel(e, a)
    <2>1. /\ Queue' = Queue /\ UNCHANGED <<live, active, joinables, joinings, onReturn>>
          /\ halted' # "assert"
      BY <1>1, <1>5 DEF Fini, PthreadCondBroadcast, PthreadSetcancel, Returns, sched, joins,
         history, queues, Queue
    <2>2. releasing' \notin Barriers
      BY <1>1, <1>5, EEPthreadAssumption DEF Fini, PthreadCondBroadcast, PthreadSetcancel
    <2> QED BY <1>1, <2>1, <2>2, StillPlaces
  <1>6. ASSUME NEW b \in Barriers, \/ PthreadBarrierDestroy(b)
                                   \/ \E n \in 1 .. MaxThreads : PthreadBarrierInit(b, n)
        PROVE  JoinInv' /\ PlaceInv' /\ NoAssert'
    <2>1. /\ UNCHANGED <<live, active, joinables, joinings, onReturn, releasing, halted,
                         mutex, waiters>>
          /\ barrier[b].waiters = <<>>
      BY <1>6 DEF PthreadBarrierDestroy, PthreadBarrierInit, Returns, sched, joins, history
    <2>2. /\ barrier'[b].waiters = <<>>
          /\ \A d \in Barriers \ {b} : barrier'[d] = barrier[d]
      <3>1. barrier \in [Barriers -> BarrierType]
        BY MapsTyped DEF BarrierMap
      <3>2. CASE PthreadBarrierDestroy(b)
        BY <2>1, <3>1, <3>2 DEF PthreadBarrierDestroy, BarrierType
      <3>3. CASE \E n \in 1 .. MaxThreads : PthreadBarrierInit(b, n)
        BY <2>1, <3>1, <3>3 DEF PthreadBarrierInit, BarrierType
      <3> QED BY <1>6, <3>2, <3>3
    <2>3. QueueOf(mutex, waiters, barrier') = QueueOf(mutex, waiters, barrier)
      BY <2>1, <2>2, MapsTyped, BarrierSteps
    <2>4. Queue' = Queue
      BY <2>1, <2>3 DEF Queue
    <2> QED BY <1>1, <2>1, <2>4, StillPlaces
  <1> QED BY <1>2, <1>3, <1>4, <1>5, <1>6

\* Every step of a regular program leaves every blocked thread where somebody
\* wakes it.
LEMMA ServedNext ==
    ASSUME Regular, ServedInv, NonNegative, [Next]_vars PROVE ServedInv'
  <1>1. SchedOK'
    BY BaseNext, CountNext, SchedNext DEF ServedInv, SchedOK, Regular
  <1> SUFFICES JoinInv' /\ PlaceInv' /\ NoAssert'
    BY <1>1 DEF ServedInv
  <1>2. ASSUME NEW c \in Conds, PthreadCondSignal(c) \/ BroadcastNext(c)
        PROVE  JoinInv' /\ PlaceInv' /\ NoAssert'
    <2>1. /\ halted = "no" /\ waiters[c] # <<>> /\ ReleaseWaiter(c)
          /\ releasing \in {"none", c} /\ releasing' \in {"none", c}
      BY <1>2 DEF PthreadCondSignal, BroadcastNext, Runs, ServedInv, SchedOK, BaseInv, LoopInv
    <2>2. releasing \notin Barriers /\ releasing' \notin Barriers
      BY <2>1, EEPthreadAssumption
    <2> QED BY <2>1, <2>2, PlaceReleaseWaiter
  <1>3. CASE Mutual
    BY <1>3, PlaceLock, PlaceUnlock, PlaceCondWait DEF Mutual
  <1>4. CASE Release
    BY <1>2, <1>4, PlaceRest, PlaceBarrierWait, PlaceBarrierNext DEF Release
  <1>5. CASE Lifecycle
    BY <1>5, PlaceRest, PlaceCreate, PlaceExit, PlaceJoin, PlaceCancel
    DEF Lifecycle, PthreadTestcancel, PthreadCancelCall, PthreadKill
  <1>6. CASE UNCHANGED vars
    <2>1. UNCHANGED <<live, active, current, mutex, waiters, barrier, releasing, joinables,
                      joinings, onReturn, halted>>
      BY <1>6 DEF vars, sched, queues, joins, history
    <2>2. Queue' = Queue
      BY <2>1 DEF Queue
    <2>3. PlaceInv'
      BY <2>1, <2>2 DEF ServedInv, PlaceInv, Waits, Queued, Empties
    <2>4. JoinInv' /\ NoAssert'
      BY <2>1 DEF ServedInv, JoinInv, NoAssert
    <2> QED BY <2>3, <2>4
  <1> QED BY <1>3, <1>4, <1>5, <1>6, PlaceRest DEF Next, Halted

-----------------------------------------------------------------------------
(* Who holds the mutexes.                                                  *)

\* No count is negative, only recursive mutexes count above one, and an owner
\* was created before.
Counts ==
    \A m \in Mutexes : /\ mutex[m].count >= 0
                       /\ m \notin Recursive => mutex[m].count <= 1
                       /\ mutex[m].owner < newId
\* Ids not yet handed out have no history.
Fresh ==
    \A t \in Threads : t >= newId =>
        t \notin executed /\ onReturn[t] = "none" /\ \A m \in Mutexes : held[t][m] = 0
\* A thread with `executed' set is in no call: nothing awaits it on return and it
\* is not blocked.  A joiner awaits nothing either.
MarkInv ==
    halted = "no" => \A t \in Threads :
        /\ t \in executed => onReturn[t] = "none" /\ t \notin live \ active
        /\ joinings[t] # NoThread => onReturn[t] = "none"
\* What a queued thread will hold when its call returns: the mutex it spins on, or
\* the mutex it gave to the condition variable.
QueueMarks ==
    halted = "no" =>
        /\ \A m \in Mutexes : \A i \in 1 .. Len(mutex[m].spin) :
              onReturn[mutex[m].spin[i]] = m
        /\ \A c \in Conds : \A i \in 1 .. Len(waiters[c]) :
              onReturn[waiters[c][i].th] = waiters[c][i].mx
        /\ \A b \in Barriers : \A i \in 1 .. Len(barrier[b].waiters) :
              onReturn[barrier[b].waiters[i]] = "none"
\* Ownership of one thread and one mutex.
Owns(t, m) ==
    IF mutex[m].count > 0 /\ mutex[m].owner = t
    THEN mutex[m].count = held[t][m] + (IF Handed(t, m) THEN 1 ELSE 0)
    ELSE held[t][m] = 0 /\ ~Handed(t, m)
\* The inductive invariant, on top of ServedInv.
OwnInv == Counts /\ Fresh /\ MarkInv /\ QueueMarks /\ Ownership

-----------------------------------------------------------------------------
(* Who holds the mutexes.                                                  *)

\* A queue whose members all have a mark keeps that when it loses its head or
\* gains a member with the mark.
LEMMA MarksKept ==
    ASSUME ServedInv, QueueMarks, halted = "no", [Next]_vars,
           \A t \in Threads : In(Queue, t) => onReturn'[t] = onReturn[t],
           \A m \in Mutexes :
              \/ mutex'[m].spin = mutex[m].spin
              \/ mutex[m].spin # <<>> /\ mutex'[m].spin = Tail(mutex[m].spin)
              \/ \E t \in Threads : /\ mutex'[m].spin = Append(mutex[m].spin, t)
                                    /\ onReturn'[t] = m,
           \A c \in Conds :
              \/ waiters'[c] = waiters[c]
              \/ waiters[c] # <<>> /\ waiters'[c] = Tail(waiters[c])
              \/ \E w \in [th : Threads, mx : Mutexes] :
                    waiters'[c] = Append(waiters[c], w) /\ onReturn'[w.th] = w.mx,
           \A b \in Barriers :
              \/ barrier'[b].waiters = barrier[b].waiters
              \/ /\ barrier[b].waiters # <<>>
                 /\ barrier'[b].waiters = Tail(barrier[b].waiters)
              \/ \E t \in Threads : /\ barrier'[b].waiters = Append(barrier[b].waiters, t)
                                    /\ onReturn'[t] = "none"
    PROVE  QueueMarks'
  <1>1. /\ mutex \in MutexMap /\ waiters \in WaiterMap /\ barrier \in BarrierMap
    BY MapsTyped
  <1>2. ASSUME NEW m \in Mutexes, NEW i \in 1 .. Len(mutex'[m].spin)
        PROVE  onReturn'[mutex'[m].spin[i]] = m
    <2> DEFINE s == mutex[m].spin
    <2>1. s \in Seq(Threads) /\ Len(s) \in Nat
      <3>1. s \in Seq(Threads)
        BY <1>1 DEF MutexMap, MutexType
      <3> QED BY <3>1
    <2>2. ASSUME NEW k \in 1 .. Len(s) PROVE onReturn'[s[k]] = m
      <3>1. Queue[m] = s /\ m \in Objects
        BY <1>1, QueueFacts DEF Queue
      <3>2. s[k] \in Threads /\ onReturn[s[k]] = m
        BY <2>1, ElementOfSeq DEF QueueMarks
      <3>3. In(Queue, s[k])
        BY <3>1 DEF In
      <3> QED BY <3>2, <3>3
    <2> HIDE DEF s
    <2>3. CASE mutex'[m].spin = s
      BY <1>2, <2>2, <2>3
    <2>4. CASE s # <<>> /\ mutex'[m].spin = Tail(s)
      <3>1. /\ Len(mutex'[m].spin) = Len(s) - 1
            /\ \A k \in 1 .. Len(mutex'[m].spin) : mutex'[m].spin[k] = s[k + 1]
        BY <2>1, <2>4, HeadTailProperties
      <3>2. i + 1 \in 1 .. Len(s) /\ mutex'[m].spin[i] = s[i + 1]
        BY <1>2, <2>1, <3>1
      <3> QED BY <2>2, <3>2
    <2>5. ASSUME NEW t \in Threads, mutex'[m].spin = Append(s, t), onReturn'[t] = m
          PROVE  onReturn'[mutex'[m].spin[i]] = m
      <3>1. \/ i \in 1 .. Len(s) /\ mutex'[m].spin[i] = s[i]
            \/ mutex'[m].spin[i] = t
        BY <1>2, <2>1, <2>5
      <3> QED BY <2>2, <2>5, <3>1
    <2> QED BY <2>3, <2>4, <2>5 DEF s
  <1>3. ASSUME NEW b \in Barriers, NEW i \in 1 .. Len(barrier'[b].waiters)
        PROVE  onReturn'[barrier'[b].waiters[i]] = "none"
    <2> DEFINE s == barrier[b].waiters
    <2>1. s \in Seq(Threads) /\ Len(s) \in Nat
      <3>1. s \in Seq(Threads)
        BY <1>1 DEF BarrierMap, BarrierType
      <3> QED BY <3>1
    <2>2. ASSUME NEW k \in 1 .. Len(s) PROVE onReturn'[s[k]] = "none"
      <3>1. Queue[b] = s /\ b \in Objects
        BY <1>1, QueueFacts DEF Queue
      <3>2. s[k] \in Threads /\ onReturn[s[k]] = "none"
        BY <2>1, ElementOfSeq DEF QueueMarks
      <3>3. In(Queue, s[k])
        BY <3>1 DEF In
      <3> QED BY <3>2, <3>3
    <2> HIDE DEF s
    <2>3. CASE barrier'[b].waiters = s
      BY <1>3, <2>2, <2>3
    <2>4. CASE s # <<>> /\ barrier'[b].waiters = Tail(s)
      <3>1. /\ Len(barrier'[b].waiters) = Len(s) - 1
            /\ \A k \in 1 .. Len(barrier'[b].waiters) : barrier'[b].waiters[k] = s[k + 1]
        BY <2>1, <2>4, HeadTailProperties
      <3>2. i + 1 \in 1 .. Len(s) /\ barrier'[b].waiters[i] = s[i + 1]
        BY <1>3, <2>1, <3>1
      <3> QED BY <2>2, <3>2
    <2>5. ASSUME NEW t \in Threads, barrier'[b].waiters = Append(s, t), onReturn'[t] = "none"
          PROVE  onReturn'[barrier'[b].waiters[i]] = "none"
      <3>1. \/ i \in 1 .. Len(s) /\ barrier'[b].waiters[i] = s[i]
            \/ barrier'[b].waiters[i] = t
        BY <1>3, <2>1, <2>5
      <3> QED BY <2>2, <2>5, <3>1
    <2> QED BY <2>3, <2>4, <2>5 DEF s
  <1>4. ASSUME NEW c \in Conds, NEW i \in 1 .. Len(waiters'[c])
        PROVE  onReturn'[waiters'[c][i].th] = waiters'[c][i].mx
    <2> DEFINE s == waiters[c]
    <2>1. s \in Seq([th : Threads, mx : Mutexes]) /\ Len(s) \in Nat
      <3>1. s \in Seq([th : Threads, mx : Mutexes])
        BY <1>1 DEF WaiterMap
      <3> QED BY <3>1, LenProperties
    <2>2. ASSUME NEW k \in 1 .. Len(s) PROVE onReturn'[s[k].th] = s[k].mx
      <3>1. Len(Queue[c]) = Len(s) /\ Queue[c][k] = s[k].th /\ c \in Objects
        BY <1>1, QueueFacts DEF Queue
      <3>2. s[k] \in [th : Threads, mx : Mutexes] /\ onReturn[s[k].th] = s[k].mx
        <4>1. s[k] \in [th : Threads, mx : Mutexes]
          BY <2>1, ElementOfSeq
        <4>2. onReturn[s[k].th] = s[k].mx
          BY DEF QueueMarks
        <4> QED BY <4>1, <4>2
      <3>3. In(Queue, s[k].th)
        BY <3>1 DEF In
      <3> QED BY <3>2, <3>3
    <2> HIDE DEF s
    <2>3. CASE waiters'[c] = s
      BY <1>4, <2>2, <2>3
    <2>4. CASE s # <<>> /\ waiters'[c] = Tail(s)
      <3>1. /\ Len(waiters'[c]) = Len(s) - 1
            /\ \A k \in 1 .. Len(waiters'[c]) : waiters'[c][k] = s[k + 1]
        BY <2>1, <2>4, HeadTailProperties
      <3>2. i + 1 \in 1 .. Len(s) /\ waiters'[c][i] = s[i + 1]
        BY <1>4, <2>1, <3>1
      <3> QED BY <2>2, <3>2
    <2>5. ASSUME NEW w \in [th : Threads, mx : Mutexes], waiters'[c] = Append(s, w),
                 onReturn'[w.th] = w.mx
          PROVE  onReturn'[waiters'[c][i].th] = waiters'[c][i].mx
      <3>1. \/ i \in 1 .. Len(s) /\ waiters'[c][i] = s[i]
            \/ waiters'[c][i] = w
        BY <1>4, <2>1, <2>5, AppendProperties
      <3> QED BY <2>2, <2>5, <3>1
    <2> QED BY <2>3, <2>4, <2>5 DEF s
  <1> QED BY <1>2, <1>3, <1>4 DEF QueueMarks

\* What Ownership says of one thread and one mutex.
LEMMA OwnershipIs == ASSUME halted = "no"
                     PROVE  Ownership <=> \A m \in Mutexes, t \in live : Owns(t, m)
  BY DEF Ownership, Owns

\* A woken thread has not executed since it blocked.
LEMMA WakeMarks ==
    ASSUME ServedInv, MarkInv, halted = "no", NEW ws \in SUBSET Threads, Wake(ws),
           \A t \in ws : Queued(t),
           UNCHANGED <<live, executed, onReturn, joinings>>
    PROVE  /\ halted' = "no" /\ MarkInv'
           /\ \A t \in ws : t \in live \ active /\ t \notin executed
           /\ \A t \in Threads, n \in Mutexes :
                 Handed(t, n)' <=> Handed(t, n) \/ (t \in ws /\ onReturn[t] = n)
  <1>1. \A t \in ws : t \in live \ active /\ t \notin executed
    BY DEF ServedInv, PlaceInv, Waits, MarkInv
  <1>2. active' = active \cup ws /\ halted' = "no"
    BY <1>1 DEF Wake, Waking
  <1>3. MarkInv'
    BY <1>2 DEF MarkInv
  <1>4. ASSUME NEW t \in Threads, NEW n \in Mutexes
        PROVE  Handed(t, n)' <=> Handed(t, n) \/ (t \in ws /\ onReturn[t] = n)
    BY <1>1, <1>2 DEF Handed
  <1> QED BY <1>1, <1>2, <1>3, <1>4

\* The thread that blocks leaves at its call; those it wakes have not executed.
LEMMA BlockMarks ==
    ASSUME ServedInv, MarkInv, Fresh, Runs, NEW ws \in SUBSET Threads, NEW m, NEW h,
           BlockThread(ws, m, h), \A t \in ws : Queued(t),
           UNCHANGED <<live, newId, hth, slot>>,
           \A t \in Threads : joinings'[t] = joinings[t] \/ (t = current /\ m = "none")
    PROVE  /\ MarkInv' /\ held' = h /\ halted' \in {"no", "deadlock"}
           /\ \A t \in Threads : onReturn'[t] = IF t = current THEN m ELSE onReturn[t]
           /\ \A t \in Threads : t >= newId => t \notin executed' /\ onReturn'[t] = "none"
           /\ \A t \in ws : t \in live \ active /\ t \notin executed /\ t # current
           /\ halted' = "no" => \A t \in Threads, n \in Mutexes :
                 Handed(t, n)' <=> t # current /\ (Handed(t, n) \/ (t \in ws /\ onReturn[t] = n))
  <1>1. /\ halted = "no" /\ current \in active /\ current \in executed
        /\ current \in Threads /\ current < newId /\ joinings[current] = NoThread
    <2>1. halted = "no" /\ current \in active /\ current \in executed
      BY DEF Runs, ServedInv, SchedOK, SchedInv
    <2>2. current \in Threads
      BY <2>1, Placed DEF ServedInv
    <2>3. current \in 0 .. newId - 1 /\ newId \in Nat
      BY <2>1, Placed DEF ServedInv, SchedOK, CountInv
    <2>4. joinings[current] = NoThread
      BY <2>1, <2>2 DEF ServedInv, PlaceInv, Waits
    <2> QED BY <2>1, <2>2, <2>3, <2>4
  <1>2. \A t \in ws : t \in live \ active /\ t \notin executed /\ t # current
    BY <1>1 DEF ServedInv, PlaceInv, Waits, MarkInv
  <1>3. Waking(ws)
    BY <1>2 DEF Waking
  <1>4. /\ active' = (active \cup ws) \ {current}
        /\ held' = h /\ onReturn' = [onReturn EXCEPT ![current] = m]
        /\ \/ halted' = "no" /\ executed' = executed \ {current}
           \/ halted' = "deadlock" /\ UNCHANGED executed
    BY <1>3, BlockEffect DEF ServedInv
  <1>5. \A t \in Threads : onReturn'[t] = IF t = current THEN m ELSE onReturn[t]
    BY <1>4 DEF ServedInv, SchedOK, BaseInv, Types
  <1>6. MarkInv'
    <2> SUFFICES ASSUME halted' = "no", NEW t \in Threads
                 PROVE  /\ t \in executed' => onReturn'[t] = "none" /\ t \notin live' \ active'
                        /\ joinings'[t] # NoThread => onReturn'[t] = "none"
      BY DEF MarkInv
    <2>1. /\ t \in executed => onReturn[t] = "none" /\ t \notin live \ active
          /\ joinings[t] # NoThread => onReturn[t] = "none"
      BY <1>1 DEF MarkInv
    <2> QED BY <1>1, <1>4, <1>5, <2>1
  <1>7. \A t \in Threads : t >= newId => t \notin executed' /\ onReturn'[t] = "none"
    BY <1>1, <1>4, <1>5 DEF Fresh
  <1>8. ASSUME halted' = "no", NEW t \in Threads, NEW n \in Mutexes
        PROVE  Handed(t, n)' <=> t # current /\ (Handed(t, n) \/ (t \in ws /\ onReturn[t] = n))
    <2>1. executed' = executed \ {current}
      BY <1>4, <1>8
    <2> QED BY <1>2, <1>4, <1>5, <2>1 DEF Handed
  <1> QED BY <1>2, <1>4, <1>5, <1>6, <1>7, <1>8

\* What a thread that executes knows of the mutexes: those it holds.
LEMMA RunningOwner ==
    ASSUME ServedInv, OwnInv, Runs
    PROVE  /\ halted = "no" /\ releasing = "none" /\ releasing \notin Barriers
           /\ current \in active /\ current \in live /\ current \in Threads
           /\ current \in executed /\ current < newId /\ newId \in Nat
           /\ onReturn[current] = "none" /\ ~In(Queue, current)
           /\ \A n \in Mutexes : /\ ~Handed(current, n) /\ held[current][n] \in Nat
                                 /\ IF mutex[n].count > 0 /\ mutex[n].owner = current
                                    THEN mutex[n].count = held[current][n]
                                    ELSE held[current][n] = 0
  <1>1. halted = "no" /\ releasing = "none" /\ current \in active /\ current \in executed
    BY DEF Runs, ServedInv, SchedOK, SchedInv
  <1>2. current \in live /\ current \in Threads /\ releasing \notin Barriers
    BY <1>1, Placed, NoThreadIsNone DEF ServedInv, Objects
  <1>3. current \in 0 .. newId - 1 /\ newId \in Nat
    BY <1>2, Placed DEF ServedInv, SchedOK, CountInv
  <1>4. onReturn[current] = "none"
    BY <1>1, <1>2 DEF OwnInv, MarkInv
  <1>5. ~In(Queue, current)
    BY <1>1, <1>2 DEF ServedInv, PlaceInv, Waits, Queued, Empties
  <1>6. ASSUME NEW n \in Mutexes
        PROVE  /\ ~Handed(current, n) /\ held[current][n] \in Nat
               /\ IF mutex[n].count > 0 /\ mutex[n].owner = current
                  THEN mutex[n].count = held[current][n]
                  ELSE held[current][n] = 0
    <2>1. ~Handed(current, n)
      BY <1>1 DEF Handed
    <2>2. held[current][n] \in Nat
      BY <1>2 DEF ServedInv, SchedOK, BaseInv, Types
    <2>3. Owns(current, n)
      BY <1>1, <1>2, OwnershipIs DEF OwnInv
    <2> QED BY <2>1, <2>2, <2>3 DEF Owns
  <1> QED BY <1>1, <1>2, <1>3, <1>4, <1>5, <1>6

\* A lock either makes its thread the owner once more or queues it.
LEMMA OwnLock ==
    ASSUME ServedInv, OwnInv, [Next]_vars, NEW m \in Mutexes,
           PthreadMutexLock(m) \/ PthreadMutexTrylock(m)
    PROVE  OwnInv'
  <1> DEFINE l == LockMutex(current, m, mutex[m])
  <1>1. /\ Runs /\ mutex' = [mutex EXCEPT ![m] = l]
        /\ UNCHANGED <<live, newId, hth, slot, barrier, joinables, joinings, waiters, releasing>>
    BY DEF PthreadMutexLock, PthreadMutexTrylock, Runs, Returns, sched, joins
  <1>2. /\ mutex[m] \in MutexType /\ mutex[m].count \in Nat
        /\ \A n \in Mutexes : mutex[n].count \in Nat
    BY MapsTyped DEF MutexMap, MutexType, OwnInv, Counts
  <1>3. mutex'[m] = l /\ \A n \in Mutexes \ {m} : mutex'[n] = mutex[n]
    BY <1>1, MapsTyped DEF MutexMap
  <1>4. halted = "no" /\ current \in Threads /\ current \in live /\ current < newId
        /\ ~In(Queue, current) /\ current \in executed /\ current \in active
    BY <1>1, RunningOwner
  <1>5. \A n \in Mutexes, t \in live : Owns(t, n)
    BY <1>4, OwnershipIs DEF OwnInv
  <1>6. live \subseteq Threads /\ held \in HeldType
    BY Placed DEF ServedInv, SchedOK, BaseInv, Types, HeldType
  <1> HIDE DEF l
  <1>7. CASE Blocks(current, m, mutex[m])
    <2>1. BlockThread({}, m, held) /\ {} \in SUBSET Threads
      BY <1>7 DEF PthreadMutexLock, PthreadMutexTrylock
    <2>2. l.spin = Append(mutex[m].spin, current) /\ l.count = mutex[m].count
          /\ l.owner = mutex[m].owner
      BY <1>2, <1>4, <1>7, LockCases DEF l, Blocks
    <2>3. /\ MarkInv' /\ held' = held /\ halted' \in {"no", "deadlock"}
          /\ \A t \in Threads : onReturn'[t] = IF t = current THEN m ELSE onReturn[t]
          /\ \A t \in Threads : t >= newId => t \notin executed' /\ onReturn'[t] = "none"
          /\ halted' = "no" => \A t \in Threads, n \in Mutexes :
                Handed(t, n)' <=> t # current /\ Handed(t, n)
      BY <1>1, <2>1, BlockMarks DEF OwnInv
    <2>4. Counts' /\ Fresh'
      BY <1>1, <1>3, <2>2, <2>3 DEF OwnInv, Counts, Fresh
    <2>5. Ownership'
      <3> SUFFICES ASSUME halted' = "no", NEW n \in Mutexes, NEW t \in live PROVE Owns(t, n)'
        BY <1>1 DEF Ownership, Owns
      <3>1. Handed(t, n)' <=> Handed(t, n)
        BY <1>4, <1>6, <2>3 DEF Handed
      <3>2. mutex'[n].count = mutex[n].count /\ mutex'[n].owner = mutex[n].owner
        BY <1>3, <2>2
      <3> QED BY <1>5, <2>3, <3>1, <3>2 DEF Owns
    <2>6. QueueMarks'
      <3>1. \A n \in Mutexes : \/ mutex'[n].spin = mutex[n].spin
                               \/ \E t \in Threads : /\ mutex'[n].spin = Append(mutex[n].spin, t)
                                                     /\ onReturn'[t] = n
        BY <1>3, <1>4, <2>2, <2>3
      <3>2. \A t \in Threads : In(Queue, t) => onReturn'[t] = onReturn[t]
        BY <1>4, <2>3
      <3> QED BY <1>1, <1>4, <3>1, <3>2, MarksKept DEF OwnInv
    <2> QED BY <2>3, <2>4, <2>5, <2>6 DEF OwnInv
  <1>8. CASE ~Blocks(current, m, mutex[m])
    <2>1. UNCHANGED <<active, executed, onReturn, halted>> /\ held' = Gain(held, current, m)
      BY <1>8 DEF PthreadMutexLock, PthreadMutexTrylock, Returns, sched
    <2>2. /\ l.spin = mutex[m].spin /\ l.owner = current
          /\ \/ mutex[m].count = 0 /\ l.count = 1 /\ held[current][m] = 0
             \/ /\ l.count = mutex[m].count + 1 /\ m \in Recursive
                /\ mutex[m].count > 0 /\ mutex[m].owner = current
      <3>1. \/ mutex[m].count = 0
            \/ mutex[m].count > 0 /\ Relocks(current, m, mutex[m])
        BY <1>2, <1>8 DEF Blocks
      <3>2. mutex[m].count = 0 => held[current][m] = 0
        BY <1>1, RunningOwner
      <3> QED BY <1>2, <1>4, <3>1, <3>2, LockCases DEF l, Relocks
    <2>3. \A t \in Threads, n \in Mutexes :
             held'[t][n] = IF t = current /\ n = m THEN held[t][n] + 1 ELSE held[t][n]
      BY <1>4, <1>6, <2>1 DEF Gain, HeldType
    <2>4. Counts'
      <3> SUFFICES ASSUME NEW n \in Mutexes
                   PROVE  /\ mutex'[n].count >= 0 /\ (n \notin Recursive => mutex'[n].count <= 1)
                          /\ mutex'[n].owner < newId
        BY <1>1 DEF Counts
      <3> QED BY <1>2, <1>3, <1>4, <2>2 DEF OwnInv, Counts
    <2>5. Fresh' /\ MarkInv'
      BY <1>1, <1>4, <2>1, <2>3 DEF OwnInv, Fresh, MarkInv
    <2>6. Ownership'
      <3> SUFFICES ASSUME NEW n \in Mutexes, NEW t \in live PROVE Owns(t, n)'
        BY <1>1 DEF Ownership, Owns
      <3>1. Handed(t, n)' <=> Handed(t, n)
        BY <2>1 DEF Handed
      <3>2. ~Handed(current, m) /\ Owns(t, n) /\ Owns(current, m) /\ t \in Threads
            /\ held[t][n] \in Nat
        BY <1>1, <1>4, <1>5, <1>6, RunningOwner DEF HeldType
      <3>3. CASE n # m
        BY <1>3, <2>3, <3>1, <3>2, <3>3 DEF Owns
      <3>4. CASE n = m /\ t = current
        BY <1>2, <1>3, <1>4, <2>2, <2>3, <3>1, <3>2, <3>4 DEF Owns
      <3>5. CASE n = m /\ t # current
        BY <1>2, <1>3, <1>4, <2>2, <2>3, <3>1, <3>2, <3>5 DEF Owns
      <3> QED BY <3>3, <3>4, <3>5
    <2>7. QueueMarks'
      <3>1. \A n \in Mutexes : mutex'[n].spin = mutex[n].spin
        BY <1>3, <2>2
      <3> QED BY <1>1, <1>4, <2>1, <3>1, MarksKept DEF OwnInv
    <2> QED BY <2>4, <2>5, <2>6, <2>7 DEF OwnInv
  <1> QED BY <1>7, <1>8

\* What an unlock by a thread that executes comes to: refused; passed on to a
\* thread that waits for this mutex and holds it not; freed; one level less.
LEMMA UnlockOutcome ==
    ASSUME ServedInv, OwnInv, Runs, NEW m \in Mutexes,
           held[current][m] > 0 \/ m \in ErrorCheck
    PROVE  LET s  == mutex[m]
               u  == UnlockMutex(current, m, s)
               ws == Unblocked(current, m, s)
               h  == held[current][m]
           IN  \/ /\ ws = {} /\ h = 0
                  /\ u.count = s.count /\ u.owner = s.owner /\ u.spin = s.spin
               \/ /\ s.spin # <<>> /\ ws = {Head(s.spin)} /\ h = 1
                  /\ s.count = 1 /\ s.owner = current
                  /\ u.count = 1 /\ u.owner = Head(s.spin) /\ u.spin = Tail(s.spin)
                  /\ onReturn[Head(s.spin)] = m /\ Queued(Head(s.spin))
                  /\ Head(s.spin) \in live /\ Head(s.spin) # current
               \/ /\ ws = {} /\ h = 1 /\ s.count = 1 /\ s.owner = current
                  /\ u.count = 0 /\ u.owner = s.owner /\ u.spin = s.spin
               \/ /\ ws = {} /\ h > 0 /\ s.count = h /\ s.owner = current
                  /\ u.count = s.count - 1 /\ u.owner = s.owner /\ u.spin = s.spin
                  /\ m \in Recursive
  <1> DEFINE s  == mutex[m]
             u  == UnlockMutex(current, m, s)
             ws == Unblocked(current, m, s)
             h  == held[current][m]
  <1>1. /\ s \in MutexType /\ s.count \in Nat /\ (m \notin Recursive => s.count <= 1)
        /\ current \in Threads /\ h \in Nat
        /\ IF s.count > 0 /\ s.owner = current THEN s.count = h ELSE h = 0
        /\ releasing \notin Barriers /\ ~In(Queue, current) /\ halted = "no"
    <2>1. s \in MutexType
      BY DEF ServedInv, SchedOK, BaseInv, Types, MutexType
    <2>2. s.count \in Nat /\ (m \notin Recursive => s.count <= 1)
      BY <2>1 DEF MutexType, OwnInv, Counts
    <2> QED BY <2>1, <2>2, RunningOwner
  <1>2. CASE s.spin # <<>>
    <2>1. s.spin \in Seq(Threads)
      BY <1>1 DEF MutexType
    <2>2. Head(s.spin) = s.spin[1] /\ Head(s.spin) \in Threads /\ 1 \in 1 .. Len(s.spin)
      <3>1. Len(s.spin) \in Nat \ {0}
        BY <1>2, <2>1, EmptySeq
      <3> QED BY <1>2, <2>1, <3>1, HeadTailProperties
    <2>3. onReturn[Head(s.spin)] = m
      BY <1>1, <2>2 DEF OwnInv, QueueMarks
    <2>4. In(Queue, Head(s.spin)) /\ Head(s.spin) # current
      <3>1. Queue[m] = s.spin /\ m \in Objects
        <4>1. mutex \in MutexMap /\ waiters \in WaiterMap /\ barrier \in BarrierMap
          BY DEF ServedInv, SchedOK, BaseInv, Types, MutexMap, MutexType, WaiterMap,
                 BarrierMap, BarrierType
        <4> QED BY <4>1, QueueFacts DEF Queue
      <3>2. In(Queue, Head(s.spin))
        BY <2>2, <3>1 DEF In
      <3> QED BY <1>1, <3>2
    <2>5. Queued(Head(s.spin))
      BY <1>1, <2>4 DEF Queued, Empties
    <2>6. Head(s.spin) \in live
      BY <1>1, <2>2, <2>5 DEF ServedInv, PlaceInv, Waits
    <2> HIDE DEF s
    <2>7. \/ Refuses(current, m, s) /\ h = 0
          \/ ~Refuses(current, m, s) /\ h > 0 /\ s.count = h /\ s.owner = current
      BY <1>1 DEF Refuses, s
    <2>8. CASE Refuses(current, m, s) /\ h = 0
      BY <1>1, <2>8, UnlockCases DEF Releases, Unblocked, s
    <2>9. CASE Releases(current, m, s) /\ h > 0 /\ s.count = h /\ s.owner = current
      <3>1. s.count = 1
        BY <1>1, <2>9 DEF Releases
      <3> QED BY <1>1, <1>2, <2>3, <2>4, <2>5, <2>6, <2>9, <3>1, UnlockCases DEF Unblocked, s
    <2>10. CASE ~Releases(current, m, s) /\ ~Refuses(current, m, s) /\ h > 0 /\ s.count = h
                /\ s.owner = current
      BY <1>1, <2>10, UnlockCases DEF Unblocked, s
    <2> QED BY <2>7, <2>8, <2>9, <2>10
  <1>3. CASE s.spin = <<>>
    <2>1. ws = {}
      BY <1>3 DEF Unblocked
    <2> HIDE DEF s, ws
    <2>2. \/ Refuses(current, m, s) /\ h = 0
          \/ ~Refuses(current, m, s) /\ h > 0 /\ s.count = h /\ s.owner = current
      BY <1>1 DEF Refuses, s
    <2>3. CASE Refuses(current, m, s) /\ h = 0
      BY <1>1, <2>1, <2>3, UnlockCases DEF Releases, s, ws
    <2>4. CASE Releases(current, m, s) /\ h > 0 /\ s.count = h /\ s.owner = current
      <3>1. s.count = 1
        BY <1>1, <2>4 DEF Releases
      <3> QED BY <1>1, <1>3, <2>1, <2>4, <3>1, UnlockCases DEF s, ws
    <2>5. CASE ~Releases(current, m, s) /\ ~Refuses(current, m, s) /\ h > 0 /\ s.count = h
               /\ s.owner = current
      BY <1>1, <2>1, <2>5, UnlockCases DEF s, ws
    <2> QED BY <2>2, <2>3, <2>4, <2>5
  <1> QED BY <1>2, <1>3

\* Giving a mutex back keeps the books, whether the thread goes on or waits.
LEMMA UnlockOwns ==
    ASSUME ServedInv, OwnInv, [Next]_vars, Runs, NEW m \in Mutexes,
           held[current][m] > 0 \/ m \in ErrorCheck,
           mutex' = [mutex EXCEPT ![m] = UnlockMutex(current, m, mutex[m])],
           UNCHANGED <<live, newId>>,
           \A t \in Threads, n \in Mutexes :
              held'[t][n] = IF t = current /\ n = m /\ held[t][n] > 0
                            THEN held[t][n] - 1 ELSE held[t][n],
           halted' = "no" => \A t \in Threads, n \in Mutexes :
              Handed(t, n)' <=> \/ Handed(t, n)
                                \/ t \in Unblocked(current, m, mutex[m]) /\ onReturn[t] = n
    PROVE  /\ Counts' /\ Ownership'
           /\ \A t \in Threads : t >= newId => \A n \in Mutexes : held'[t][n] = 0
           /\ \A n \in Mutexes :
                 \/ mutex'[n].spin = mutex[n].spin
                 \/ mutex[n].spin # <<>> /\ mutex'[n].spin = Tail(mutex[n].spin)
  <1> DEFINE s  == mutex[m]
             u  == UnlockMutex(current, m, s)
             ws == Unblocked(current, m, s)
             h  == held[current][m]
  <1>1. /\ halted = "no" /\ current \in Threads /\ current < newId /\ newId \in Nat
        /\ \A n \in Mutexes : ~Handed(current, n) /\ held[current][n] \in Nat
    BY RunningOwner
  <1>2. \A n \in Mutexes : mutex[n] \in MutexType /\ mutex[n].count \in Nat
    BY MapsTyped DEF MutexMap, MutexType, OwnInv, Counts
  <1>3. mutex'[m] = u /\ \A n \in Mutexes \ {m} : mutex'[n] = mutex[n]
    BY MapsTyped DEF MutexMap
  <1>4. \A n \in Mutexes, t \in live : Owns(t, n)
    BY <1>1, OwnershipIs DEF OwnInv
  <1>5. (\A x \in live : x < newId) /\ live \subseteq Threads /\ held \in HeldType
    BY Placed DEF ServedInv, SchedOK, BaseInv, Types, HeldType, CountInv
  <1>6. \/ /\ ws = {} /\ h = 0
           /\ u.count = s.count /\ u.owner = s.owner /\ u.spin = s.spin
        \/ /\ s.spin # <<>> /\ ws = {Head(s.spin)} /\ h = 1
           /\ s.count = 1 /\ s.owner = current
           /\ u.count = 1 /\ u.owner = Head(s.spin) /\ u.spin = Tail(s.spin)
           /\ onReturn[Head(s.spin)] = m
           /\ Head(s.spin) \in live /\ Head(s.spin) # current
        \/ /\ ws = {} /\ h = 1 /\ s.count = 1 /\ s.owner = current
           /\ u.count = 0 /\ u.owner = s.owner /\ u.spin = s.spin
        \/ /\ ws = {} /\ h > 0 /\ s.count = h /\ s.owner = current
           /\ u.count = s.count - 1 /\ u.owner = s.owner /\ u.spin = s.spin
           /\ m \in Recursive
    BY UnlockOutcome
  <1> HIDE DEF s, u, ws
  <1>7. Counts'
    <2> SUFFICES ASSUME NEW n \in Mutexes
                 PROVE  /\ mutex'[n].count >= 0 /\ (n \notin Recursive => mutex'[n].count <= 1)
                        /\ mutex'[n].owner < newId
      BY DEF Counts
    <2>1. /\ mutex[n].count >= 0 /\ (n \notin Recursive => mutex[n].count <= 1)
          /\ mutex[n].owner < newId
      BY DEF OwnInv, Counts
    <2>2. CASE n # m
      BY <1>3, <2>1, <2>2
    <2>3. CASE n = m
      <3>1. Head(s.spin) \in live => Head(s.spin) < newId
        BY <1>5
      <3> QED BY <1>1, <1>2, <1>3, <1>6, <2>1, <2>3, <3>1 DEF s
    <2> QED BY <2>2, <2>3
  <1>8. Ownership'
    <2> SUFFICES ASSUME halted' = "no", NEW n \in Mutexes, NEW t \in live PROVE Owns(t, n)'
      BY DEF Ownership, Owns
    <2>1. /\ t \in Threads /\ held[t][n] \in Nat /\ Owns(t, n)
          /\ Handed(t, n)' <=> Handed(t, n) \/ (t \in ws /\ onReturn[t] = n)
          /\ held'[t][n] = IF t = current /\ n = m /\ held[t][n] > 0
                           THEN held[t][n] - 1 ELSE held[t][n]
      BY <1>4, <1>5 DEF HeldType, ws, s
    <2>2. CASE n # m
      <3>1. Handed(t, n)' <=> Handed(t, n)
        BY <1>6, <2>1, <2>2
      <3> QED BY <1>3, <2>1, <2>2, <3>1 DEF Owns
    <2>3. CASE n = m /\ t = current
      <3>1. ~Handed(t, n)' /\ ~Handed(t, n)
        BY <1>1, <1>6, <2>1, <2>3
      <3>2. IF s.count > 0 /\ s.owner = current THEN s.count = h ELSE h = 0
        BY <2>1, <2>3, <3>1 DEF Owns, s
      <3>3. IF u.count > 0 /\ u.owner = current
            THEN u.count = held'[t][n] /\ u.count \in Nat ELSE held'[t][n] = 0
        <4>1. held'[t][n] = IF h > 0 THEN h - 1 ELSE h
          BY <2>1, <2>3
        <4>2. h \in Nat /\ s.count \in Nat
          BY <1>1, <1>2 DEF s
        <4> HIDE DEF h
        <4> QED BY <1>6, <3>2, <4>1, <4>2
      <3> QED BY <1>3, <2>3, <3>1, <3>3 DEF Owns
    <2>4. CASE n = m /\ t # current
      <3>1. CASE t \in ws
        <4>1. ~Handed(t, n) /\ held[t][n] = 0
          BY <1>6, <2>1, <2>4, <3>1 DEF Owns, s
        <4>2. Handed(t, n)' /\ held'[t][n] = 0
          BY <1>6, <2>1, <2>4, <3>1, <4>1
        <4> QED BY <1>3, <1>6, <2>4, <3>1, <4>2 DEF Owns
      <3>2. CASE t \notin ws
        BY <1>3, <1>6, <2>1, <2>4, <3>2 DEF Owns, s
      <3> QED BY <3>1, <3>2
    <2> QED BY <2>2, <2>3, <2>4
  <1>9. \A t \in Threads : t >= newId => \A n \in Mutexes : held'[t][n] = 0
    BY <1>1 DEF OwnInv, Fresh
  <1>10. \A n \in Mutexes :
            \/ mutex'[n].spin = mutex[n].spin
            \/ mutex[n].spin # <<>> /\ mutex'[n].spin = Tail(mutex[n].spin)
    BY <1>3, <1>6 DEF s
  <1> QED BY <1>7, <1>8, <1>9, <1>10

\* An unlock: the owner, or nobody, or the thread woken.
LEMMA OwnUnlock ==
    ASSUME ServedInv, OwnInv, [Next]_vars, NEW m \in Mutexes, PthreadMutexUnlock(m)
    PROVE  OwnInv'
  <1> DEFINE ws == Unblocked(current, m, mutex[m])
  <1>1. /\ Runs /\ mutex' = [mutex EXCEPT ![m] = UnlockMutex(current, m, mutex[m])]
        /\ Wake(ws) /\ (held[current][m] > 0 \/ m \in ErrorCheck)
        /\ held' = IF held[current][m] > 0 THEN Lose(m) ELSE held
        /\ UNCHANGED <<live, newId, executed, barrier, joinings, waiters, onReturn>>
    BY DEF PthreadMutexUnlock, Runs, joins
  <1>2. halted = "no" /\ current \in Threads /\ held \in HeldType
    BY <1>1, RunningOwner DEF ServedInv, SchedOK, BaseInv, Types, HeldType
  <1>3. \A t \in Threads, n \in Mutexes :
              held'[t][n] = IF t = current /\ n = m /\ held[t][n] > 0
                            THEN held[t][n] - 1 ELSE held[t][n]
    BY <1>1, <1>2 DEF Lose, HeldType
  <1>4. ws \in SUBSET Threads /\ \A t \in ws : Queued(t)
    <2>1. \A t \in ws : Queued(t)
      BY <1>1, UnlockOutcome
    <2>2. mutex[m] \in MutexType
      BY MapsTyped DEF MutexMap
    <2> QED BY <2>1, <2>2, UnblockedCases
  <1> HIDE DEF ws
  <1>5. /\ halted' = "no" /\ MarkInv'
        /\ \A t \in Threads, n \in Mutexes :
              Handed(t, n)' <=> Handed(t, n) \/ (t \in ws /\ onReturn[t] = n)
    BY <1>1, <1>2, <1>4, WakeMarks DEF OwnInv
  <1>6. /\ Counts' /\ Ownership'
        /\ \A t \in Threads : t >= newId => \A n \in Mutexes : held'[t][n] = 0
        /\ \A n \in Mutexes :
              \/ mutex'[n].spin = mutex[n].spin
              \/ mutex[n].spin # <<>> /\ mutex'[n].spin = Tail(mutex[n].spin)
    BY <1>1, <1>3, <1>5, UnlockOwns DEF ws
  <1>7. Fresh'
    BY <1>1, <1>6 DEF OwnInv, Fresh
  <1>8. QueueMarks'
    BY <1>1, <1>2, <1>6, MarksKept DEF OwnInv
  <1> QED BY <1>5, <1>6, <1>7, <1>8 DEF OwnInv

\* A wait gives the mutex back like an unlock.
LEMMA OwnCondWait ==
    ASSUME ServedInv, OwnInv, [Next]_vars, NEW m \in Mutexes, NEW c \in Conds,
           PthreadCondWait(c, m)
    PROVE  OwnInv'
  <1> DEFINE ws == Unblocked(current, m, mutex[m])
             w  == [th |-> current, mx |-> m]
  <1>1. /\ Runs /\ mutex' = [mutex EXCEPT ![m] = UnlockMutex(current, m, mutex[m])]
        /\ BlockThread(ws, m, Lose(m)) /\ held[current][m] > 0
        /\ waiters' = [waiters EXCEPT ![c] = Append(@, w)]
        /\ UNCHANGED <<live, newId, hth, slot, barrier, joinings>>
    BY DEF PthreadCondWait, Runs, joins
  <1>2. /\ halted = "no" /\ current \in Threads /\ held \in HeldType /\ ~In(Queue, current)
        /\ \A n \in Mutexes : ~Handed(current, n)
    BY <1>1, RunningOwner DEF ServedInv, SchedOK, BaseInv, Types, HeldType
  <1>3. ws \in SUBSET Threads /\ \A t \in ws : Queued(t)
    <2>1. \A t \in ws : Queued(t)
      BY <1>1, UnlockOutcome
    <2>2. mutex[m] \in MutexType
      BY MapsTyped DEF MutexMap
    <2> QED BY <2>1, <2>2, UnblockedCases
  <1> HIDE DEF ws
  <1>4. /\ MarkInv' /\ held' = Lose(m) /\ halted' \in {"no", "deadlock"}
        /\ \A t \in Threads : onReturn'[t] = IF t = current THEN m ELSE onReturn[t]
        /\ \A t \in Threads : t >= newId => t \notin executed' /\ onReturn'[t] = "none"
        /\ \A t \in ws : t # current
        /\ halted' = "no" => \A t \in Threads, n \in Mutexes :
              Handed(t, n)' <=> t # current /\ (Handed(t, n) \/ (t \in ws /\ onReturn[t] = n))
    <2>1. \A t \in Threads : joinings'[t] = joinings[t] \/ (t = current /\ m = "none")
      BY <1>1
    <2>2. MarkInv /\ Fresh
      BY DEF OwnInv
    <2> DEFINE h == Lose(m)
    <2>3. BlockThread(ws, m, h)
      BY <1>1
    <2> HIDE DEF h
    <2>4. /\ MarkInv' /\ held' = h /\ halted' \in {"no", "deadlock"}
          /\ \A t \in Threads : onReturn'[t] = IF t = current THEN m ELSE onReturn[t]
          /\ \A t \in Threads : t >= newId => t \notin executed' /\ onReturn'[t] = "none"
          /\ \A t \in ws : t \in live \ active /\ t \notin executed /\ t # current
          /\ halted' = "no" => \A t \in Threads, n \in Mutexes :
                Handed(t, n)' <=> t # current /\ (Handed(t, n) \/ (t \in ws /\ onReturn[t] = n))
      BY <1>1, <1>3, <2>1, <2>2, <2>3, BlockMarks
    <2> QED BY <2>4 DEF h
  <1>5. halted' = "no" => \A t \in Threads, n \in Mutexes :
              Handed(t, n)' <=> Handed(t, n) \/ (t \in ws /\ onReturn[t] = n)
    BY <1>2, <1>4
  <1>6. \A t \in Threads, n \in Mutexes :
              held'[t][n] = IF t = current /\ n = m /\ held[t][n] > 0
                            THEN held[t][n] - 1 ELSE held[t][n]
    BY <1>1, <1>2, <1>4 DEF Lose, HeldType
  <1>7. /\ Counts' /\ Ownership'
        /\ \A t \in Threads : t >= newId => \A n \in Mutexes : held'[t][n] = 0
        /\ \A n \in Mutexes :
              \/ mutex'[n].spin = mutex[n].spin
              \/ mutex[n].spin # <<>> /\ mutex'[n].spin = Tail(mutex[n].spin)
    BY <1>1, <1>5, <1>6, UnlockOwns DEF ws
  <1>8. Fresh'
    BY <1>1, <1>4, <1>7 DEF Fresh
  <1>9. QueueMarks'
    <2>1. w \in [th : Threads, mx : Mutexes] /\ w.th = current /\ w.mx = m
      BY <1>2
    <2>2. waiters'[c] = Append(waiters[c], w) /\ \A d \in Conds \ {c} : waiters'[d] = waiters[d]
      BY <1>1, MapsTyped DEF WaiterMap
    <2> HIDE DEF w
    <2>3. \A d \in Conds :
              \/ waiters'[d] = waiters[d]
              \/ \E v \in [th : Threads, mx : Mutexes] :
                    waiters'[d] = Append(waiters[d], v) /\ onReturn'[v.th] = v.mx
      BY <1>2, <1>4, <2>1, <2>2
    <2>4. \A t \in Threads : In(Queue, t) => onReturn'[t] = onReturn[t]
      BY <1>2, <1>4
    <2> QED BY <1>1, <1>2, <1>7, <2>3, <2>4, MarksKept DEF OwnInv
  <1> QED BY <1>4, <1>7, <1>8, <1>9 DEF OwnInv

\* The waiter a signal releases gets its mutex, or spins on it.
LEMMA OwnReleaseWaiter ==
    ASSUME ServedInv, OwnInv, [Next]_vars, halted = "no", NEW c \in Conds,
           waiters[c] # <<>>, ReleaseWaiter(c), releasing \notin Barriers
    PROVE  OwnInv'
  <1> DEFINE w  == Head(waiters[c])
             m  == w.mx
             s  == mutex[m]
             l  == LockMutex(w.th, m, s)
             ws == IF Blocks(w.th, m, s) THEN {} ELSE {w.th}
  <1>1. /\ waiters' = [waiters EXCEPT ![c] = Tail(@)]
        /\ mutex' = [mutex EXCEPT ![m] = l]
        /\ Wake(ws)
        /\ UNCHANGED <<live, newId, executed, barrier, joinings, onReturn, held>>
    BY DEF ReleaseWaiter, joins, history
  <1>2. w.th \in Threads /\ m \in Mutexes
    BY WaiterTyped DEF ServedInv, SchedOK
  <1>3. \A n \in Mutexes : mutex[n] \in MutexType /\ mutex[n].count \in Nat
    BY MapsTyped DEF MutexMap, MutexType, OwnInv, Counts
  <1>4. waiters'[c] = Tail(waiters[c]) /\ \A d \in Conds \ {c} : waiters'[d] = waiters[d]
    BY <1>1, MapsTyped DEF WaiterMap
  <1>5. mutex'[m] = l /\ \A n \in Mutexes \ {m} : mutex'[n] = mutex[n]
    BY <1>1, <1>2, MapsTyped DEF MutexMap
  <1>6. onReturn[w.th] = m /\ Queued(w.th) /\ w.th \in live \ active
    <2>1. waiters[c] \in Seq([th : Threads, mx : Mutexes])
      BY MapsTyped DEF WaiterMap
    <2>2. Head(waiters[c]) = waiters[c][1] /\ 1 \in 1 .. Len(waiters[c])
      <3>1. Len(waiters[c]) # 0 /\ Len(waiters[c]) \in Nat
        BY <2>1, EmptySeq, LenProperties
      <3> QED BY <2>1, <3>1, HeadTailProperties
    <2>3. onReturn[w.th] = m
      BY <2>2 DEF OwnInv, QueueMarks
    <2>4. In(Queue, w.th)
      <3>1. Queue[c][1] = w.th /\ c \in Objects /\ 1 \in 1 .. Len(Queue[c])
        BY <2>2, MapsTyped, QueueFacts DEF Queue
      <3> QED BY <3>1 DEF In
    <2>5. Queued(w.th)
      BY <2>4 DEF Queued, Empties
    <2> QED BY <1>2, <2>3, <2>5 DEF ServedInv, PlaceInv, Waits
  <1>7. ws \in SUBSET Threads /\ \A t \in ws : Queued(t)
    BY <1>2, <1>6
  <1> HIDE DEF w, l, s
  <1>8. /\ halted' = "no" /\ MarkInv'
        /\ \A t \in Threads, n \in Mutexes :
              Handed(t, n)' <=> Handed(t, n) \/ (t \in ws /\ onReturn[t] = n)
    <2> HIDE DEF ws
    <2> QED BY <1>1, <1>7, WakeMarks DEF OwnInv
  <1>9. \A n \in Mutexes, t \in live : Owns(t, n)
    BY OwnershipIs DEF OwnInv
  <1>10. (\A x \in live : x < newId) /\ live \subseteq Threads /\ newId \in Nat /\ held \in HeldType
    <2>1. live \subseteq 0 .. newId - 1 /\ live \subseteq Threads /\ newId \in Nat
      BY Placed DEF ServedInv, SchedOK, CountInv
    <2>2. held \in HeldType
      BY DEF ServedInv, SchedOK, BaseInv, Types, HeldType
    <2> QED BY <2>1, <2>2
  <1>11. ~Handed(w.th, m)
    BY <1>6 DEF Handed
  <1>12. \/ /\ ws = {} /\ l.count = s.count /\ l.owner = s.owner /\ l.spin = Append(s.spin, w.th)
         \/ /\ ws = {w.th} /\ l.owner = w.th /\ l.spin = s.spin
            /\ \/ s.count = 0 /\ l.count = 1
               \/ l.count = s.count + 1 /\ s.count > 0 /\ s.owner = w.th /\ m \in Recursive
    <2>1. s \in MutexType /\ s.count \in Nat
      BY <1>2, <1>3 DEF s
    <2>2. CASE Blocks(w.th, m, s)
      BY <1>2, <2>1, <2>2, LockCases DEF l, Blocks
    <2>3. CASE ~Blocks(w.th, m, s)
      BY <1>2, <2>1, <2>3, LockCases DEF l, Blocks, Relocks
    <2> QED BY <2>2, <2>3
  <1> HIDE DEF ws, m
  <1>13. Counts'
    <2> SUFFICES ASSUME NEW n \in Mutexes
                 PROVE  /\ mutex'[n].count >= 0 /\ (n \notin Recursive => mutex'[n].count <= 1)
                        /\ mutex'[n].owner < newId
      BY <1>1 DEF Counts
    <2>1. /\ mutex[n].count >= 0 /\ (n \notin Recursive => mutex[n].count <= 1)
          /\ mutex[n].owner < newId /\ mutex[n].count \in Nat
      BY <1>3 DEF OwnInv, Counts
    <2>2. w.th < newId
      BY <1>6, <1>10
    <2> QED BY <1>5, <1>12, <2>1, <2>2 DEF s
  <1>14. Ownership'
    <2> SUFFICES ASSUME NEW n \in Mutexes, NEW t \in live PROVE Owns(t, n)'
      BY <1>1 DEF Ownership, Owns
    <2>1. /\ t \in Threads /\ held'[t][n] = held[t][n] /\ held[t][n] \in Nat /\ Owns(t, n)
          /\ Handed(t, n)' <=> Handed(t, n) \/ (t \in ws /\ onReturn[t] = n)
      BY <1>1, <1>8, <1>9, <1>10 DEF HeldType
    <2>2. CASE n # m
      <3>1. Handed(t, n)' <=> Handed(t, n)
        BY <1>6, <1>12, <2>1, <2>2
      <3> QED BY <1>5, <2>1, <2>2, <3>1 DEF Owns
    <2>3. CASE n = m /\ ws = {}
      <3>1. Handed(t, n)' <=> Handed(t, n)
        BY <2>1, <2>3
      <3> QED BY <1>5, <1>12, <2>1, <2>3, <3>1 DEF Owns, s
    <2>4. CASE n = m /\ ws = {w.th} /\ t = w.th
      <3>1. Handed(t, n)' /\ ~Handed(t, n)
        BY <1>6, <1>11, <2>1, <2>4
      <3>2. IF s.count > 0 /\ s.owner = t THEN s.count = held[t][n] ELSE held[t][n] = 0
        BY <2>1, <2>4, <3>1 DEF Owns, s
      <3>3. l.count > 0 /\ l.owner = t /\ l.count = held[t][n] + 1
        <4>1. s.count \in Nat
          BY <1>2, <1>3 DEF s
        <4>2. ws # {}
          BY <2>4
        <4>3. /\ l.owner = w.th
              /\ \/ s.count = 0 /\ l.count = 1
                 \/ l.count = s.count + 1 /\ s.count > 0 /\ s.owner = w.th
          BY <1>12, <4>2, Zenon
        <4> QED BY <2>1, <2>4, <3>2, <4>1, <4>3
      <3> QED BY <1>5, <2>1, <2>4, <3>1, <3>3 DEF Owns
    <2>5. CASE n = m /\ ws = {w.th} /\ t # w.th
      <3>1. Handed(t, n)' <=> Handed(t, n)
        BY <2>1, <2>5
      <3>2. ~(s.count > 0 /\ s.owner = t) /\ l.owner # t
        <4>1. s.count \in Nat
          BY <1>2, <1>3 DEF s
        <4>2. ws # {}
          BY <2>5
        <4>3. /\ l.owner = w.th
              /\ \/ s.count = 0 /\ l.count = 1
                 \/ l.count = s.count + 1 /\ s.count > 0 /\ s.owner = w.th
          BY <1>12, <4>2, Zenon
        <4> QED BY <2>5, <4>1, <4>3
      <3> QED BY <1>5, <2>1, <2>5, <3>1, <3>2 DEF Owns, s
    <2> QED BY <1>12, <2>2, <2>3, <2>4, <2>5
  <1>15. Fresh'
    BY <1>1 DEF OwnInv, Fresh
  <1>16. QueueMarks'
    <2>1. \A n \in Mutexes : \/ mutex'[n].spin = mutex[n].spin
                             \/ \E t \in Threads : /\ mutex'[n].spin = Append(mutex[n].spin, t)
                                                   /\ onReturn'[t] = n
      BY <1>1, <1>2, <1>5, <1>6, <1>12 DEF s
    <2>2. \A d \in Conds : \/ waiters'[d] = waiters[d]
                           \/ waiters[d] # <<>> /\ waiters'[d] = Tail(waiters[d])
      BY <1>4
    <2> QED BY <1>1, <2>1, <2>2, MarksKept DEF OwnInv
  <1> QED BY <1>8, <1>13, <1>14, <1>15, <1>16 DEF OwnInv

\* A step that touches no mutex and hands none over.
LEMMA OwnKept ==
    ASSUME ServedInv, OwnInv, halted = "no", UNCHANGED <<mutex, newId>>, live' \subseteq live,
           \A t \in Threads, n \in Mutexes : t \in live' \/ t >= newId => held'[t][n] = held[t][n],
           halted' = "no" => \A t \in live', n \in Mutexes : Handed(t, n)' <=> Handed(t, n)
    PROVE  /\ Counts' /\ Ownership'
           /\ \A t \in Threads : t >= newId' => \A n \in Mutexes : held'[t][n] = 0
  <1>1. Counts'
    BY DEF OwnInv, Counts
  <1>2. Ownership'
    <2> SUFFICES ASSUME halted' = "no", NEW n \in Mutexes, NEW t \in live' PROVE Owns(t, n)'
      BY DEF Ownership, Owns
    <2>1. Owns(t, n)
      BY OwnershipIs DEF OwnInv
    <2>2. held'[t][n] = held[t][n] /\ (Handed(t, n)' <=> Handed(t, n))
      BY Placed DEF ServedInv
    <2> QED BY <2>1, <2>2 DEF Owns
  <1>3. \A t \in Threads : t >= newId' => \A n \in Mutexes : held'[t][n] = 0
    BY DEF OwnInv, Fresh
  <1> QED BY <1>1, <1>2, <1>3

\* A handler that blocks its thread without a mutex and wakes nobody.
LEMMA OwnBlock ==
    ASSUME ServedInv, OwnInv, Runs, NEW m \in {"none", "yield"}, BlockThread({}, m, held),
           UNCHANGED <<live, newId, hth, slot, mutex>>,
           \A t \in Threads : joinings'[t] = joinings[t] \/ (t = current /\ m = "none")
    PROVE  /\ Counts' /\ Fresh' /\ MarkInv' /\ Ownership'
           /\ \A t \in Threads : onReturn'[t] = IF t = current THEN m ELSE onReturn[t]
  <1>1. /\ halted = "no" /\ current \in Threads
        /\ \A n \in Mutexes : ~Handed(current, n)
    BY RunningOwner
  <1>2. /\ MarkInv' /\ held' = held
        /\ \A t \in Threads : onReturn'[t] = IF t = current THEN m ELSE onReturn[t]
        /\ \A t \in Threads : t >= newId => t \notin executed' /\ onReturn'[t] = "none"
        /\ halted' = "no" => \A t \in Threads, n \in Mutexes :
              Handed(t, n)' <=> t # current /\ Handed(t, n)
    <2> DEFINE ws == {}
    <2>1. /\ ws \in SUBSET Threads /\ (\A t \in ws : Queued(t)) /\ MarkInv /\ Fresh
          /\ BlockThread(ws, m, held) /\ UNCHANGED <<live, newId, hth, slot>>
      BY DEF OwnInv
    <2> HIDE DEF ws
    <2>2. /\ MarkInv' /\ held' = held /\ halted' \in {"no", "deadlock"}
          /\ \A t \in Threads : onReturn'[t] = IF t = current THEN m ELSE onReturn[t]
          /\ \A t \in Threads : t >= newId => t \notin executed' /\ onReturn'[t] = "none"
          /\ \A t \in ws : t \in live \ active /\ t \notin executed /\ t # current
          /\ halted' = "no" => \A t \in Threads, n \in Mutexes :
                Handed(t, n)' <=> t # current /\ (Handed(t, n) \/ (t \in ws /\ onReturn[t] = n))
      BY <2>1, BlockMarks
    <2> QED BY <2>2 DEF ws
  <1>3. halted' = "no" => \A t \in live, n \in Mutexes : Handed(t, n)' <=> Handed(t, n)
    BY <1>1, <1>2, Placed DEF ServedInv
  <1>4. /\ Counts' /\ Ownership'
        /\ \A t \in Threads : t >= newId' => \A n \in Mutexes : held'[t][n] = 0
    BY <1>1, <1>2, <1>3, OwnKept
  <1>5. Fresh'
    BY <1>2, <1>4 DEF Fresh
  <1> QED BY <1>2, <1>4, <1>5

\* A barrier concerns no mutex.
LEMMA OwnBarrierWait ==
    ASSUME ServedInv, OwnInv, [Next]_vars, NEW b \in Barriers, PthreadBarrierWait(b)
    PROVE  OwnInv'
  <1> DEFINE q == barrier[b].waiters
  <1>1. /\ Runs /\ barrier' = [barrier EXCEPT ![b].waiters = Append(q, current)]
        /\ UNCHANGED <<live, newId, hth, slot, mutex, waiters, joinings>>
    BY DEF PthreadBarrierWait, Runs, Returns, sched, joins
  <1>2. halted = "no" /\ current \in Threads /\ ~In(Queue, current)
        /\ onReturn[current] = "none"
    BY <1>1, RunningOwner
  <1>3. /\ barrier'[b].waiters = Append(q, current)
        /\ \A d \in Barriers \ {b} : barrier'[d] = barrier[d]
    <2>1. q \in Seq(Threads)
      BY MapsTyped DEF BarrierMap, BarrierType
    <2>2. Append(q, current) \in Seq(Threads)
      BY <1>2, <2>1
    <2> QED BY <1>1, <2>2, BarrierQueue DEF ServedInv, SchedOK
  <1> HIDE DEF q
  <1>4. /\ Counts' /\ Fresh' /\ MarkInv' /\ Ownership'
        /\ \A t \in Threads : onReturn'[t] = onReturn[t]
    <2>1. CASE Len(q) + 1 = barrier[b].num
      <3>1. UNCHANGED <<active, executed, onReturn, held, halted>>
        BY <2>1 DEF PthreadBarrierWait, Returns, sched, history, q
      <3>2. \A t \in live', n \in Mutexes : Handed(t, n)' <=> Handed(t, n)
        BY <3>1 DEF Handed
      <3>3. Counts' /\ Ownership'
        BY <1>1, <1>2, <3>1, <3>2, OwnKept
      <3>4. Fresh' /\ MarkInv'
        BY <1>1, <3>1 DEF OwnInv, Fresh, MarkInv
      <3> QED BY <3>1, <3>3, <3>4
    <2>2. CASE ~(Len(q) + 1 = barrier[b].num)
      <3>1. BlockThread({}, "none", held)
        BY <2>2 DEF PthreadBarrierWait, q
      <3>2. "none" \in {"none", "yield"}
        OBVIOUS
      <3>3. \A t \in Threads : onReturn'[t] = IF t = current THEN "none" ELSE onReturn[t]
        BY <1>1, <3>1, <3>2, OwnBlock
      <3> QED BY <1>1, <1>2, <3>1, <3>2, <3>3, OwnBlock
    <2> QED BY <2>1, <2>2
  <1>5. QueueMarks'
    <2>1. \A d \in Barriers :
              \/ barrier'[d].waiters = barrier[d].waiters
              \/ \E t \in Threads : /\ barrier'[d].waiters = Append(barrier[d].waiters, t)
                                    /\ onReturn'[t] = "none"
      BY <1>2, <1>3, <1>4 DEF q
    <2> QED BY <1>1, <1>2, <1>4, <2>1, MarksKept DEF OwnInv
  <1> QED BY <1>4, <1>5 DEF OwnInv

\* Nor does its release loop: those it wakes await no mutex.
LEMMA OwnBarrierNext ==
    ASSUME ServedInv, OwnInv, [Next]_vars, NEW b \in Barriers, BarrierNext(b)
    PROVE  OwnInv'
  <1> DEFINE q == barrier[b].waiters
             w == Head(q)
             ws == {w} \ {current}
  <1>1. /\ halted = "no" /\ releasing = b
        /\ barrier' = [barrier EXCEPT ![b].waiters = Tail(q)]
        /\ Wake(ws)
        /\ UNCHANGED <<live, newId, executed, mutex, waiters, joinings, onReturn, held>>
    BY DEF BarrierNext, joins, history
  <1>2. q \in Seq(Threads) /\ q # <<>> /\ b \in Objects
    BY <1>1 DEF Objects, ServedInv, SchedOK, BaseInv, LoopInv, Types
  <1>3. /\ Tail(q) \in Seq(Threads) /\ w = q[1] /\ w \in Threads /\ 1 \in 1 .. Len(q)
    <2>1. Len(q) \in Nat \ {0}
      BY <1>2, EmptySeq
    <2> QED BY <1>2, <2>1, HeadTailProperties
  <1>4. /\ barrier'[b].waiters = Tail(q)
        /\ \A d \in Barriers \ {b} : barrier'[d] = barrier[d]
    BY <1>1, <1>3, BarrierQueue DEF ServedInv, SchedOK
  <1>5. In(Queue, w) /\ onReturn[w] = "none"
    <2>1. Queue[b] = q
      BY MapsTyped, QueueFacts DEF Queue
    <2> QED BY <1>1, <1>2, <1>3, <2>1 DEF In, OwnInv, QueueMarks
  <1>6. ws \in SUBSET Threads /\ \A t \in ws : Queued(t) /\ onReturn[t] = "none"
    BY <1>3, <1>5 DEF Queued, Empties
  <1> HIDE DEF q, w, ws
  <1>7. /\ halted' = "no" /\ MarkInv'
        /\ \A t \in Threads, n \in Mutexes :
              Handed(t, n)' <=> Handed(t, n) \/ (t \in ws /\ onReturn[t] = n)
    BY <1>1, <1>6, WakeMarks DEF OwnInv
  <1>8. \A t \in live', n \in Mutexes : Handed(t, n)' <=> Handed(t, n)
    <2>1. "none" \notin Mutexes /\ live' \subseteq Threads
      BY <1>1, NoThreadIsNone, Placed DEF Objects, ServedInv
    <2> QED BY <1>6, <1>7, <2>1
  <1>9. Counts' /\ Ownership'
    BY <1>1, <1>8, OwnKept
  <1>10. Fresh'
    BY <1>1 DEF OwnInv, Fresh
  <1>11. QueueMarks'
    <2>1. \A d \in Barriers :
              \/ barrier'[d].waiters = barrier[d].waiters
              \/ barrier[d].waiters # <<>> /\ barrier'[d].waiters = Tail(barrier[d].waiters)
      BY <1>2, <1>4 DEF q
    <2> QED BY <1>1, <2>1, MarksKept DEF OwnInv
  <1> QED BY <1>7, <1>9, <1>10, <1>11 DEF OwnInv

\* A joiner awaits no mutex.
LEMMA OwnJoin ==
    ASSUME ServedInv, OwnInv, [Next]_vars, NEW t \in Threads, PthreadJoin(t) \/ PthreadDetach(t)
    PROVE  OwnInv'
  <1>1. Runs /\ UNCHANGED <<mutex, waiters, barrier>>
    BY DEF PthreadJoin, PthreadDetach, queues
  <1>2. halted = "no" /\ current \in Threads /\ ~In(Queue, current) /\ onReturn[current] = "none"
    BY <1>1, RunningOwner
  <1>3. CASE UNCHANGED <<live, active, newId, executed, joinings, onReturn, held>>
    <2>1. \A x \in live', n \in Mutexes : Handed(x, n)' <=> Handed(x, n)
      BY <1>3 DEF Handed
    <2>2. Counts' /\ Ownership'
      BY <1>1, <1>2, <1>3, <2>1, OwnKept
    <2>3. Fresh' /\ MarkInv' /\ QueueMarks'
      BY <1>1, <1>2, <1>3 DEF OwnInv, Fresh, MarkInv, QueueMarks
    <2> QED BY <2>2, <2>3 DEF OwnInv
  <1>4. CASE /\ joinings' = [joinings EXCEPT ![current] = t]
             /\ BlockThread({}, "none", held)
             /\ UNCHANGED <<live, newId, hth, slot>>
    <2>1. "none" \in {"none", "yield"}
      OBVIOUS
    <2>2. \A x \in Threads : joinings'[x] = joinings[x] \/ (x = current /\ "none" = "none")
      BY <1>4 DEF ServedInv, SchedOK, BaseInv, Types
    <2>3. /\ Counts' /\ Fresh' /\ MarkInv' /\ Ownership'
          /\ \A x \in Threads : onReturn'[x] = IF x = current THEN "none" ELSE onReturn[x]
      BY <1>1, <1>4, <2>1, <2>2, OwnBlock
    <2>4. \A x \in Threads : onReturn'[x] = onReturn[x]
      BY <1>2, <2>3
    <2>5. QueueMarks'
      BY <1>1, <1>2, <2>4, MarksKept DEF OwnInv
    <2> QED BY <2>3, <2>5 DEF OwnInv
  <1>5. \/ UNCHANGED <<live, active, newId, executed, joinings, onReturn, held>>
        \/ /\ joinings' = [joinings EXCEPT ![current] = t]
           /\ BlockThread({}, "none", held)
           /\ UNCHANGED <<live, newId, hth, slot>>
    BY DEF PthreadJoin, PthreadDetach, Returns, Stop, sched, joins, history
  <1> QED BY <1>3, <1>4, <1>5

\* A thread that ends takes its books with it; its joiner waits for no mutex.
LEMMA OwnKill ==
    ASSUME ServedInv, OwnInv, [Next]_vars, Runs, NEW t \in active, Waking(JoinerOf(t)),
           KillThread(t), executed' = executed \ {t},
           UNCHANGED <<mutex, waiters, barrier, newId>>
    PROVE  OwnInv'
  <1>1. /\ halted = "no" /\ releasing \notin Barriers /\ t \in Threads /\ t \in live
    BY RunningOwner, Placed DEF ServedInv
  <1>2. held \in HeldType /\ onReturn \in [Threads -> Marks]
    BY DEF ServedInv, SchedOK, BaseInv, Types, HeldType
  <1> DEFINE J == JoinerOf(t)
  <1>3. /\ joinings' = [j \in Threads |-> IF j \in J THEN NoThread ELSE joinings[j]]
        /\ live' = live \ {t} /\ active' = (active \cup J) \ {t}
        /\ onReturn' = [onReturn EXCEPT ![t] = "none"]
        /\ held' = [held EXCEPT ![t] = [m \in Mutexes |-> 0]]
    BY DEF KillThread, KillJoinee
  <1>4. \A j \in J : j \in live \ active /\ joinings[j] = t
    BY <1>1 DEF Waking, JoinerOf, ServedInv, JoinInv
  <1> HIDE DEF J
  <1>5. live \subseteq Threads /\ "none" \notin Mutexes /\ J \subseteq Threads
    BY <1>4, Placed, NoThreadIsNone DEF ServedInv, Objects
  <1>6. \A j \in J : onReturn[j] = "none"
    BY <1>1, <1>4, <1>5, NoThreadIsNone DEF OwnInv, MarkInv
  <1>7. /\ \A x \in Threads : onReturn'[x] = IF x = t THEN "none" ELSE onReturn[x]
        /\ \A x \in Threads, n \in Mutexes : held'[x][n] = IF x = t THEN 0 ELSE held[x][n]
    BY <1>1, <1>2, <1>3 DEF HeldType
  <1>8. \A x \in live', n \in Mutexes : Handed(x, n)' <=> Handed(x, n)
    BY <1>3, <1>5, <1>6, <1>7 DEF Handed
  <1>9. t < newId /\ newId \in Nat /\ t \in Nat
    <2>1. live \subseteq 0 .. newId - 1 /\ newId \in Nat
      BY Placed DEF ServedInv, SchedOK, CountInv
    <2> QED BY <1>1, <2>1
  <1>10. /\ Counts' /\ Ownership'
         /\ \A x \in Threads : x >= newId' => \A n \in Mutexes : held'[x][n] = 0
    <2>1. \A x \in Threads, n \in Mutexes : x \in live' \/ x >= newId => held'[x][n] = held[x][n]
      BY <1>3, <1>7, <1>9
    <2> QED BY <1>1, <1>3, <1>8, <2>1, OwnKept
  <1>11. Fresh'
    BY <1>7, <1>10 DEF OwnInv, Fresh
  <1>12. MarkInv'
    <2> SUFFICES ASSUME NEW x \in Threads
                 PROVE  /\ x \in executed' => onReturn'[x] = "none" /\ x \notin live' \ active'
                        /\ joinings'[x] # NoThread => onReturn'[x] = "none"
      BY DEF MarkInv
    <2>1. /\ x \in executed => onReturn[x] = "none" /\ x \notin live \ active
          /\ joinings[x] # NoThread => onReturn[x] = "none"
      BY <1>1 DEF OwnInv, MarkInv
    <2> QED BY <1>3, <1>7, <2>1
  <1>13. QueueMarks'
    <2>1. ~In(Queue, t)
      BY <1>1 DEF ServedInv, PlaceInv, Waits, Queued, Empties
    <2>2. \A x \in Threads : In(Queue, x) => onReturn'[x] = onReturn[x]
      BY <1>7, <2>1
    <2> QED BY <1>1, <2>2, MarksKept DEF OwnInv
  <1> QED BY <1>10, <1>11, <1>12, <1>13 DEF OwnInv

\* A thread that exits holds nothing any more.
LEMMA OwnExit ==
    ASSUME ServedInv, OwnInv, [Next]_vars, PthreadExit PROVE OwnInv'
  <1>1. Runs /\ UNCHANGED <<mutex, waiters, barrier>>
    BY DEF PthreadExit, queues
  <1>2. halted = "no" /\ current \in active /\ current \in Threads
    BY <1>1, RunningOwner
  <1>3. Waking(JoinerOf(current))
    BY <1>2, JoinerBlocked
  <1>4. /\ KillThread(current) /\ UNCHANGED newId
        /\ Resume(live', coreActive', nactive', executed \ {current}, TRUE)
    BY <1>2, <1>3 DEF PthreadExit
  <1>5. current \notin live'
    BY <1>4 DEF KillThread
  <1>6. executed' = executed \ {current}
    BY <1>4, <1>5 DEF Resume
  <1> QED BY <1>1, <1>2, <1>3, <1>4, <1>6, OwnKill

\* Nothing the mutexes depend on changes.
LEMMA OwnStill ==
    ASSUME ServedInv, OwnInv, halted = "no", executed' \subseteq executed,
           UNCHANGED <<live, active, newId, mutex, waiters, joinings, onReturn, held>>,
           \A b \in Barriers : barrier'[b].waiters = barrier[b].waiters
    PROVE  OwnInv'
  <1>1. \A t \in live', n \in Mutexes : Handed(t, n)' <=> Handed(t, n)
    <2>1. live' \subseteq Threads /\ "none" \notin Mutexes
      BY Placed, NoThreadIsNone DEF ServedInv, Objects
    <2> QED BY <2>1 DEF Handed, OwnInv, MarkInv
  <1>2. Counts' /\ Ownership'
    BY <1>1, OwnKept
  <1>3. Fresh' /\ MarkInv' /\ QueueMarks'
    BY DEF OwnInv, Fresh, MarkInv, QueueMarks
  <1> QED BY <1>2, <1>3 DEF OwnInv

\* Nor does an active thread that is canceled.
LEMMA OwnCancel ==
    ASSUME Regular, ServedInv, OwnInv, [Next]_vars, NEW t \in Threads, NEW s, PthreadCancel(t, s)
    PROVE  OwnInv'
  <1>1. Runs /\ halted = "no" /\ UNCHANGED <<mutex, waiters, barrier>>
    BY DEF PthreadCancel, Runs, queues
  <1>2. Waking(JoinerOf(t))
    BY <1>1, JoinerBlocked
  <1>3. \/ /\ Returns \/ Stop("unsupported")
           /\ UNCHANGED <<joins, history>>
        \/ t \in active /\ KillThread(t) /\ executed' = executed \ {t} /\ UNCHANGED newId
    BY <1>2 DEF PthreadCancel, Regular, Stop
  <1>4. CASE (Returns \/ Stop("unsupported")) /\ UNCHANGED <<joins, history>>
    <2>1. UNCHANGED <<live, active, executed, newId, joinings, onReturn, held>>
      BY <1>4 DEF Returns, Stop, sched, joins, history
    <2> QED BY <1>1, <2>1, OwnStill
  <1>5. CASE t \in active /\ KillThread(t) /\ executed' = executed \ {t} /\ UNCHANGED newId
    BY <1>1, <1>2, <1>5, OwnKill
  <1> QED BY <1>3, <1>4, <1>5

\* A new thread owns nothing: its id is larger than every owner's.
LEMMA OwnCreate ==
    ASSUME Regular, ServedInv, OwnInv, NEW j \in BOOLEAN, PthreadCreate(j)
    PROVE  OwnInv'
  <1>1. Runs /\ halted = "no" /\ UNCHANGED <<mutex, waiters, barrier>>
    BY DEF PthreadCreate, Runs, queues
  <1>2. CASE Stop("unsupported")
    BY <1>1, <1>2, OwnStill DEF Stop, sched, joins, history
  <1>3. CASE /\ live' = live \cup {newId} /\ active' = active \cup {newId}
             /\ executed' = executed \cup {newId} /\ newId' = newId + 1
             /\ UNCHANGED <<joinings, onReturn, held, halted>>
    <2>1. newId \in Threads /\ newId \in Nat /\ newId \notin live
      BY Placed, EEPthreadAssumption DEF PthreadCreate, Threads, ServedInv
    <2>2. /\ newId \notin executed /\ onReturn[newId] = "none"
          /\ \A m \in Mutexes : held[newId][m] = 0 /\ mutex[m].owner < newId
      BY <2>1 DEF OwnInv, Fresh, Counts
    <2>3. \A m \in Mutexes : mutex[m].owner \in Int /\ mutex[m].owner # newId
      <3>1. \A m \in Mutexes : mutex[m].owner \in Threads \cup {NoThread}
        BY DEF ServedInv, SchedOK, BaseInv, Types
      <3>2. Threads \cup {NoThread} \subseteq Int
        BY EEPthreadAssumption DEF Threads, NoThread
      <3> QED BY <2>1, <2>2, <3>1, <3>2
    <2>4. Counts'
      BY <1>1, <1>3, <2>1, <2>2, <2>3 DEF OwnInv, Counts
    <2>5. Fresh'
      <3> SUFFICES ASSUME NEW t \in Threads, t >= newId + 1
                   PROVE  t \notin executed' /\ onReturn[t] = "none"
                          /\ \A m \in Mutexes : held[t][m] = 0
        BY <1>3 DEF Fresh
      <3>1. t >= newId /\ t # newId
        BY <2>1, EEPthreadAssumption DEF Threads
      <3> QED BY <1>3, <3>1 DEF OwnInv, Fresh
    <2>6. MarkInv'
      <3> SUFFICES ASSUME NEW t \in Threads
                   PROVE  /\ t \in executed' => onReturn[t] = "none" /\ t \notin live' \ active'
                          /\ joinings[t] # NoThread => onReturn[t] = "none"
        BY <1>3 DEF MarkInv
      <3>1. /\ t \in executed => onReturn[t] = "none" /\ t \notin live \ active
            /\ joinings[t] # NoThread => onReturn[t] = "none"
        BY <1>1 DEF OwnInv, MarkInv
      <3> QED BY <1>3, <2>2, <3>1
    <2>7. QueueMarks'
      BY <1>1, <1>3 DEF OwnInv, QueueMarks
    <2>8. Ownership'
      <3> SUFFICES ASSUME NEW n \in Mutexes, NEW t \in live' PROVE Owns(t, n)'
        BY DEF Ownership, Owns
      <3>1. CASE t = newId
        <4>1. ~Handed(t, n)'
          BY <1>3, <3>1 DEF Handed
        <4>2. held'[t][n] = 0 /\ mutex'[n].owner # t
          BY <1>1, <1>3, <2>2, <2>3, <3>1
        <4> QED BY <4>1, <4>2 DEF Owns
      <3>2. CASE t # newId
        <4>1. Owns(t, n)
          BY <1>1, <1>3, <3>2, OwnershipIs DEF OwnInv
        <4>2. Handed(t, n)' <=> Handed(t, n)
          BY <1>3, <3>2 DEF Handed
        <4> QED BY <1>1, <1>3, <4>1, <4>2 DEF Owns
      <3> QED BY <3>1, <3>2
    <2> QED BY <2>4, <2>5, <2>6, <2>7, <2>8 DEF OwnInv
  <1> QED BY <1>2, <1>3 DEF PthreadCreate, history

\* A rescheduled thread repeats its call and now holds the mutex it was handed.
LEMMA OwnReplay ==
    ASSUME ServedInv, OwnInv, [Next]_vars, Replay PROVE OwnInv'
  <1>1. /\ halted = "no" /\ releasing = "none" /\ current \notin executed
        /\ executed' = executed \cup {current}
        /\ held' = Gain(held, current, onReturn[current])
        /\ onReturn' = [onReturn EXCEPT ![current] = "none"]
        /\ UNCHANGED <<live, active, newId, mutex, waiters, barrier, joinings, halted>>
    BY DEF Replay, queues, joins
  <1>2. /\ current \in active /\ current \in live /\ current \in Threads
        /\ releasing \notin Barriers
    BY <1>1, Placed, NoThreadIsNone DEF ServedInv, SchedOK, SchedInv, Objects
  <1>3. held \in HeldType /\ onReturn \in [Threads -> Marks] /\ live \subseteq Threads
    BY Placed DEF ServedInv, SchedOK, BaseInv, Types, HeldType
  <1>4. /\ \A t \in Threads : onReturn'[t] = IF t = current THEN "none" ELSE onReturn[t]
        /\ \A t \in Threads, n \in Mutexes :
              held'[t][n] = IF t = current /\ n = onReturn[current]
                            THEN held[t][n] + 1 ELSE held[t][n]
    BY <1>1, <1>2, <1>3 DEF Gain, HeldType
  <1>5. "none" \notin Mutexes
    BY NoThreadIsNone DEF Objects
  <1>6. Ownership'
    <2> SUFFICES ASSUME NEW n \in Mutexes, NEW t \in live PROVE Owns(t, n)'
      BY <1>1 DEF Ownership, Owns
    <2>1. Owns(t, n) /\ held[t][n] \in Nat /\ t \in Threads
      BY <1>1, <1>3, OwnershipIs DEF OwnInv, HeldType
    <2>2. CASE t # current
      <3>1. Handed(t, n)' <=> Handed(t, n)
        BY <1>1, <1>4, <2>1, <2>2 DEF Handed
      <3> QED BY <1>1, <1>4, <2>1, <2>2, <3>1 DEF Owns
    <2>3. CASE t = current
      <3>1. ~Handed(t, n)'
        BY <1>1, <2>3 DEF Handed
      <3>2. Handed(t, n) <=> onReturn[current] = n
        BY <1>1, <1>2, <2>3 DEF Handed
      <3>3. CASE n = onReturn[current]
        <4>1. held'[t][n] = held[t][n] + 1
          BY <1>4, <2>1, <2>3, <3>3
        <4>2. mutex[n].count > 0 /\ mutex[n].owner = t /\ mutex[n].count = held[t][n] + 1
          BY <2>1, <3>2, <3>3 DEF Owns
        <4> QED BY <1>1, <2>1, <3>1, <4>1, <4>2 DEF Owns
      <3>4. CASE n # onReturn[current]
        BY <1>1, <1>4, <2>1, <2>3, <3>1, <3>2, <3>4 DEF Owns
      <3> QED BY <3>3, <3>4
    <2> QED BY <2>2, <2>3
  <1>7. Counts'
    BY <1>1 DEF OwnInv, Counts
  <1>8. current < newId /\ newId \in Nat /\ current \in Nat
    <2>1. live \subseteq 0 .. newId - 1 /\ newId \in Nat
      BY Placed DEF ServedInv, SchedOK, CountInv
    <2> QED BY <1>2, <2>1
  <1>9. Fresh'
    <2> SUFFICES ASSUME NEW t \in Threads, t >= newId
                 PROVE  t \notin executed' /\ onReturn'[t] = "none"
                        /\ \A m \in Mutexes : held'[t][m] = 0
      BY <1>1 DEF Fresh
    <2>1. t # current
      BY <1>8
    <2> QED BY <1>1, <1>4, <2>1 DEF OwnInv, Fresh
  <1>10. MarkInv'
    <2> SUFFICES ASSUME NEW t \in Threads
                 PROVE  /\ t \in executed' => onReturn'[t] = "none" /\ t \notin live \ active
                        /\ joinings[t] # NoThread => onReturn'[t] = "none"
      BY <1>1 DEF MarkInv
    <2>1. /\ t \in executed => onReturn[t] = "none" /\ t \notin live \ active
          /\ joinings[t] # NoThread => onReturn[t] = "none"
      BY <1>1 DEF OwnInv, MarkInv
    <2> QED BY <1>1, <1>2, <1>4, <2>1
  <1>11. QueueMarks'
    <2>1. ~In(Queue, current)
      BY <1>1, <1>2 DEF ServedInv, PlaceInv, Waits, Queued, Empties
    <2>2. \A x \in Threads : In(Queue, x) => onReturn'[x] = onReturn[x]
      BY <1>4, <2>1
    <2> QED BY <1>1, <2>2, MarksKept DEF OwnInv
  <1> QED BY <1>6, <1>7, <1>9, <1>10, <1>11 DEF OwnInv

\* The remaining handlers.
LEMMA OwnRest ==
    ASSUME ServedInv, OwnInv, [Next]_vars,
           \/ ProcessIns \/ DoContextSwitch \/ Fini
           \/ \E c \in Conds : PthreadCondBroadcast(c)
           \/ \E b \in Barriers : \/ PthreadBarrierDestroy(b)
                                  \/ \E n \in 1 .. MaxThreads : PthreadBarrierInit(b, n)
           \/ \E e, a \in BOOLEAN : PthreadSetcancel(e, a)
    PROVE  OwnInv'
  <1>1. Runs
    BY DEF ProcessIns, DoContextSwitch, Fini, PthreadCondBroadcast, PthreadBarrierDestroy,
           PthreadBarrierInit, PthreadSetcancel
  <1>2. halted = "no" /\ current \in Threads /\ current \in executed /\ ~In(Queue, current)
        /\ onReturn[current] = "none"
    BY <1>1, RunningOwner
  <1>3. CASE ProcessIns
    <2>1. /\ UNCHANGED <<live, active, newId, mutex, waiters, barrier, joinings, onReturn, held>>
          /\ \E exec \in SUBSET executed : Resume(live, coreActive, nactive, exec, FALSE)
      BY <1>3 DEF ProcessIns, queues, joins, history
    <2>2. executed' \subseteq executed
      BY <1>2, <2>1 DEF Resume
    <2> QED BY <1>2, <2>1, <2>2, OwnStill
  <1>4. CASE DoContextSwitch
    <2>1. /\ BlockThread({}, "yield", held)
          /\ UNCHANGED <<live, newId, hth, slot, mutex>> /\ UNCHANGED <<waiters, barrier, joinings>>
      BY <1>4 DEF DoContextSwitch, queues, joins
    <2>2. "yield" \in {"none", "yield"}
      OBVIOUS
    <2>3. /\ Counts' /\ Fresh' /\ MarkInv' /\ Ownership'
          /\ \A x \in Threads : onReturn'[x] = IF x = current THEN "yield" ELSE onReturn[x]
      BY <1>1, <2>1, <2>2, OwnBlock
    <2>4. \A x \in Threads : In(Queue, x) => onReturn'[x] = onReturn[x]
      BY <1>2, <2>3
    <2>5. QueueMarks'
      BY <1>2, <2>1, <2>4, MarksKept DEF OwnInv
    <2> QED BY <2>3, <2>5 DEF OwnInv
  <1>5. CASE \/ Fini \/ \E c \in Conds : PthreadCondBroadcast(c)
             \/ \E e, a \in BOOLEAN : PthreadSetcancel(e, a)
    <2>1. UNCHANGED <<live, active, executed, newId, mutex, waiters, barrier, joinings,
                      onReturn, held>>
      BY <1>5 DEF Fini, PthreadCondBroadcast, PthreadSetcancel, Returns, sched, joins,
         history, queues
    <2> QED BY <1>2, <2>1, OwnStill
  <1>6. ASSUME NEW b \in Barriers, \/ PthreadBarrierDestroy(b)
                                   \/ \E n \in 1 .. MaxThreads : PthreadBarrierInit(b, n)
        PROVE  OwnInv'
    <2>1. /\ UNCHANGED <<live, active, executed, newId, mutex, waiters, joinings, onReturn, held>>
          /\ barrier[b].waiters = <<>>
      BY <1>6 DEF PthreadBarrierDestroy, PthreadBarrierInit, Returns, sched, joins, history
    <2>2. /\ barrier'[b].waiters = <<>>
          /\ \A d \in Barriers \ {b} : barrier'[d] = barrier[d]
      <3>1. barrier \in [Barriers -> BarrierType]
        BY MapsTyped DEF BarrierMap
      <3>2. CASE PthreadBarrierDestroy(b)
        BY <2>1, <3>1, <3>2 DEF PthreadBarrierDestroy, BarrierType
      <3>3. CASE \E n \in 1 .. MaxThreads : PthreadBarrierInit(b, n)
        BY <2>1, <3>1, <3>3 DEF PthreadBarrierInit, BarrierType
      <3> QED BY <1>6, <3>2, <3>3
    <2>3. \A d \in Barriers : barrier'[d].waiters = barrier[d].waiters
      BY <2>1, <2>2
    <2> QED BY <1>2, <2>1, <2>3, OwnStill
  <1> QED BY <1>3, <1>4, <1>5, <1>6

\* Every step of a regular program keeps the books of the mutexes.
LEMMA OwnNext ==
    ASSUME Regular, ServedInv, OwnInv, [Next]_vars PROVE OwnInv'
  <1>1. ASSUME NEW c \in Conds, PthreadCondSignal(c) \/ BroadcastNext(c)
        PROVE  OwnInv'
    <2>1. /\ halted = "no" /\ waiters[c] # <<>> /\ ReleaseWaiter(c)
          /\ releasing \in {"none", c}
      BY <1>1 DEF PthreadCondSignal, BroadcastNext, Runs, ServedInv, SchedOK, BaseInv, LoopInv
    <2>2. releasing \notin Barriers
      BY <2>1, EEPthreadAssumption
    <2> QED BY <2>1, <2>2, OwnReleaseWaiter
  <1>2. CASE Mutual
    BY <1>2, OwnLock, OwnUnlock, OwnCondWait DEF Mutual
  <1>3. CASE Release
    BY <1>1, <1>3, OwnRest, OwnBarrierWait, OwnBarrierNext DEF Release
  <1>4. CASE Lifecycle
    BY <1>4, OwnRest, OwnCreate, OwnExit, OwnJoin, OwnCancel
    DEF Lifecycle, PthreadTestcancel, PthreadCancelCall, PthreadKill
  <1>5. CASE UNCHANGED vars
    <2>1. UNCHANGED <<live, active, executed, newId, mutex, waiters, barrier, joinings,
                      onReturn, held, halted>>
      BY <1>5 DEF vars, sched, queues, joins, history
    <2> QED BY <2>1 DEF OwnInv, Counts, Fresh, MarkInv, QueueMarks, Ownership, Handed
  <1> QED BY <1>2, <1>3, <1>4, <1>5, OwnRest, OwnReplay DEF Next, Halted

\* The state PthreadSim::initiate leaves.
LEMMA ServedInit == Init => JoinInv /\ PlaceInv /\ NoAssert /\ OwnInv
  <1> SUFFICES ASSUME Init PROVE JoinInv /\ PlaceInv /\ NoAssert /\ OwnInv
    OBVIOUS
  <1>1. /\ live = {0} /\ active = {0} /\ executed = {0} /\ newId = 1 /\ halted = "no"
        /\ releasing = "none" /\ current = 0
        /\ \A m \in Mutexes : mutex[m] = FreeMutex
        /\ \A c \in Conds : waiters[c] = <<>>
        /\ \A b \in Barriers : barrier[b].waiters = <<>>
        /\ \A t \in Threads : /\ joinables[t] = IF t = 0 THEN NewJoinee ELSE NoJoinee
                              /\ joinings[t] = NoThread /\ onReturn[t] = "none"
                              /\ \A m \in Mutexes : held[t][m] = 0
    BY DEF Init
  <1>2. 0 \in Threads /\ NoThread \notin Threads /\ "none" \notin Objects
    BY ThreadsFinite, NoThreadIsNone
  <1>3. JoinInv /\ NoAssert
    BY <1>1, <1>2 DEF JoinInv, NoAssert, NewJoinee, NoJoinee
  <1>4. \A x \in Objects : Len(Queue[x]) = 0
    <2>1. mutex \in MutexMap /\ waiters \in WaiterMap /\ barrier \in BarrierMap
      BY BaseInit DEF BaseInv, Types, MutexMap, MutexType, WaiterMap, BarrierMap, BarrierType
    <2>2. /\ \A m \in Mutexes : Queue[m] = <<>>
          /\ \A b \in Barriers : Queue[b] = <<>>
          /\ \A c \in Conds : Len(Queue[c]) = 0
      BY <1>1, <2>1, QueueFacts DEF Queue, FreeMutex
    <2> QED BY <2>2 DEF Objects
  <1>5. OneSpot(Queue) /\ \A t \in Threads : ~In(Queue, t)
    BY <1>4 DEF OneSpot, In
  <1>6. PlaceInv
    BY <1>1, <1>2, <1>5 DEF PlaceInv, Waits, Queued, Empties, Objects
  <1>7. Counts /\ Fresh /\ MarkInv
    BY <1>1, <1>2, EEPthreadAssumption DEF Counts, Fresh, MarkInv, FreeMutex, NoThread, Threads
  <1>8. QueueMarks
    BY <1>1 DEF QueueMarks, FreeMutex
  <1>9. Ownership
    BY <1>1, <1>2 DEF Ownership, FreeMutex, Handed
  <1> QED BY <1>3, <1>6, <1>7, <1>8, <1>9 DEF OwnInv

\* The inductive invariant of a regular program.
LEMMA RegularCorrect == ASSUME Regular PROVE Spec => [](ServedInv /\ OwnInv)
  <1>1. Init => SchedOK
    BY BaseInit, CountInit, EEPthreadAssumption DEF Init, SchedInv, Threads, Hths, SchedOK
  <1>2. ServedInv /\ OwnInv /\ [Next]_vars => (ServedInv /\ OwnInv)'
    <2>1. OwnInv => NonNegative
      BY DEF OwnInv, Counts, NonNegative
    <2> QED BY <2>1, ServedNext, OwnNext
  <1> QED BY <1>1, <1>2, ServedInit, PTL DEF Spec, ServedInv

\* In a regular program a lock or a wait that returned gave the mutex to its
\* caller and to nobody else, and the mutex's count is what its owner locked.
THEOREM MutexOwners == ASSUME Regular PROVE Spec => []Ownership
  BY RegularCorrect, PTL DEF OwnInv

\* Every variable has its type, and the assertion __count >= 1 of UnlockAgain
\* (PthreadMutex.cpp 262) never fails in a regular program.
THEOREM TypeCorrect == ASSUME Regular PROVE Spec => []TypeOK
  <1>1. ServedInv /\ OwnInv => TypeOK
    BY DEF ServedInv, SchedOK, BaseInv, OwnInv, Counts, TypeOK
  <1> QED BY <1>1, RegularCorrect, PTL

\* In a regular program joinables and joinings mirror each other, and whoever is
\* registered as a joiner is a blocked thread that the joinee's end will wake.
THEOREM JoinersKnown == ASSUME Regular PROVE Spec => []JoinTables
  <1>1. ServedInv => JoinTables
    BY NoThreadIsNone DEF ServedInv, JoinInv, JoinTables
  <1> QED BY <1>1, RegularCorrect, PTL

\* In a regular program no assertion of BlockThread, UnblockThread and KillThread
\* fails, hth_to_pth never names an erased thread, and "Deadlocked!" is only
\* reported when no thread is active.
THEOREM NeverAsserts == ASSUME Regular PROVE Spec => []StopsForAReason
  <1>1. ServedInv => StopsForAReason
    BY DEF ServedInv, SchedOK, SchedInv, NoAssert, StopsForAReason
  <1> QED BY <1>1, RegularCorrect, PTL

\* No queue is longer than there are threads.
LEMMA QueueShort ==
    ASSUME NEW q \in Queues, OneSpot(q), NEW x \in Objects
    PROVE  Len(q[x]) \in Nat /\ Len(q[x]) <= MaxThreads
  <1>1. q[x] \in Seq(Threads)
    BY DEF Queues
  <1>2. Len(q[x]) \in Nat /\ q[x] \in [1 .. Len(q[x]) -> Threads]
    BY <1>1
  <1>3. \A i, j \in 1 .. Len(q[x]) : q[x][i] = q[x][j] => i = j
    BY DEF OneSpot
  <1>4. q[x] \in Injection(1 .. Len(q[x]), Threads)
    BY <1>2, <1>3 DEF Injection, IsInjective
  <1>5. Cardinality(1 .. Len(q[x])) <= Cardinality(Threads)
    BY <1>4, ThreadsFinite, FS_Injection
  <1>6. Cardinality(1 .. Len(q[x])) = Len(q[x])
    <2>1. 1 \in Int /\ Len(q[x]) \in Int
      BY <1>2
    <2>2. Cardinality(1 .. Len(q[x])) = IF 1 > Len(q[x]) THEN 0 ELSE Len(q[x]) - 1 + 1
      BY <2>1, FS_Interval
    <2> QED BY <1>2, <2>2
  <1>7. Cardinality(Threads) = MaxThreads
    <2>1. 0 \in Int /\ MaxThreads - 1 \in Int /\ MaxThreads \in Nat \ {0}
      BY EEPthreadAssumption
    <2>2. Cardinality(Threads) = IF 0 > MaxThreads - 1 THEN 0 ELSE (MaxThreads - 1) - 0 + 1
      BY <2>1, FS_Interval DEF Threads
    <2> QED BY <2>1, <2>2
  <1> QED BY <1>2, <1>5, <1>6, <1>7

\* The places of a thread are its positions in the queues and its joinee.
LEMMA PlacesAre ==
    ASSUME ServedInv, halted = "no", NEW t \in Threads
    PROVE  /\ \A p \in Places(t) :
                 \/ \E j \in Threads : p = <<"join", j>> /\ joinings[t] = j
                 \/ \E x \in Objects : \E i \in 1 .. Len(Queue[x]) :
                       /\ p = <<x, i>> /\ Queue[x][i] = t
                       /\ ~(x \in Barriers /\ releasing = x /\ t = current)
           /\ \A j \in Threads : joinings[t] = j => <<"join", j>> \in Places(t)
           /\ \A x \in Objects : \A i \in 1 .. Len(Queue[x]) :
                 Queue[x][i] = t /\ ~Empties(t) => <<x, i>> \in Places(t)
  <1>1. mutex \in MutexMap /\ waiters \in WaiterMap /\ barrier \in BarrierMap
    BY DEF ServedInv, SchedOK, BaseInv, Types, MutexMap, MutexType, WaiterMap, BarrierMap,
           BarrierType
  <1>2. /\ Queue \in Queues
        /\ \A m \in Mutexes : m \in Objects /\ Queue[m] = mutex[m].spin
        /\ \A b \in Barriers : b \in Objects /\ Queue[b] = barrier[b].waiters
        /\ \A c \in Conds : /\ c \in Objects /\ Len(Queue[c]) = Len(waiters[c])
                            /\ \A i \in 1 .. Len(waiters[c]) : Queue[c][i] = waiters[c][i].th
    BY <1>1, QueueFacts DEF Queue
  <1>3. \A x \in Objects : Len(Queue[x]) \in Nat /\ Len(Queue[x]) <= MaxThreads
    BY <1>2, QueueShort DEF ServedInv, PlaceInv
  <1>4. \A j \in Threads : joinables[j].joiner = t <=> joinings[t] = j
    BY DEF ServedInv, JoinInv
  <1>5. MaxThreads \in Nat
    BY EEPthreadAssumption
  <1>6. ASSUME NEW p \in Places(t)
        PROVE  \/ \E j \in Threads : p = <<"join", j>> /\ joinings[t] = j
               \/ \E x \in Objects : \E i \in 1 .. Len(Queue[x]) :
                     /\ p = <<x, i>> /\ Queue[x][i] = t
                     /\ ~(x \in Barriers /\ releasing = x /\ t = current)
    <2>1. CASE p \in Mutexes \X (1 .. MaxThreads)
               /\ p[2] <= Len(mutex[p[1]].spin) /\ mutex[p[1]].spin[p[2]] = t
      <3>1. p = <<p[1], p[2]>> /\ p[1] \in Mutexes /\ p[1] \in Objects
            /\ p[2] \in 1 .. Len(Queue[p[1]]) /\ Queue[p[1]][p[2]] = t
        BY <1>2, <1>3, <1>5, <2>1
      <3>2. p[1] \notin Barriers
        BY <3>1, EEPthreadAssumption
      <3> QED BY <3>1, <3>2
    <2>2. CASE p \in Conds \X (1 .. MaxThreads)
               /\ p[2] <= Len(waiters[p[1]]) /\ waiters[p[1]][p[2]].th = t
      <3>1. p = <<p[1], p[2]>> /\ p[1] \in Conds /\ p[2] \in 1 .. MaxThreads
        BY <2>2
      <3>2. p[1] \in Objects /\ p[2] \in 1 .. Len(Queue[p[1]]) /\ Queue[p[1]][p[2]] = t
        BY <1>2, <1>3, <1>5, <2>2, <3>1
      <3>3. p[1] \notin Barriers
        BY <3>1, EEPthreadAssumption
      <3> QED BY <3>1, <3>2, <3>3
    <2>3. CASE p \in Barriers \X (1 .. MaxThreads)
               /\ p[2] <= Len(barrier[p[1]].waiters) /\ barrier[p[1]].waiters[p[2]] = t
               /\ ~(releasing = p[1] /\ t = current)
      <3>1. p = <<p[1], p[2]>> /\ p[1] \in Barriers /\ p[1] \in Objects
            /\ p[2] \in 1 .. Len(Queue[p[1]]) /\ Queue[p[1]][p[2]] = t
        BY <1>2, <1>3, <1>5, <2>3
      <3> QED BY <2>3, <3>1
    <2>4. CASE p \in {<<"join", j>> : j \in {x \in Threads : joinables[x].joiner = t}}
      BY <1>4, <2>4
    <2> QED BY <2>1, <2>2, <2>3, <2>4 DEF Places
  <1>7. \A j \in Threads : joinings[t] = j => <<"join", j>> \in Places(t)
    BY <1>4 DEF Places
  <1>8. ASSUME NEW x \in Objects, NEW i \in 1 .. Len(Queue[x]), Queue[x][i] = t, ~Empties(t)
        PROVE  <<x, i>> \in Places(t)
    <2>1. i \in 1 .. MaxThreads /\ i <= Len(Queue[x])
      BY <1>3, <1>5
    <2>2. CASE x \in Mutexes
      BY <1>2, <1>8, <2>1, <2>2 DEF Places
    <2>3. CASE x \in Conds
      <3>1. i \in 1 .. Len(waiters[x]) /\ i <= Len(waiters[x]) /\ waiters[x][i].th = t
        BY <1>2, <1>8, <2>1, <2>3
      <3> QED BY <2>1, <2>3, <3>1 DEF Places
    <2>4. CASE x \in Barriers
      <3>1. ~(releasing = x /\ t = current)
        BY <1>8, <2>4 DEF Empties
      <3> QED BY <1>2, <1>8, <2>1, <2>4, <3>1 DEF Places
    <2> QED BY <2>2, <2>3, <2>4 DEF Objects
  <1> QED BY <1>6, <1>7, <1>8

\* In a regular program every thread blocked in a call stands in exactly one queue
\* (or join), and no other thread stands in any: no wakeup is lost, none comes
\* twice.
THEOREM NoLostWakeup == ASSUME Regular PROVE Spec => []BlockedIffQueued
  <1>1. ASSUME ServedInv PROVE BlockedIffQueued
    <2> SUFFICES ASSUME halted = "no", NEW t \in live
                 PROVE  Cardinality(Places(t)) =
                           IF t \in active \/ onReturn[t] = "yield" THEN 0 ELSE 1
      BY DEF BlockedIffQueued
    <2>1. /\ t \in Threads /\ OneSpot(Queue)
          /\ Waits(t) <=> Queued(t) \/ joinings[t] # NoThread
          /\ In(Queue, t) => joinings[t] = NoThread
          /\ joinings[t] \in Threads \cup {NoThread}
      BY <1>1, Placed DEF ServedInv, PlaceInv, SchedOK, BaseInv, Types
    <2>2. /\ \A p \in Places(t) :
                \/ \E j \in Threads : p = <<"join", j>> /\ joinings[t] = j
                \/ \E x \in Objects : \E i \in 1 .. Len(Queue[x]) :
                      /\ p = <<x, i>> /\ Queue[x][i] = t
                      /\ ~(x \in Barriers /\ releasing = x /\ t = current)
          /\ \A j \in Threads : joinings[t] = j => <<"join", j>> \in Places(t)
          /\ \A x \in Objects : \A i \in 1 .. Len(Queue[x]) :
                Queue[x][i] = t /\ ~Empties(t) => <<x, i>> \in Places(t)
      BY <1>1, <2>1, PlacesAre
    <2>3. ASSUME Empties(t), NEW x \in Objects, NEW i \in 1 .. Len(Queue[x]), Queue[x][i] = t
          PROVE  x \in Barriers /\ releasing = x /\ t = current
      <3>1. releasing \in Barriers /\ t = current /\ releasing \in Objects
        BY <2>3 DEF Empties, Objects
      <3>2. Queue[releasing] = barrier[releasing].waiters
        <4>1. mutex \in MutexMap /\ waiters \in WaiterMap /\ barrier \in BarrierMap
          BY <1>1 DEF ServedInv, SchedOK, BaseInv, Types, MutexMap, MutexType, WaiterMap,
                      BarrierMap, BarrierType
        <4> QED BY <3>1, <4>1, QueueFacts DEF Queue
      <3>3. /\ Len(Queue[releasing]) \in 1 .. Len(Queue[releasing])
            /\ Queue[releasing][Len(Queue[releasing])] = t
        <4>1. barrier[releasing].waiters \in Seq(Threads) /\ barrier[releasing].waiters # <<>>
          BY <1>1, <3>1 DEF ServedInv, SchedOK, BaseInv, Types, LoopInv
        <4>2. Len(barrier[releasing].waiters) \in Nat \ {0}
          BY <4>1, EmptySeq
        <4>3. barrier[releasing].waiters[Len(barrier[releasing].waiters)] = current
          BY <1>1, <3>1 DEF ServedInv, PlaceInv
        <4> QED BY <3>1, <3>2, <4>2, <4>3
      <3>4. x = releasing
        BY <2>1, <2>3, <3>1, <3>3 DEF OneSpot
      <3> QED BY <3>1, <3>4
    <2>4. CASE ~Waits(t)
      <3>1. Places(t) = {}
        <4> SUFFICES ASSUME NEW p \in Places(t) PROVE FALSE
          OBVIOUS
        <4>1. joinings[t] = NoThread /\ (In(Queue, t) => Empties(t))
          BY <2>1, <2>4 DEF Queued
        <4>2. ASSUME NEW j \in Threads, joinings[t] = j PROVE FALSE
          BY <4>1, <4>2, NoThreadIsNone
        <4>3. ASSUME NEW x \in Objects, NEW i \in 1 .. Len(Queue[x]), Queue[x][i] = t,
                     ~(x \in Barriers /\ releasing = x /\ t = current)
              PROVE  FALSE
          <5>1. In(Queue, t)
            BY <4>3 DEF In
          <5> QED BY <2>3, <4>1, <4>3, <5>1
        <4> QED BY <2>2, <4>2, <4>3
      <3> QED BY <2>4, <3>1, FS_EmptySet DEF Waits
    <2>5. CASE Waits(t) /\ joinings[t] # NoThread
      <3>1. ~In(Queue, t) /\ joinings[t] \in Threads
        BY <2>1, <2>5
      <3>2. Places(t) = {<<"join", joinings[t]>>}
        BY <2>2, <3>1 DEF In
      <3> QED BY <2>5, <3>2, FS_Singleton DEF Waits
    <2>6. CASE Waits(t) /\ joinings[t] = NoThread
      <3>1. In(Queue, t) /\ ~Empties(t)
        BY <2>1, <2>6 DEF Queued
      <3>2. PICK x \in Objects : \E i \in 1 .. Len(Queue[x]) : Queue[x][i] = t
        BY <3>1 DEF In
      <3>3. PICK i \in 1 .. Len(Queue[x]) : Queue[x][i] = t
        BY <3>2
      <3>4. <<x, i>> \in Places(t)
        BY <2>2, <3>1, <3>3
      <3>5. ASSUME NEW p \in Places(t) PROVE p = <<x, i>>
        <4>1. ~ \E j \in Threads : p = <<"join", j>> /\ joinings[t] = j
          BY <2>6, NoThreadIsNone
        <4>2. PICK y \in Objects : \E k \in 1 .. Len(Queue[y]) : p = <<y, k>> /\ Queue[y][k] = t
          BY <2>2, <4>1
        <4>3. PICK k \in 1 .. Len(Queue[y]) : p = <<y, k>> /\ Queue[y][k] = t
          BY <4>2
        <4>4. y = x /\ k = i
          BY <2>1, <3>3, <4>3 DEF OneSpot
        <4> QED BY <4>3, <4>4
      <3>6. Places(t) = {<<x, i>>}
        BY <3>4, <3>5
      <3> QED BY <2>6, <3>6, FS_Singleton DEF Waits
    <2> QED BY <2>4, <2>5, <2>6
  <1> QED BY <1>1, RegularCorrect, PTL

=============================================================================
