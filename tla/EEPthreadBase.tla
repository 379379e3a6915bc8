---------------------------- MODULE EEPthreadBase ----------------------------
(***************************************************************************)
(* Proofs about EEPthread that need no assumption on the program, or only  *)
(* that it cancels no blocked thread: the values of the variables, the     *)
(* order in which a mutex is handed over, the limit of a barrier and the   *)
(* count of active threads.                                                *)
(***************************************************************************)
EXTENDS EEPthread, FiniteSetTheorems, SequenceTheorems, TLAPS

\* A loop that empties a queue has something left to do.
LoopInv ==
    /\ releasing \in Conds => waiters[releasing] # <<>>
    /\ releasing \in Barriers => barrier[releasing].waiters # <<>>

\* The types, and enough of the loops to know the head of a queue has one.
BaseInv == Types /\ LoopInv

\* nactive counts, and live threads have ids that were handed out.
CountInv == nactive = Cardinality(active) /\ live \subseteq 0 .. newId - 1

-----------------------------------------------------------------------------
(* Facts about the operators of the model.                                 *)

\* The types of one entry of held and of mutex.
HeldType  == [Threads -> [Mutexes -> Nat]]
MutexType == [count : Int, owner : Threads \cup {NoThread}, spin : Seq(Threads)]

\* There are finitely many threads, and zero is one.
LEMMA ThreadsFinite ==
    /\ IsFiniteSet(Threads) /\ 0 \in Threads /\ 0 \in Hths
    /\ \A S : S \subseteq Threads => IsFiniteSet(S) /\ Cardinality(S) \in Nat
  <1>1. 0 \in Int /\ MaxThreads - 1 \in Int /\ MaxThreads >= 1
    BY EEPthreadAssumption
  <1>2. IsFiniteSet(Threads)
    BY <1>1, FS_Interval, Zenon DEF Threads
  <1>3. ASSUME NEW S, S \subseteq Threads PROVE IsFiniteSet(S) /\ Cardinality(S) \in Nat
    BY <1>2, <1>3, FS_Subset, FS_CardinalityType
  <1>4. 0 \in Threads /\ 0 \in Hths
    BY EEPthreadAssumption DEF Threads, Hths
  <1> QED BY <1>2, <1>3, <1>4

\* What PthreadMutexManager::Lock makes of a mutex.
LEMMA LockCases ==
    ASSUME NEW t \in Threads, NEW m, NEW s \in MutexType
    PROVE  LET l == LockMutex(t, m, s)
           IN  /\ l \in MutexType
               /\ s.count = 0 => l.count = 1 /\ l.owner = t /\ l.spin = s.spin
               /\ s.count > 0 /\ Relocks(t, m, s) =>
                     l.count = s.count + 1 /\ l.owner = s.owner /\ l.spin = s.spin
               /\ s.count # 0 /\ ~(s.count > 0 /\ Relocks(t, m, s)) =>
                     l.count = s.count /\ l.owner = s.owner /\ l.spin = Append(s.spin, t)
  <1>1. s.count \in Int /\ s.owner \in Threads \cup {NoThread} /\ s.spin \in Seq(Threads)
    BY DEF MutexType
  <1>2. Append(s.spin, t) \in Seq(Threads)
    BY <1>1
  <1>3. CASE s.count = 0
    <2>1. LockMutex(t, m, s) = [s EXCEPT !.count = 1, !.owner = t]
      BY <1>1, <1>3 DEF LockMutex
    <2>2. LockMutex(t, m, s) \in MutexType
      <3> DEFINE f == [s EXCEPT !.count = 1]
      <3>1. f \in MutexType
        BY DEF MutexType
      <3> HIDE DEF f
      <3>2. [f EXCEPT !.owner = t] \in MutexType
        BY <3>1 DEF MutexType
      <3>3. LockMutex(t, m, s) = [f EXCEPT !.owner = t]
        BY <2>1 DEF f
      <3> QED BY <3>2, <3>3
    <2>3. /\ LockMutex(t, m, s).count = 1 /\ LockMutex(t, m, s).owner = t
          /\ LockMutex(t, m, s).spin = s.spin
      BY <1>1, <2>1 DEF MutexType
    <2> QED BY <1>3, <2>2, <2>3
  <1>4. CASE s.count > 0 /\ Relocks(t, m, s)
    <2>1. LockMutex(t, m, s) = [s EXCEPT !.count = @ + 1]
      BY <1>1, <1>4 DEF LockMutex
    <2> QED BY <1>1, <1>4, <2>1 DEF MutexType
  <1>5. CASE s.count # 0 /\ ~(s.count > 0 /\ Relocks(t, m, s))
    <2>1. LockMutex(t, m, s) = [s EXCEPT !.spin = Append(@, t)]
      BY <1>1, <1>5 DEF LockMutex
    <2> QED BY <1>1, <1>2, <1>5, <2>1 DEF MutexType
  <1> QED BY <1>3, <1>4, <1>5

\* What PthreadMutexManager::Unlock makes of a mutex.
LEMMA UnlockCases ==
    ASSUME NEW t \in Threads, NEW m, NEW s \in MutexType
    PROVE  LET u == UnlockMutex(t, m, s)
           IN  /\ u \in MutexType
               /\ Releases(t, m, s) /\ s.spin = <<>> =>
                     u.count = 0 /\ u.owner = s.owner /\ u.spin = <<>>
               /\ Releases(t, m, s) /\ s.spin # <<>> =>
                     u.count = 1 /\ u.owner = Head(s.spin) /\ u.spin = Tail(s.spin)
               /\ ~Releases(t, m, s) => u.owner = s.owner /\ u.spin = s.spin
               /\ ~Releases(t, m, s) /\ Refuses(t, m, s) => u.count = s.count
               /\ ~Releases(t, m, s) /\ ~Refuses(t, m, s) =>
                     u.count = s.count - 1 /\ m \in Recursive /\ s.count # 1
  <1>1. CASE Releases(t, m, s) /\ s.spin = <<>>
    BY <1>1 DEF UnlockMutex, MutexType
  <1>2. CASE Releases(t, m, s) /\ s.spin # <<>>
    <2> DEFINE r == [[s EXCEPT !.count = 0] EXCEPT !.spin = Tail(s.spin)]
    <2>1. /\ Head(s.spin) \in Threads /\ r \in MutexType
          /\ r.count = 0 /\ r.spin = Tail(s.spin)
      <3>1. s.spin \in Seq(Threads)
        BY DEF MutexType
      <3>2. Head(s.spin) \in Threads /\ Tail(s.spin) \in Seq(Threads)
        BY <1>2, <3>1, HeadTailProperties
      <3> DEFINE f == [s EXCEPT !.count = 0]
      <3>3. f \in MutexType /\ f.count = 0
        BY DEF MutexType
      <3> HIDE DEF f
      <3>4. LET g == [f EXCEPT !.spin = Tail(s.spin)]
            IN  g \in MutexType /\ g.count = 0 /\ g.spin = Tail(s.spin)
        BY <3>2, <3>3 DEF MutexType
      <3> QED BY <3>2, <3>4 DEF f
    <2>2. UnlockMutex(t, m, s) = LockMutex(Head(s.spin), m, r)
      BY <1>2 DEF UnlockMutex, MutexType
    <2> HIDE DEF r
    <2> QED BY <1>2, <2>1, <2>2, LockCases
  <1>3. CASE ~Releases(t, m, s)
    BY <1>3 DEF UnlockMutex, MutexType, Releases
  <1> QED BY <1>1, <1>2, <1>3

\* The thread an unlock wakes is the one that spins longest.
LEMMA UnblockedCases ==
    ASSUME NEW t, NEW m, NEW s \in MutexType
    PROVE  /\ Unblocked(t, m, s) \subseteq Threads
           /\ \/ Unblocked(t, m, s) = {}
              \/ /\ Releases(t, m, s) /\ s.spin # <<>>
                 /\ Unblocked(t, m, s) = {Head(s.spin)}
  BY DEF Unblocked, MutexType

\* A gain is recorded as a natural number.
LEMMA GainTyped ==
    ASSUME NEW h \in HeldType, NEW t \in Threads, NEW m
    PROVE  Gain(h, t, m) \in HeldType
  BY DEF Gain, HeldType

-----------------------------------------------------------------------------
(* Types, one lemma per routine of the scheduler.                          *)

\* resume_simulation names a thread.
LEMMA ResumeTyped ==
    ASSUME Types, NEW alive \in SUBSET Threads, NEW cores \in SUBSET Hths, NEW na,
           NEW exec \in SUBSET Threads, NEW must, Resume(alive, cores, na, exec, must)
    PROVE  /\ executed' \subseteq Threads /\ current' \in Threads
           /\ started' \subseteq Threads /\ halted' \in Reasons
  <1>1. CASE \E h \in cores :
               LET next == slot[h]
                   same == next = current /\ next \in alive \cap started
                   goes == next \in alive /\ (must \/ na > 1)
               IN  /\ executed' = IF same THEN exec \cup {current} ELSE exec
                   /\ current' = IF goes THEN next ELSE current
                   /\ started' = IF goes THEN started \cup {next} ELSE started
                   /\ halted' = IF same \/ goes THEN halted ELSE "astray"
    BY <1>1 DEF Types, Reasons
  <1>2. CASE cores = {} /\ halted' = "nocore" /\ executed' = exec
             /\ UNCHANGED <<current, started>>
    BY <1>2 DEF Types, Reasons
  <1> QED BY <1>1, <1>2 DEF Resume

\* UnblockThread.
LEMMA WakeTyped ==
    ASSUME Types, NEW ws \in SUBSET Threads, Wake(ws)
    PROVE  /\ active' \subseteq live /\ nactive' \in Int
           /\ coreActive' \subseteq Hths /\ halted' \in Reasons
  <1>1. Cardinality(ws) \in Nat
    BY ThreadsFinite
  <1> QED BY <1>1 DEF Wake, Waking, Types, Reasons

\* BlockThread.
LEMMA BlockTyped ==
    ASSUME Types, NEW ws \in SUBSET Threads, NEW m \in Marks, NEW h \in HeldType,
           BlockThread(ws, m, h)
    PROVE  /\ active' \subseteq live /\ nactive' \in Int /\ coreActive' \subseteq Hths
           /\ executed' \subseteq Threads /\ current' \in Threads
           /\ started' \subseteq Threads /\ halted' \in Reasons
           /\ onReturn' \in [Threads -> Marks] /\ held' \in HeldType
  <1> DEFINE na    == nactive + Cardinality(ws) - 1
             cores == (coreActive \cup (ws \cap Hths)) \ {current}
  <1>1. Cardinality(ws) \in Nat /\ na \in Int
    BY ThreadsFinite DEF Types
  <1>2. CASE ~(Waking(ws) /\ current \in active)
    BY <1>2 DEF BlockThread, Types, Reasons, history, HeldType
  <1>3. CASE Waking(ws) /\ current \in active
    <2>1. /\ active' = (active \cup ws) \ {current} /\ nactive' = na
          /\ coreActive' = cores
          /\ IF na > 0
             THEN Resume(live, cores, na, executed \ {current}, TRUE)
             ELSE halted' = "deadlock" /\ UNCHANGED <<executed, current, started>>
          /\ IF na > 0 /\ current \in executed'
             THEN held' = Gain(h, current, m) /\ UNCHANGED onReturn
             ELSE held' = h /\ onReturn' = [onReturn EXCEPT ![current] = m]
      BY <1>3 DEF BlockThread
    <2>2. cores \in SUBSET Hths /\ executed \ {current} \in SUBSET Threads
          /\ live \in SUBSET Threads
      BY DEF Types
    <2>3. active' \subseteq live
      BY <1>3, <2>1 DEF Waking, Types
    <2>4. /\ executed' \subseteq Threads /\ current' \in Threads
          /\ started' \subseteq Threads /\ halted' \in Reasons
      <3>1. CASE na > 0
        <4>1. Resume(live, cores, na, executed \ {current}, TRUE)
          BY <2>1, <3>1
        <4> HIDE DEF cores, na
        <4> QED BY <2>2, <4>1, ResumeTyped
      <3>2. CASE ~(na > 0)
        BY <2>1, <3>2 DEF Types, Reasons
      <3> QED BY <3>1, <3>2
    <2>5. onReturn' \in [Threads -> Marks]
      BY <2>1 DEF Types
    <2>6. held' \in HeldType
      BY <2>1, GainTyped DEF Types
    <2> QED BY <1>1, <2>1, <2>2, <2>3, <2>4, <2>5, <2>6
  <1> QED BY <1>2, <1>3

\* KillThread of the scheduler and of the join and cancel managers.
LEMMA KillTyped ==
    ASSUME Types, NEW t \in Threads, Waking(JoinerOf(t)), KillThread(t)
    PROVE  /\ live' \subseteq Threads /\ active' \subseteq live' /\ nactive' \in Int
           /\ coreActive' \subseteq Hths
           /\ joinables' \in [Threads -> [st : {"no", "run", "done"},
                                          joiner : Threads \cup {NoThread}]]
           /\ joinings' \in [Threads -> Threads \cup {NoThread}]
           /\ cancel' \in [Threads -> [canceled : BOOLEAN, enabled : BOOLEAN,
                                       async : BOOLEAN]]
           /\ onReturn' \in [Threads -> Marks] /\ held' \in HeldType
  <1>1. JoinerOf(t) \subseteq Threads /\ Cardinality(JoinerOf(t)) \in Nat
    BY ThreadsFinite DEF JoinerOf
  <1>2. live' \subseteq Threads /\ active' \subseteq live' /\ nactive' \in Int
        /\ coreActive' \subseteq Hths
    BY <1>1 DEF KillThread, Waking, Types
  <1>3. joinables' \in [Threads -> [st : {"no", "run", "done"},
                                    joiner : Threads \cup {NoThread}]]
    BY DEF KillThread, KillJoinee, NoJoinee, DoneJoinee, Types
  <1>4. joinings' \in [Threads -> Threads \cup {NoThread}]
    BY DEF KillThread, KillJoinee, Types
  <1>5. cancel' \in [Threads -> [canceled : BOOLEAN, enabled : BOOLEAN, async : BOOLEAN]]
    <2>1. NewCancel \in [canceled : BOOLEAN, enabled : BOOLEAN, async : BOOLEAN]
      BY DEF NewCancel
    <2> QED BY <2>1, Zenon DEF KillThread, Types
  <1>6. onReturn' \in [Threads -> Marks]
    BY DEF KillThread, Types, Marks
  <1>7. held' \in HeldType
    BY DEF KillThread, Types, HeldType
  <1> QED BY <1>2, <1>3, <1>4, <1>5, <1>6, <1>7

-----------------------------------------------------------------------------
(* Types, one lemma per group of actions.                                  *)

\* Outside the loops that empty a queue there is nothing left to do.
LEMMA NoLoop == releasing' = "none" => LoopInv'
  BY EEPthreadAssumption DEF LoopInv

\* process_ins, the repeated call and the yield.
LEMMA BaseScheduling ==
    ASSUME BaseInv, ProcessIns \/ Replay \/ DoContextSwitch PROVE BaseInv'
  <1> USE DEF BaseInv
  <1>1. CASE ProcessIns
    <2> DEFINE exec == IF nactive > 1 THEN executed \ {current} ELSE executed
    <2>1. /\ exec \in SUBSET Threads /\ live \in SUBSET Threads
          /\ coreActive \in SUBSET Hths
      BY DEF Types
    <2>2. Resume(live, coreActive, nactive, exec, FALSE)
      BY <1>1 DEF ProcessIns
    <2> HIDE DEF exec
    <2>3. /\ executed' \subseteq Threads /\ current' \in Threads
          /\ started' \subseteq Threads /\ halted' \in Reasons
      BY <2>1, <2>2, ResumeTyped
    <2>4. /\ UNCHANGED <<live, active, nactive, newId, hth, slot, coreActive>>
          /\ UNCHANGED <<mutex, waiters, barrier, releasing, joinables, joinings,
                         cancel, onReturn, held>>
          /\ releasing = "none"
      BY <1>1 DEF ProcessIns, Runs, queues, joins, history
    <2> QED BY <2>3, <2>4, NoLoop DEF Types
  <1>2. CASE Replay
    <2>1. /\ UNCHANGED <<live, active, started, nactive, current, newId, hth, slot,
                         coreActive, releasing, cancel, halted>>
          /\ UNCHANGED <<mutex, waiters, barrier, joinables, joinings>>
          /\ releasing = "none" /\ executed' = executed \cup {current}
          /\ held' = Gain(held, current, onReturn[current])
          /\ onReturn' = [onReturn EXCEPT ![current] = "none"]
      BY <1>2 DEF Replay, queues, joins
    <2>2. held' \in HeldType
      BY <2>1, GainTyped DEF Types, HeldType
    <2>3. onReturn' \in [Threads -> Marks]
      BY <2>1 DEF Types, Marks
    <2> QED BY <2>1, <2>2, <2>3, NoLoop DEF Types, HeldType
  <1>3. CASE DoContextSwitch
    <2>1. /\ UNCHANGED <<live, newId, hth, slot, mutex, waiters, barrier, releasing,
                         joinables, joinings, cancel>>
          /\ releasing = "none" /\ BlockThread({}, "yield", held)
      BY <1>3 DEF DoContextSwitch, Runs, queues, joins
    <2>2. "yield" \in Marks /\ held \in HeldType /\ {} \in SUBSET Threads
      BY DEF Marks, Types, HeldType
    <2>3. /\ active' \subseteq live /\ nactive' \in Int /\ coreActive' \subseteq Hths
          /\ executed' \subseteq Threads /\ current' \in Threads
          /\ started' \subseteq Threads /\ halted' \in Reasons
          /\ onReturn' \in [Threads -> Marks] /\ held' \in HeldType
      BY <2>1, <2>2, BlockTyped
    <2> QED BY <2>1, <2>3, NoLoop DEF Types, HeldType
  <1> QED BY <1>1, <1>2, <1>3

\* A step that changes one mutex, and otherwise at most the scheduler's state,
\* keeps the types.
LEMMA BaseMutexStep ==
    ASSUME BaseInv, NEW m \in Mutexes, NEW s \in MutexType,
           mutex' = [mutex EXCEPT ![m] = s],
           UNCHANGED <<live, newId, hth, slot, barrier, joinables, joinings, cancel>>,
           waiters' \in [Conds -> Seq([th : Threads, mx : Mutexes])],
           releasing' \in Conds \cup Barriers \cup {"none"},
           active' \subseteq live, nactive' \in Int, coreActive' \subseteq Hths,
           executed' \subseteq Threads, current' \in Threads,
           started' \subseteq Threads, halted' \in Reasons,
           onReturn' \in [Threads -> Marks], held' \in HeldType
    PROVE  Types'
  <1>1. mutex' \in [Mutexes -> MutexType]
    BY DEF BaseInv, Types, MutexType
  <1> QED BY <1>1 DEF BaseInv, Types, MutexType, HeldType

\* pthread_mutex_lock and pthread_mutex_trylock.
LEMMA BaseLock ==
    ASSUME BaseInv, NEW m \in Mutexes, PthreadMutexLock(m) \/ PthreadMutexTrylock(m)
    PROVE  BaseInv'
  <1>1. mutex[m] \in MutexType /\ current \in Threads /\ held \in HeldType /\ m \in Marks
        /\ {} \in SUBSET Threads
    BY DEF BaseInv, Types, MutexType, HeldType, Marks
  <1>2. LockMutex(current, m, mutex[m]) \in MutexType
    BY <1>1, LockCases
  <1>3. Gain(held, current, m) \in HeldType
    BY <1>1, GainTyped
  <1>4. /\ mutex' = [mutex EXCEPT ![m] = LockMutex(current, m, mutex[m])]
        /\ UNCHANGED <<live, newId, hth, slot, barrier, joinables, joinings, cancel,
                       waiters, releasing>>
        /\ releasing = "none"
    BY Zenon DEF PthreadMutexLock, PthreadMutexTrylock, Runs, Returns, sched, joins
  <1>5. /\ active' \subseteq live /\ nactive' \in Int /\ coreActive' \subseteq Hths
        /\ executed' \subseteq Threads /\ current' \in Threads
        /\ started' \subseteq Threads /\ halted' \in Reasons
        /\ onReturn' \in [Threads -> Marks] /\ held' \in HeldType
    <2>1. CASE PthreadMutexLock(m) /\ Blocks(current, m, mutex[m])
      <3>1. BlockThread({}, m, held)
        BY <2>1 DEF PthreadMutexLock
      <3> QED BY <1>1, <3>1, BlockTyped DEF BaseInv
    <2>2. CASE ~(PthreadMutexLock(m) /\ Blocks(current, m, mutex[m]))
      <3>1. /\ UNCHANGED <<active, nactive, coreActive, executed, current, started,
                           onReturn, halted>>
            /\ held' = Gain(held, current, m)
        BY <2>2, Zenon DEF PthreadMutexLock, PthreadMutexTrylock, Returns, sched
      <3> QED BY <1>3, <3>1 DEF BaseInv, Types
    <2> QED BY <2>1, <2>2
  <1>6. waiters' \in [Conds -> Seq([th : Threads, mx : Mutexes])]
        /\ releasing' \in Conds \cup Barriers \cup {"none"}
    BY <1>4 DEF BaseInv, Types
  <1>7. Types'
    BY <1>2, <1>4, <1>5, <1>6, BaseMutexStep
  <1> QED BY <1>4, <1>7, NoLoop DEF BaseInv

\* pthread_mutex_unlock.
LEMMA BaseUnlock ==
    ASSUME BaseInv, NEW m \in Mutexes, PthreadMutexUnlock(m)
    PROVE  BaseInv'
  <1> DEFINE ws == Unblocked(current, m, mutex[m])
  <1>1. mutex[m] \in MutexType /\ current \in Threads
    BY DEF BaseInv, Types, MutexType
  <1>2. UnlockMutex(current, m, mutex[m]) \in MutexType
    BY <1>1, UnlockCases
  <1>3. /\ mutex' = [mutex EXCEPT ![m] = UnlockMutex(current, m, mutex[m])]
        /\ UNCHANGED <<live, newId, hth, slot, barrier, joinables, joinings, cancel,
                       waiters, releasing, started, executed, current, onReturn>>
        /\ releasing = "none" /\ Wake(ws)
        /\ held' = IF held[current][m] > 0 THEN Lose(m) ELSE held
    BY DEF PthreadMutexUnlock, Runs, joins
  <1>4. ws \in SUBSET Threads
    BY <1>1, UnblockedCases
  <1> HIDE DEF ws
  <1>5. /\ active' \subseteq live /\ nactive' \in Int
        /\ coreActive' \subseteq Hths /\ halted' \in Reasons
    BY <1>3, <1>4, WakeTyped DEF BaseInv
  <1>6. held' \in HeldType
    BY <1>3 DEF Lose, HeldType, BaseInv, Types
  <1>7. /\ waiters' \in [Conds -> Seq([th : Threads, mx : Mutexes])]
        /\ releasing' \in Conds \cup Barriers \cup {"none"}
        /\ executed' \subseteq Threads /\ current' \in Threads
        /\ started' \subseteq Threads /\ onReturn' \in [Threads -> Marks]
    BY <1>3 DEF BaseInv, Types
  <1>8. Types'
    BY <1>2, <1>3, <1>5, <1>6, <1>7, BaseMutexStep
  <1> QED BY <1>3, <1>8, NoLoop DEF BaseInv

\* pthread_cond_wait.
LEMMA BaseCondWait ==
    ASSUME BaseInv, NEW c \in Conds, NEW m \in Mutexes, PthreadCondWait(c, m)
    PROVE  BaseInv'
  <1> DEFINE ws == Unblocked(current, m, mutex[m])
  <1>1. mutex[m] \in MutexType /\ current \in Threads /\ m \in Marks
    BY DEF BaseInv, Types, MutexType, Marks
  <1>2. UnlockMutex(current, m, mutex[m]) \in MutexType
    BY <1>1, UnlockCases
  <1>3. /\ mutex' = [mutex EXCEPT ![m] = UnlockMutex(current, m, mutex[m])]
        /\ UNCHANGED <<live, newId, hth, slot, barrier, joinables, joinings, cancel,
                       releasing>>
        /\ releasing = "none" /\ BlockThread(ws, m, Lose(m))
        /\ held[current][m] > 0
        /\ waiters' = [waiters EXCEPT ![c] = Append(@, [th |-> current, mx |-> m])]
    BY DEF PthreadCondWait, Runs, joins
  <1>4. ws \in SUBSET Threads
    BY <1>1, UnblockedCases
  <1> HIDE DEF ws
  <1>5. Lose(m) \in HeldType
    BY <1>3 DEF Lose, HeldType, BaseInv, Types
  <1>6. /\ active' \subseteq live /\ nactive' \in Int /\ coreActive' \subseteq Hths
        /\ executed' \subseteq Threads /\ current' \in Threads
        /\ started' \subseteq Threads /\ halted' \in Reasons
        /\ onReturn' \in [Threads -> Marks] /\ held' \in HeldType
    BY <1>1, <1>3, <1>4, <1>5, BlockTyped DEF BaseInv
  <1>7. waiters' \in [Conds -> Seq([th : Threads, mx : Mutexes])]
    <2>1. [th |-> current, mx |-> m] \in [th : Threads, mx : Mutexes]
      BY <1>1
    <2>2. waiters[c] \in Seq([th : Threads, mx : Mutexes])
      BY DEF BaseInv, Types
    <2>3. Append(waiters[c], [th |-> current, mx |-> m]) \in Seq([th : Threads, mx : Mutexes])
      BY <2>1, <2>2, AppendProperties
    <2> QED BY <1>3, <2>3, Zenon DEF BaseInv, Types
  <1>8. releasing' \in Conds \cup Barriers \cup {"none"}
    BY <1>3
  <1>9. Types'
    BY <1>2, <1>3, <1>6, <1>7, <1>8, BaseMutexStep
  <1> QED BY <1>3, <1>9, NoLoop DEF BaseInv

\* Popping a queue of several elements leaves some.
LEMMA TailNonempty ==
    ASSUME NEW S, NEW s \in Seq(S), s # <<>>, Len(s) # 1 PROVE Tail(s) # <<>>
  <1> SUFFICES ASSUME Tail(s) = <<>> PROVE FALSE
    OBVIOUS
  <1>1. Len(Tail(s)) = Len(s) - 1
    BY HeadTailProperties, Zenon
  <1>2. Len(Tail(s)) = Len(<<>>) /\ Len(<<>>) = 0
    BY EmptySeq, Zenon
  <1>3. Len(s) - 1 = 0
    BY <1>1, <1>2, Zenon
  <1>4. Len(s) \in Nat
    BY LenProperties
  <1>5. Len(s) = 1
    BY <1>3, <1>4
  <1> QED BY <1>5

\* The waiter that leaves first, and the queue it leaves.
LEMMA WaiterTyped ==
    ASSUME BaseInv, NEW c \in Conds, waiters[c] # <<>>
    PROVE  /\ Head(waiters[c]).th \in Threads /\ Head(waiters[c]).mx \in Mutexes
           /\ Tail(waiters[c]) \in Seq([th : Threads, mx : Mutexes])
           /\ Len(waiters[c]) \in Nat /\ Len(waiters[c]) # 1 => Tail(waiters[c]) # <<>>
  <1>1. waiters[c] \in Seq([th : Threads, mx : Mutexes])
    BY DEF BaseInv, Types
  <1>2. /\ Head(waiters[c]) \in [th : Threads, mx : Mutexes]
        /\ Tail(waiters[c]) \in Seq([th : Threads, mx : Mutexes])
        /\ Len(Tail(waiters[c])) = Len(waiters[c]) - 1
    BY <1>1, HeadTailProperties
  <1>3. Len(waiters[c]) \in Nat
    BY <1>1, LenProperties
  <1>4. Len(waiters[c]) # 1 => Tail(waiters[c]) # <<>>
    BY <1>1, TailNonempty
  <1> QED BY <1>2, <1>3, <1>4

\* The release of one waiter.
LEMMA BaseReleaseWaiter ==
    ASSUME BaseInv, NEW c \in Conds, waiters[c] # <<>>, ReleaseWaiter(c),
           releasing' \in Conds \cup Barriers \cup {"none"}
    PROVE  Types'
  <1> DEFINE w == Head(waiters[c])
             l == LockMutex(w.th, w.mx, mutex[w.mx])
             ws == IF Blocks(w.th, w.mx, mutex[w.mx]) THEN {} ELSE {w.th}
  <1>1. w.th \in Threads /\ w.mx \in Mutexes
    BY WaiterTyped
  <1>2. mutex[w.mx] \in MutexType
    BY <1>1 DEF BaseInv, Types, MutexType
  <1>3. l \in MutexType
    BY <1>1, <1>2, LockCases
  <1>4. /\ mutex' = [mutex EXCEPT ![w.mx] = l]
        /\ UNCHANGED <<live, newId, hth, slot, barrier, joinables, joinings, cancel,
                       started, executed, current, onReturn, held>>
        /\ Wake(ws) /\ waiters' = [waiters EXCEPT ![c] = Tail(@)]
    BY DEF ReleaseWaiter, joins, history
  <1>5. ws \in SUBSET Threads
    BY <1>1
  <1> HIDE DEF ws
  <1>6. /\ active' \subseteq live /\ nactive' \in Int
        /\ coreActive' \subseteq Hths /\ halted' \in Reasons
    BY <1>4, <1>5, WakeTyped DEF BaseInv
  <1>7. waiters' \in [Conds -> Seq([th : Threads, mx : Mutexes])]
    BY <1>4, WaiterTyped, Zenon DEF BaseInv, Types
  <1>8. /\ executed' \subseteq Threads /\ current' \in Threads
        /\ started' \subseteq Threads /\ onReturn' \in [Threads -> Marks]
        /\ held' \in HeldType
    BY <1>4 DEF BaseInv, Types, HeldType
  <1> HIDE DEF l, w
  <1> QED BY <1>1, <1>3, <1>4, <1>6, <1>7, <1>8, BaseMutexStep

\* pthread_cond_signal and pthread_cond_broadcast.
LEMMA BaseCond ==
    ASSUME BaseInv, NEW c \in Conds,
           PthreadCondSignal(c) \/ PthreadCondBroadcast(c) \/ BroadcastNext(c)
    PROVE  BaseInv'
  <1>1. CASE PthreadCondSignal(c)
    <2>1. waiters[c] # <<>> /\ ReleaseWaiter(c) /\ releasing' = "none"
      BY <1>1 DEF PthreadCondSignal, Runs
    <2>2. Types'
      BY <2>1, BaseReleaseWaiter
    <2> QED BY <2>1, <2>2, NoLoop DEF BaseInv
  <1>2. CASE PthreadCondBroadcast(c)
    <2>1. /\ waiters[c] # <<>> /\ releasing' = c
          /\ UNCHANGED <<live, active, started, executed, nactive, current, newId, hth,
                         slot, coreActive, mutex, waiters, barrier, joinables, joinings,
                         cancel, onReturn, held, halted>>
      BY <1>2 DEF PthreadCondBroadcast, Returns, sched, queues, joins, history
    <2>2. Types'
      BY <2>1 DEF BaseInv, Types
    <2>3. LoopInv'
      BY <2>1, EEPthreadAssumption DEF LoopInv
    <2> QED BY <2>2, <2>3 DEF BaseInv
  <1>3. CASE BroadcastNext(c)
    <2>1. /\ ReleaseWaiter(c) /\ releasing = c
          /\ releasing' = IF Len(waiters[c]) = 1 THEN "none" ELSE c
      BY <1>3 DEF BroadcastNext
    <2>2. waiters[c] # <<>>
      BY <2>1 DEF BaseInv, LoopInv
    <2>3. Types'
      BY <2>1, <2>2, BaseReleaseWaiter
    <2>4. CASE Len(waiters[c]) = 1
      BY <2>1, <2>3, <2>4, NoLoop DEF BaseInv
    <2>5. CASE Len(waiters[c]) # 1
      <3>1. waiters' = [waiters EXCEPT ![c] = Tail(@)] /\ waiters'[c] = Tail(waiters[c])
        BY <2>1 DEF ReleaseWaiter, BaseInv, Types
      <3>2. waiters'[c] # <<>> /\ releasing' = c
        BY <2>1, <2>2, <2>5, <3>1, WaiterTyped
      <3> QED BY <2>3, <3>2, EEPthreadAssumption DEF BaseInv, LoopInv
    <2> QED BY <2>4, <2>5
  <1> QED BY <1>1, <1>2, <1>3

BarrierType == [num : 0 .. MaxThreads, waiters : Seq(Threads)]

\* The fields of a barrier after its queue grew or shrank.
LEMMA BarrierQueue ==
    ASSUME BaseInv, NEW b \in Barriers, NEW q \in Seq(Threads),
           barrier' = [barrier EXCEPT ![b].waiters = q]
    PROVE  /\ barrier' \in [Barriers -> BarrierType]
           /\ barrier'[b].waiters = q /\ barrier'[b].num = barrier[b].num
           /\ \A x \in Barriers \ {b} : barrier'[x] = barrier[x]
  BY DEF BaseInv, Types, BarrierType

\* pthread_barrier_wait.
LEMMA BaseBarrierWait ==
    ASSUME BaseInv, NEW b \in Barriers, PthreadBarrierWait(b)
    PROVE  BaseInv'
  <1> DEFINE q == Append(barrier[b].waiters, current)
  <1>1. /\ barrier' = [barrier EXCEPT ![b].waiters = q]
        /\ UNCHANGED <<live, newId, hth, slot, mutex, waiters, joinables, joinings, cancel>>
        /\ releasing = "none"
    BY DEF PthreadBarrierWait, Runs, Returns, sched, joins
  <1>2. q \in Seq(Threads) /\ q # <<>>
    <2>1. barrier[b].waiters \in Seq(Threads) /\ current \in Threads
      BY DEF BaseInv, Types
    <2> QED BY <2>1
  <1> HIDE DEF q
  <1>3. barrier' \in [Barriers -> BarrierType] /\ barrier'[b].waiters = q
    BY <1>1, <1>2, BarrierQueue
  <1>4. CASE Len(barrier[b].waiters) + 1 = barrier[b].num
    <2>1. /\ releasing' = b
          /\ UNCHANGED <<active, started, executed, nactive, current, coreActive,
                         onReturn, held, halted>>
      BY <1>4 DEF PthreadBarrierWait, Returns, sched, history
    <2>2. Types'
      BY <1>1, <1>3, <2>1 DEF BaseInv, Types, BarrierType
    <2>3. LoopInv'
      BY <1>2, <1>3, <2>1, EEPthreadAssumption DEF LoopInv
    <2> QED BY <2>2, <2>3 DEF BaseInv
  <1>5. CASE Len(barrier[b].waiters) + 1 # barrier[b].num
    <2>1. BlockThread({}, "none", held) /\ releasing' = "none"
      BY <1>1, <1>5 DEF PthreadBarrierWait
    <2>2. "none" \in Marks /\ held \in HeldType /\ {} \in SUBSET Threads
      BY DEF Marks, BaseInv, Types, HeldType
    <2>3. /\ active' \subseteq live /\ nactive' \in Int /\ coreActive' \subseteq Hths
          /\ executed' \subseteq Threads /\ current' \in Threads
          /\ started' \subseteq Threads /\ halted' \in Reasons
          /\ onReturn' \in [Threads -> Marks] /\ held' \in HeldType
      BY <2>1, <2>2, BlockTyped DEF BaseInv
    <2>4. Types'
      BY <1>1, <1>3, <2>1, <2>3 DEF BaseInv, Types, HeldType, BarrierType
    <2> QED BY <2>1, <2>4, NoLoop DEF BaseInv
  <1> QED BY <1>4, <1>5

\* One iteration of the loop that releases a barrier's waiters.
LEMMA BaseBarrierNext ==
    ASSUME BaseInv, NEW b \in Barriers, BarrierNext(b)
    PROVE  BaseInv'
  <1> DEFINE q == barrier[b].waiters
             ws == {Head(q)} \ {current}
  <1>1. /\ barrier' = [barrier EXCEPT ![b].waiters = Tail(q)] /\ releasing = b
        /\ UNCHANGED <<live, newId, hth, slot, mutex, waiters, joinables, joinings, cancel,
                       started, executed, current, onReturn, held>>
        /\ releasing' = IF Len(q) = 1 THEN "none" ELSE b
        /\ Wake(ws)
    BY DEF BarrierNext, joins, history
  <1>2. q \in Seq(Threads) /\ q # <<>> /\ Len(q) \in Nat
    <2>1. q \in Seq(Threads)
      BY DEF BaseInv, Types
    <2>2. q # <<>>
      BY <1>1 DEF BaseInv, LoopInv
    <2> QED BY <2>1, <2>2, LenProperties
  <1>3. Head(q) \in Threads /\ Tail(q) \in Seq(Threads) /\ Len(Tail(q)) = Len(q) - 1
    BY <1>2, HeadTailProperties
  <1>4. Len(q) # 1 => Tail(q) # <<>>
    BY <1>2, TailNonempty
  <1>5. ws \in SUBSET Threads
    BY <1>3
  <1> HIDE DEF q, ws
  <1>6. barrier' \in [Barriers -> BarrierType] /\ barrier'[b].waiters = Tail(q)
    BY <1>1, <1>3, BarrierQueue
  <1>7. /\ active' \subseteq live /\ nactive' \in Int
        /\ coreActive' \subseteq Hths /\ halted' \in Reasons
    BY <1>1, <1>5, WakeTyped DEF BaseInv
  <1>8. Types'
    BY <1>1, <1>6, <1>7 DEF BaseInv, Types, BarrierType
  <1>9. LoopInv'
    BY <1>1, <1>4, <1>6, EEPthreadAssumption DEF LoopInv
  <1> QED BY <1>8, <1>9 DEF BaseInv

\* pthread_barrier_init and pthread_barrier_destroy.
LEMMA BaseBarrierInit ==
    ASSUME BaseInv, NEW b \in Barriers,
           \/ PthreadBarrierDestroy(b)
           \/ \E n \in 1 .. MaxThreads : PthreadBarrierInit(b, n)
    PROVE  BaseInv'
  <1>1. /\ releasing' = "none"
        /\ UNCHANGED <<live, active, started, executed, nactive, current, newId, hth,
                       slot, coreActive, mutex, waiters, joinables, joinings,
                       cancel, onReturn, held, halted>>
    BY DEF PthreadBarrierDestroy, PthreadBarrierInit, Runs, Returns, sched, joins, history
  <1>2. barrier' \in [Barriers -> BarrierType]
    <2>1. CASE PthreadBarrierDestroy(b)
      <3>1. barrier' = [barrier EXCEPT ![b].num = 0]
        BY <2>1 DEF PthreadBarrierDestroy
      <3>2. 0 \in 0 .. MaxThreads
        BY EEPthreadAssumption
      <3> QED BY <3>1, <3>2 DEF BaseInv, Types, BarrierType
    <2>2. CASE \E n \in 1 .. MaxThreads : PthreadBarrierInit(b, n)
      BY <2>2, EEPthreadAssumption DEF PthreadBarrierInit, BaseInv, Types, BarrierType
    <2> QED BY <2>1, <2>2
  <1>3. Types'
    BY <1>1, <1>2 DEF BaseInv, Types, BarrierType
  <1> QED BY <1>1, <1>3, NoLoop DEF BaseInv

\* pthread_create.
LEMMA BaseCreate ==
    ASSUME BaseInv, NEW j \in BOOLEAN, PthreadCreate(j)
    PROVE  BaseInv'
  <1> DEFINE i == Cardinality(live)
  <1>1. /\ releasing = "none" /\ newId < MaxThreads
        /\ UNCHANGED <<mutex, waiters, barrier, releasing>>
    BY DEF PthreadCreate, Runs, queues
  <1>2. CASE i + 1 > NumHthreads
    <2>1. /\ halted' = "unsupported"
          /\ UNCHANGED <<live, active, started, executed, nactive, current, newId, hth,
                         slot, coreActive, joinables, joinings, cancel, onReturn, held>>
      BY <1>2 DEF PthreadCreate, Stop, sched, joins, history
    <2>2. Types'
      BY <1>1, <2>1 DEF BaseInv, Types, Reasons
    <2> QED BY <1>1, <2>2, NoLoop DEF BaseInv
  <1>3. CASE ~(i + 1 > NumHthreads)
    <2>1. /\ live' = live \cup {newId} /\ active' = active \cup {newId}
          /\ executed' = executed \cup {newId}
          /\ nactive' = nactive + 1 /\ newId' = newId + 1
          /\ slot' = [h \in Hths |-> CASE h < i -> slot[h]
                                       [] h = i -> newId
                                       [] OTHER -> slot[h - 1]]
          /\ hth' = [hth EXCEPT ![newId] = i]
          /\ coreActive' = coreActive \cup {i}
          /\ joinables' = [joinables EXCEPT ![newId] = IF j THEN NewJoinee ELSE NoJoinee]
          /\ cancel' = [cancel EXCEPT ![newId] = NewCancel]
          /\ UNCHANGED <<started, current, joinings, onReturn, held, halted>>
      BY <1>3 DEF PthreadCreate, history
    <2>2. i \in Nat /\ i \in Hths /\ newId \in Threads /\ newId + 1 \in 1 .. MaxThreads
      <3>1. i \in Nat
        BY ThreadsFinite DEF BaseInv, Types
      <3> QED BY <1>1, <1>3, <3>1, EEPthreadAssumption DEF BaseInv, Types, Hths, Threads
    <2> HIDE DEF i
    <2>3. /\ live' \subseteq Threads /\ active' \subseteq live' /\ executed' \subseteq Threads
          /\ nactive' \in Int /\ newId' \in 1 .. MaxThreads /\ coreActive' \subseteq Hths
      BY <2>1, <2>2 DEF BaseInv, Types
    <2>4. slot' \in [Hths -> Threads \cup {NoThread}]
      <3>1. ASSUME NEW h \in Hths
            PROVE  (CASE h < i -> slot[h] [] h = i -> newId [] OTHER -> slot[h - 1])
                      \in Threads \cup {NoThread}
        <4>1. CASE h < i
          BY <4>1, <2>2 DEF BaseInv, Types
        <4>2. CASE h = i
          BY <4>2, <2>2 DEF BaseInv, Types
        <4>3. CASE h > i
          <5>1. h - 1 \in Hths
            BY <4>3, <2>2, EEPthreadAssumption DEF Hths
          <5> QED BY <4>3, <5>1, <2>2, EEPthreadAssumption DEF BaseInv, Types, Hths
        <4> QED BY <4>1, <4>2, <4>3, <2>2, EEPthreadAssumption DEF Hths
      <3> QED BY <2>1, <3>1, Zenon
    <2>5. hth' \in [Threads -> Hths]
      BY <2>1, <2>2 DEF BaseInv, Types
    <2>6. joinables' \in [Threads -> [st : {"no", "run", "done"},
                                      joiner : Threads \cup {NoThread}]]
      BY <2>1, <2>2 DEF BaseInv, Types, NewJoinee, NoJoinee
    <2>7. cancel' \in [Threads -> [canceled : BOOLEAN, enabled : BOOLEAN, async : BOOLEAN]]
      <3>1. NewCancel \in [canceled : BOOLEAN, enabled : BOOLEAN, async : BOOLEAN]
        BY DEF NewCancel
      <3> QED BY <2>1, <3>1, Zenon DEF BaseInv, Types
    <2>8. Types'
      BY <1>1, <2>1, <2>3, <2>4, <2>5, <2>6, <2>7 DEF BaseInv, Types
    <2> QED BY <1>1, <2>8, NoLoop DEF BaseInv
  <1> QED BY <1>2, <1>3

\* pthread_exit.
LEMMA BaseExit ==
    ASSUME BaseInv, PthreadExit PROVE BaseInv'
  <1>1. releasing = "none" /\ UNCHANGED <<mutex, waiters, barrier, releasing>>
    BY DEF PthreadExit, Runs, queues
  <1>2. CASE ~(Waking(JoinerOf(current)) /\ current \in active)
    <2>1. /\ halted' = "assert"
          /\ UNCHANGED <<live, active, started, executed, nactive, current, newId, hth,
                         slot, coreActive, joinables, joinings, cancel, onReturn, held>>
      BY <1>2 DEF PthreadExit, Stop, sched, joins, history
    <2>2. Types'
      BY <1>1, <2>1 DEF BaseInv, Types, Reasons
    <2> QED BY <1>1, <2>2, NoLoop DEF BaseInv
  <1>3. CASE Waking(JoinerOf(current)) /\ current \in active
    <2>1. /\ KillThread(current) /\ UNCHANGED <<newId, hth, slot>>
          /\ Resume(live', coreActive', nactive', executed \ {current}, TRUE)
      BY <1>3 DEF PthreadExit
    <2>2. /\ live' \subseteq Threads /\ active' \subseteq live' /\ nactive' \in Int
          /\ coreActive' \subseteq Hths
          /\ joinables' \in [Threads -> [st : {"no", "run", "done"},
                                         joiner : Threads \cup {NoThread}]]
          /\ joinings' \in [Threads -> Threads \cup {NoThread}]
          /\ cancel' \in [Threads -> [canceled : BOOLEAN, enabled : BOOLEAN,
                                      async : BOOLEAN]]
          /\ onReturn' \in [Threads -> Marks] /\ held' \in HeldType
      <3>1. current \in Threads
        BY DEF BaseInv, Types
      <3> QED BY <1>3, <2>1, <3>1, KillTyped DEF BaseInv
    <2>3. executed \ {current} \in SUBSET Threads /\ live' \in SUBSET Threads
          /\ coreActive' \in SUBSET Hths
      BY <2>2 DEF BaseInv, Types
    <2>4. /\ executed' \subseteq Threads /\ current' \in Threads
          /\ started' \subseteq Threads /\ halted' \in Reasons
      BY <2>1, <2>3, ResumeTyped DEF BaseInv
    <2>5. Types'
      BY <1>1, <2>1, <2>2, <2>4 DEF BaseInv, Types, HeldType
    <2> QED BY <1>1, <2>5, NoLoop DEF BaseInv
  <1> QED BY <1>2, <1>3

\* pthread_join and pthread_detach.
LEMMA BaseJoin ==
    ASSUME BaseInv, NEW t \in Threads, PthreadJoin(t) \/ PthreadDetach(t)
    PROVE  BaseInv'
  <1> DEFINE JoineeType == [st : {"no", "run", "done"}, joiner : Threads \cup {NoThread}]
  <1>1. releasing = "none" /\ UNCHANGED <<mutex, waiters, barrier, releasing>>
    BY DEF PthreadJoin, PthreadDetach, Runs, queues
  <1>2. /\ joinables \in [Threads -> JoineeType] /\ NoJoinee \in JoineeType
        /\ current \in Threads
    BY DEF BaseInv, Types, NoJoinee
  <1>3. CASE Stop("unsupported")
    <2>1. /\ halted' = "unsupported"
          /\ UNCHANGED <<live, active, started, executed, nactive, current, newId, hth,
                         slot, coreActive, joinables, joinings, cancel, onReturn, held>>
      BY <1>3 DEF Stop, sched, joins, history
    <2>2. Types'
      BY <1>1, <2>1 DEF BaseInv, Types, Reasons
    <2> QED BY <1>1, <2>2, NoLoop DEF BaseInv
  <1>4. CASE /\ joinables' = [joinables EXCEPT ![t] = NoJoinee]
             /\ Returns /\ UNCHANGED <<joinings, cancel, history>>
    <2>1. joinables' \in [Threads -> JoineeType]
      BY <1>2, <1>4, Zenon
    <2>2. Types'
      BY <1>1, <1>4, <2>1 DEF BaseInv, Types, Returns, sched, history
    <2> QED BY <1>1, <2>2, NoLoop DEF BaseInv
  <1>5. CASE /\ joinables' = [joinables EXCEPT ![t].joiner = current]
             /\ joinings' = [joinings EXCEPT ![current] = t]
             /\ BlockThread({}, "none", held)
             /\ UNCHANGED <<live, newId, hth, slot, cancel>>
    <2>1. "none" \in Marks /\ held \in HeldType /\ {} \in SUBSET Threads
      BY DEF Marks, BaseInv, Types, HeldType
    <2>2. /\ active' \subseteq live /\ nactive' \in Int /\ coreActive' \subseteq Hths
          /\ executed' \subseteq Threads /\ current' \in Threads
          /\ started' \subseteq Threads /\ halted' \in Reasons
          /\ onReturn' \in [Threads -> Marks] /\ held' \in HeldType
      BY <1>5, <2>1, BlockTyped DEF BaseInv
    <2>3. joinables' \in [Threads -> JoineeType]
      BY <1>2, <1>5
    <2>4. joinings' \in [Threads -> Threads \cup {NoThread}]
      BY <1>2, <1>5 DEF BaseInv, Types
    <2>5. Types'
      BY <1>1, <1>5, <2>2, <2>3, <2>4 DEF BaseInv, Types, HeldType
    <2> QED BY <1>1, <2>5, NoLoop DEF BaseInv
  <1> QED BY <1>3, <1>4, <1>5, Zenon DEF PthreadJoin, PthreadDetach

CancelType == [canceled : BOOLEAN, enabled : BOOLEAN, async : BOOLEAN]

\* pthread_cancel for a cancellation state s.
LEMMA BaseCancel ==
    ASSUME BaseInv, NEW t \in Threads, NEW s \in CancelType, PthreadCancel(t, s)
    PROVE  BaseInv'
  <1>1. releasing = "none" /\ UNCHANGED <<mutex, waiters, barrier, releasing>>
    BY DEF PthreadCancel, Runs, queues
  <1>2. CASE Stop("unsupported") \/ Stop("assert")
    <2>1. /\ halted' \in Reasons
          /\ UNCHANGED <<live, active, started, executed, nactive, current, newId, hth,
                         slot, coreActive, joinables, joinings, cancel, onReturn, held>>
      BY <1>2 DEF Stop, sched, joins, history, Reasons
    <2>2. Types'
      BY <1>1, <2>1 DEF BaseInv, Types
    <2> QED BY <1>1, <2>2, NoLoop DEF BaseInv
  <1>3. CASE /\ \E r \in CancelType : cancel' = [cancel EXCEPT ![t] = r]
             /\ Returns /\ UNCHANGED <<joins, history>>
    <2>1. cancel' \in [Threads -> CancelType]
      BY <1>3, Zenon DEF BaseInv, Types, CancelType
    <2>2. Types'
      BY <1>1, <1>3, <2>1 DEF BaseInv, Types, Returns, sched, joins, history, CancelType
    <2> QED BY <1>1, <2>2, NoLoop DEF BaseInv
  <1>4. CASE /\ Waking(JoinerOf(t)) /\ KillThread(t) /\ executed' = executed \ {t}
             /\ UNCHANGED <<started, current, newId, hth, slot, halted>>
    <2>1. /\ live' \subseteq Threads /\ active' \subseteq live' /\ nactive' \in Int
          /\ coreActive' \subseteq Hths
          /\ joinables' \in [Threads -> [st : {"no", "run", "done"},
                                         joiner : Threads \cup {NoThread}]]
          /\ joinings' \in [Threads -> Threads \cup {NoThread}]
          /\ cancel' \in [Threads -> [canceled : BOOLEAN, enabled : BOOLEAN,
                                      async : BOOLEAN]]
          /\ onReturn' \in [Threads -> Marks] /\ held' \in HeldType
      BY <1>4, KillTyped DEF BaseInv
    <2>2. Types'
      BY <1>1, <1>4, <2>1 DEF BaseInv, Types, HeldType
    <2> QED BY <1>1, <2>2, NoLoop DEF BaseInv
  <1>5. [s EXCEPT !.canceled = TRUE] \in CancelType
    BY DEF CancelType
  <1> QED BY <1>2, <1>3, <1>4, <1>5, Zenon DEF PthreadCancel

\* pthread_cancel, pthread_kill, pthread_setcancelstate and -type.
LEMMA BaseCancels ==
    ASSUME BaseInv,
           \/ \E t \in Threads : PthreadCancelCall(t) \/ PthreadKill(t)
           \/ \E e, a \in BOOLEAN : PthreadSetcancel(e, a)
    PROVE  BaseInv'
  <1>1. cancel \in [Threads -> CancelType]
    BY DEF BaseInv, Types, CancelType
  <1>2. ASSUME NEW t \in Threads, PthreadCancelCall(t) PROVE BaseInv'
    <2>1. cancel[t] \in CancelType
      BY <1>1
    <2> QED BY <1>2, <2>1, BaseCancel DEF PthreadCancelCall
  <1>3. ASSUME NEW t \in Threads, PthreadKill(t) PROVE BaseInv'
    <2>1. [cancel[t] EXCEPT !.enabled = TRUE, !.async = TRUE] \in CancelType
      BY <1>1 DEF CancelType
    <2> QED BY <1>3, <2>1, BaseCancel DEF PthreadKill
  <1>4. ASSUME NEW e \in BOOLEAN, NEW a \in BOOLEAN, PthreadSetcancel(e, a) PROVE BaseInv'
    <2>1. /\ releasing' = "none" /\ UNCHANGED <<mutex, waiters, barrier>>
          /\ UNCHANGED <<live, active, started, executed, nactive, current, newId, hth,
                         slot, coreActive, joinables, joinings, onReturn, held, halted>>
          /\ cancel' = [cancel EXCEPT ![current].enabled = e, ![current].async = a]
      BY <1>4 DEF PthreadSetcancel, Runs, Returns, sched, queues, joins, history
    <2>2. cancel' \in [Threads -> CancelType]
      <3> DEFINE f == [cancel EXCEPT ![current].enabled = e]
      <3>1. current \in Threads
        BY DEF BaseInv, Types
      <3>2. f \in [Threads -> CancelType]
        BY <1>1, <3>1 DEF CancelType
      <3>3. cancel' = [f EXCEPT ![current].async = a]
        BY <2>1
      <3> HIDE DEF f
      <3> QED BY <3>1, <3>2, <3>3 DEF CancelType
    <2>3. Types'
      BY <2>1, <2>2 DEF BaseInv, Types, CancelType
    <2> QED BY <2>1, <2>3, NoLoop DEF BaseInv
  <1> QED BY <1>2, <1>3, <1>4

\* The state PthreadSim::initiate leaves.
LEMMA BaseInit == Init => BaseInv
  <1> SUFFICES ASSUME Init PROVE BaseInv
    OBVIOUS
  <1>1. FreeMutex \in MutexType
    BY DEF FreeMutex, MutexType
  <1>2. mutex \in [Mutexes -> MutexType]
    BY <1>1, Zenon DEF Init
  <1>3. cancel \in [Threads -> CancelType]
    <2>1. NewCancel \in CancelType
      BY DEF NewCancel, CancelType
    <2> QED BY <2>1, Zenon DEF Init
  <1>4. barrier \in [Barriers -> BarrierType]
    <2>1. [num |-> 0, waiters |-> <<>>] \in BarrierType
      BY EEPthreadAssumption DEF BarrierType
    <2> QED BY <2>1, Zenon DEF Init
  <1>5. joinables \in [Threads -> [st : {"no", "run", "done"},
                                   joiner : Threads \cup {NoThread}]]
    BY DEF Init, NewJoinee, NoJoinee
  <1>6. newId \in 1 .. MaxThreads
    BY EEPthreadAssumption DEF Init
  <1>7. slot \in [Hths -> Threads \cup {NoThread}] /\ hth \in [Threads -> Hths]
    BY ThreadsFinite DEF Init
  <1>8. waiters \in [Conds -> Seq([th : Threads, mx : Mutexes])]
    BY DEF Init
  <1>9. /\ onReturn \in [Threads -> Marks] /\ held \in [Threads -> [Mutexes -> Nat]]
        /\ joinings \in [Threads -> Threads \cup {NoThread}] /\ halted \in Reasons
    BY DEF Init, Marks, Reasons
  <1>10. Types
    BY <1>2, <1>3, <1>4, <1>5, <1>6, <1>7, <1>8, <1>9, ThreadsFinite
       DEF Init, Types, MutexType, CancelType, BarrierType
  <1>11. LoopInv
    BY EEPthreadAssumption DEF Init, LoopInv
  <1> QED BY <1>10, <1>11 DEF BaseInv

\* Every step keeps the types.
LEMMA BaseNext == BaseInv /\ [Next]_vars => BaseInv'
  <1> SUFFICES ASSUME BaseInv, [Next]_vars PROVE BaseInv'
    OBVIOUS
  <1>1. CASE ProcessIns \/ Replay \/ DoContextSwitch
    BY <1>1, BaseScheduling
  <1>2. CASE Mutual
    BY <1>2, BaseLock, BaseUnlock, BaseCondWait DEF Mutual
  <1>3. CASE Release
    BY <1>3, BaseCond, BaseBarrierWait, BaseBarrierNext, BaseBarrierInit DEF Release
  <1>4. CASE Lifecycle
    <2>1. CASE Fini
      <3>1. /\ halted' = "end" /\ releasing' = "none"
            /\ UNCHANGED <<live, active, started, executed, nactive, current, newId, hth,
                           slot, coreActive, mutex, waiters, barrier, joinables, joinings,
                           cancel, onReturn, held>>
        BY <2>1 DEF Fini, Runs, sched, queues, joins, history
      <3>2. Types'
        BY <3>1 DEF BaseInv, Types, Reasons
      <3> QED BY <3>1, <3>2, NoLoop DEF BaseInv
    <2> QED BY <1>4, <2>1, BaseCreate, BaseExit, BaseJoin, BaseCancels
            DEF Lifecycle, PthreadTestcancel
  <1>5. CASE Halted \/ UNCHANGED vars
    BY <1>5 DEF Halted, vars, sched, queues, joins, history, BaseInv, Types, LoopInv
  <1> QED BY <1>1, <1>2, <1>3, <1>4, <1>5 DEF Next

\* The types hold in every reachable state of every program.
LEMMA BaseCorrect == Spec => []BaseInv
  BY BaseInit, BaseNext, PTL DEF Spec

-----------------------------------------------------------------------------
(* The queues of mutexes and barriers.                                     *)

\* A step locks a mutex for somebody, unlocks it for somebody or leaves it.
LEMMA MutexFrame ==
    ASSUME BaseInv, [Next]_vars, NEW m \in Mutexes
    PROVE  \/ mutex'[m] = mutex[m]
           \/ \E t \in Threads : \/ mutex'[m] = LockMutex(t, m, mutex[m])
                                 \/ mutex'[m] = UnlockMutex(t, m, mutex[m])
  <1>1. current \in Threads
    BY DEF BaseInv, Types
  <1>2. ASSUME NEW n \in Mutexes,
               \/ PthreadMutexLock(n) \/ PthreadMutexTrylock(n) \/ PthreadMutexUnlock(n)
               \/ \E c \in Conds : PthreadCondWait(c, n)
        PROVE  \E t \in Threads : \/ mutex' = [mutex EXCEPT ![n] = LockMutex(t, n, @)]
                                  \/ mutex' = [mutex EXCEPT ![n] = UnlockMutex(t, n, @)]
    BY <1>1, <1>2, Zenon DEF PthreadMutexLock, PthreadMutexTrylock, PthreadMutexUnlock,
                      PthreadCondWait
  <1>3. ASSUME NEW c \in Conds, PthreadCondSignal(c) \/ BroadcastNext(c)
        PROVE  \E n \in Mutexes, t \in Threads :
                  mutex' = [mutex EXCEPT ![n] = LockMutex(t, n, @)]
    <2>1. waiters[c] # <<>>
      BY <1>3 DEF PthreadCondSignal, BroadcastNext, BaseInv, LoopInv
    <2>2. Head(waiters[c]).th \in Threads /\ Head(waiters[c]).mx \in Mutexes
      BY <2>1, WaiterTyped
    <2> QED BY <1>3, <2>2, Zenon DEF PthreadCondSignal, BroadcastNext, ReleaseWaiter
  <1>4. \/ UNCHANGED mutex
        \/ \E n \in Mutexes, t \in Threads :
              \/ mutex' = [mutex EXCEPT ![n] = LockMutex(t, n, @)]
              \/ mutex' = [mutex EXCEPT ![n] = UnlockMutex(t, n, @)]
    <2>1. CASE ProcessIns \/ Replay \/ DoContextSwitch \/ Halted \/ UNCHANGED vars
      BY <2>1 DEF ProcessIns, Replay, DoContextSwitch, Halted, vars, queues
    <2>2. CASE Mutual
      BY <2>2, <1>2, Zenon DEF Mutual
    <2>3. CASE Release
      BY <2>3, <1>3, Zenon DEF Release, PthreadCondBroadcast, PthreadBarrierWait, BarrierNext,
            PthreadBarrierDestroy, PthreadBarrierInit, queues
    <2>4. CASE Lifecycle
      BY <2>4 DEF Lifecycle, PthreadCreate, PthreadExit, PthreadTestcancel, PthreadJoin,
            PthreadDetach, PthreadCancelCall, PthreadKill, PthreadCancel, PthreadSetcancel,
            Fini, queues
    <2> QED BY <2>1, <2>2, <2>3, <2>4 DEF Next
  <1>5. mutex \in [Mutexes -> MutexType]
    BY DEF BaseInv, Types, MutexType
  <1> QED BY <1>4, <1>5, Zenon

\* No step leaves a thread spinning on a free mutex.
LEMMA NoSpinNext == BaseInv /\ NoSpinOnFree /\ [Next]_vars => NoSpinOnFree'
  <1> SUFFICES ASSUME BaseInv, NoSpinOnFree, [Next]_vars, NEW m \in Mutexes,
                      mutex'[m].count = 0
               PROVE  mutex'[m].spin = <<>>
    BY DEF NoSpinOnFree
  <1>1. mutex[m] \in MutexType /\ (mutex[m].count = 0 => mutex[m].spin = <<>>)
    BY DEF BaseInv, Types, MutexType, NoSpinOnFree
  <1>2. CASE mutex'[m] = mutex[m]
    BY <1>1, <1>2
  <1>3. ASSUME NEW t \in Threads, mutex'[m] = LockMutex(t, m, mutex[m])
        PROVE  mutex'[m].spin = <<>>
    <2>1. mutex[m].count \in Int
      BY <1>1 DEF MutexType
    <2> QED BY <1>1, <1>3, <2>1, LockCases
  <1>4. ASSUME NEW t \in Threads, mutex'[m] = UnlockMutex(t, m, mutex[m])
        PROVE  mutex'[m].spin = <<>>
    <2>1. mutex[m].count \in Int
      BY <1>1 DEF MutexType
    <2> QED BY <1>1, <1>4, <2>1, UnlockCases
  <1> QED BY <1>2, <1>3, <1>4, MutexFrame

\* For every program: no thread spins on a free mutex, because every unlock
\* that frees a mutex hands it to the thread that spins longest.
THEOREM NoSpinning == Spec => []NoSpinOnFree
  <1>1. Init => NoSpinOnFree
    BY DEF Init, NoSpinOnFree, FreeMutex
  <1> QED BY <1>1, NoSpinNext, BaseCorrect, PTL DEF Spec

\* For every program: nobody overtakes the threads that spin on a mutex.
THEOREM ServedInOrder == Spec => FirstComeFirstServed
  <1>1. ASSUME BaseInv, NoSpinOnFree, [Next]_vars
        PROVE  [\A m \in Mutexes :
                  mutex[m].spin # <<>> /\ mutex'[m].owner # mutex[m].owner =>
                     /\ mutex'[m].owner = Head(mutex[m].spin)
                     /\ mutex'[m].spin  = Tail(mutex[m].spin)]_vars
    <2> SUFFICES ASSUME NEW m \in Mutexes, mutex[m].spin # <<>>,
                        mutex'[m].owner # mutex[m].owner
                 PROVE  /\ mutex'[m].owner = Head(mutex[m].spin)
                        /\ mutex'[m].spin  = Tail(mutex[m].spin)
      OBVIOUS
    <2>1. mutex[m] \in MutexType /\ mutex[m].count # 0 /\ mutex[m].count \in Int
      BY <1>1 DEF BaseInv, Types, MutexType, NoSpinOnFree
    <2>2. ASSUME NEW t \in Threads, mutex'[m] = LockMutex(t, m, mutex[m]) PROVE FALSE
      BY <2>1, <2>2, LockCases
    <2>3. ASSUME NEW t \in Threads, mutex'[m] = UnlockMutex(t, m, mutex[m])
          PROVE  /\ mutex'[m].owner = Head(mutex[m].spin)
                 /\ mutex'[m].spin  = Tail(mutex[m].spin)
      BY <2>1, <2>3, UnlockCases
    <2> QED BY <1>1, <2>2, <2>3, MutexFrame
  <1> QED BY <1>1, BaseCorrect, NoSpinning, PTL DEF Spec, FirstComeFirstServed

\* A step leaves the barriers and starts no loop of theirs, or it is one of
\* the barrier manager.
LEMMA BarrierFrame ==
    ASSUME BaseInv, [Next]_vars
    PROVE  \/ UNCHANGED barrier /\ releasing' = releasing
           \/ UNCHANGED barrier /\ releasing \notin Barriers /\ releasing' \notin Barriers
           \/ \E b \in Barriers : \/ PthreadBarrierWait(b) \/ BarrierNext(b)
                                  \/ PthreadBarrierDestroy(b)
                                  \/ \E n \in 1 .. MaxThreads : PthreadBarrierInit(b, n)
  <1>1. CASE ProcessIns \/ Replay \/ DoContextSwitch \/ Halted \/ UNCHANGED vars
    BY <1>1 DEF ProcessIns, Replay, DoContextSwitch, Halted, vars, queues
  <1>2. CASE Mutual
    BY <1>2 DEF Mutual, PthreadMutexLock, PthreadMutexTrylock, PthreadMutexUnlock,
                PthreadCondWait
  <1>3. CASE Release
    <2>1. ASSUME NEW c \in Conds,
                 PthreadCondSignal(c) \/ PthreadCondBroadcast(c) \/ BroadcastNext(c)
          PROVE  UNCHANGED barrier /\ releasing \notin Barriers /\ releasing' \notin Barriers
      BY <2>1, EEPthreadAssumption DEF PthreadCondSignal, PthreadCondBroadcast, BroadcastNext,
               ReleaseWaiter, Runs, queues
    <2> QED BY <1>3, <2>1 DEF Release
  <1>4. CASE Lifecycle
    BY <1>4 DEF Lifecycle, PthreadCreate, PthreadExit, PthreadTestcancel, PthreadJoin,
          PthreadDetach, PthreadCancelCall, PthreadKill, PthreadCancel, PthreadSetcancel,
          Fini, queues
  <1> QED BY <1>1, <1>2, <1>3, <1>4 DEF Next

\* No step fills a barrier beyond its limit.
LEMMA BarrierNextInv == BaseInv /\ BarrierBelowLimit /\ [Next]_vars => BarrierBelowLimit'
  <1> SUFFICES ASSUME BaseInv, BarrierBelowLimit, [Next]_vars, NEW x \in Barriers,
                      barrier'[x].waiters # <<>>
               PROVE  Len(barrier'[x].waiters)
                         < barrier'[x].num + (IF releasing' = x THEN 1 ELSE 0)
    BY DEF BarrierBelowLimit
  <1> DEFINE w == barrier[x].waiters
  <1>1. /\ w \in Seq(Threads) /\ Len(w) \in Nat /\ barrier[x].num \in Nat
        /\ w # <<>> => Len(w) < barrier[x].num + (IF releasing = x THEN 1 ELSE 0)
    BY EEPthreadAssumption DEF BaseInv, Types, BarrierBelowLimit
  <1>2. CASE UNCHANGED barrier /\ releasing' = releasing
    BY <1>1, <1>2
  <1>3. CASE UNCHANGED barrier /\ releasing \notin Barriers /\ releasing' \notin Barriers
    BY <1>1, <1>3
  <1>4. ASSUME NEW b \in Barriers, PthreadBarrierWait(b)
        PROVE  Len(barrier'[x].waiters)
                  < barrier'[x].num + (IF releasing' = x THEN 1 ELSE 0)
    <2> DEFINE q == Append(barrier[b].waiters, current)
    <2>1. /\ barrier' = [barrier EXCEPT ![b].waiters = q] /\ releasing = "none"
          /\ barrier[b].num > 0
          /\ IF Len(barrier[b].waiters) + 1 = barrier[b].num
             THEN releasing' = b ELSE releasing' = releasing
      BY <1>4 DEF PthreadBarrierWait, Runs
    <2>2. barrier[b].waiters \in Seq(Threads) /\ current \in Threads
      BY DEF BaseInv, Types
    <2>3. q \in Seq(Threads) /\ Len(q) = Len(barrier[b].waiters) + 1
      BY <2>2, AppendProperties
    <2> HIDE DEF q
    <2>4. /\ barrier'[b].waiters = q /\ barrier'[b].num = barrier[b].num
          /\ \A y \in Barriers \ {b} : barrier'[y] = barrier[y]
      BY <2>1, <2>3, BarrierQueue
    <2>5. releasing # x /\ (x # b => releasing' # x)
      BY <2>1, EEPthreadAssumption
    <2>6. CASE x # b
      BY <1>1, <2>4, <2>5, <2>6
    <2>7. CASE x = b
      <3>1. Len(w) < barrier[x].num
        <4>1. CASE w # <<>>
          BY <1>1, <2>5, <4>1
        <4>2. CASE w = <<>>
          <5>1. Len(w) = 0
            BY <4>2, EmptySeq
          <5> QED BY <5>1, <1>1, <2>1, <2>7
        <4> QED BY <4>1, <4>2
      <3> HIDE DEF w
      <3> QED BY <1>1, <2>1, <2>3, <2>4, <2>7, <3>1 DEF w
    <2> QED BY <2>6, <2>7
  <1>5. ASSUME NEW b \in Barriers, BarrierNext(b)
        PROVE  Len(barrier'[x].waiters)
                  < barrier'[x].num + (IF releasing' = x THEN 1 ELSE 0)
    <2> DEFINE q == Tail(barrier[b].waiters)
    <2>1. /\ barrier' = [barrier EXCEPT ![b].waiters = q] /\ releasing = b
          /\ releasing' \in {b, "none"} /\ barrier[b].waiters # <<>>
      BY <1>5 DEF BarrierNext, BaseInv, LoopInv
    <2>2. barrier[b].waiters \in Seq(Threads)
      BY DEF BaseInv, Types
    <2>3. q \in Seq(Threads) /\ Len(q) = Len(barrier[b].waiters) - 1
      BY <2>1, <2>2, HeadTailProperties
    <2> HIDE DEF q
    <2>4. /\ barrier'[b].waiters = q /\ barrier'[b].num = barrier[b].num
          /\ \A y \in Barriers \ {b} : barrier'[y] = barrier[y]
      BY <2>1, <2>3, BarrierQueue
    <2>5. x # b => releasing # x /\ releasing' # x
      BY <2>1, EEPthreadAssumption
    <2>6. CASE x # b
      BY <1>1, <2>4, <2>5, <2>6
    <2>7. CASE x = b
      BY <1>1, <2>1, <2>3, <2>4, <2>7
    <2> QED BY <2>6, <2>7
  <1>6. ASSUME NEW b \in Barriers,
               \/ PthreadBarrierDestroy(b)
               \/ \E n \in 1 .. MaxThreads : PthreadBarrierInit(b, n)
        PROVE  Len(barrier'[x].waiters)
                  < barrier'[x].num + (IF releasing' = x THEN 1 ELSE 0)
    <2>1. barrier[b].waiters = <<>> /\ releasing = "none" /\ releasing' = "none"
      BY <1>6 DEF PthreadBarrierDestroy, PthreadBarrierInit, Runs
    <2>2. barrier'[b].waiters = <<>> /\ \A y \in Barriers \ {b} : barrier'[y] = barrier[y]
      BY <1>6, <2>1 DEF PthreadBarrierDestroy, PthreadBarrierInit, BaseInv, Types
    <2>3. x # b /\ releasing # x /\ releasing' # x
      BY <2>1, <2>2, EEPthreadAssumption
    <2> QED BY <1>1, <2>2, <2>3
  <1> QED BY <1>2, <1>3, <1>4, <1>5, <1>6, BarrierFrame

\* For every program: the waiters of a barrier never outnumber its limit.
THEOREM BarrierFills == Spec => []BarrierBelowLimit
  <1>1. Init => BarrierBelowLimit
    BY DEF Init, BarrierBelowLimit
  <1> QED BY <1>1, BarrierNextInv, BaseCorrect, PTL DEF Spec

-----------------------------------------------------------------------------
(* The scheduler's counts and its tables of hardware threads.              *)

\* Kills of the scheduler: pthread_exit, and the asynchronous cancellation of
\* another thread.
Kills(t) == Waking(JoinerOf(t)) /\ KillThread(t) /\ UNCHANGED <<newId, hth, slot>>

\* UnblockThread of the scheduler, at the end of a handler or in its loop.
Wakes(ws) ==
    Wake(ws) /\ halted = "no" /\ UNCHANGED <<live, newId, hth, slot, current, started>>

\* What a step does to the scheduler.
LEMMA SchedFrame ==
    ASSUME BaseInv, [Next]_vars
    PROVE  \/ /\ UNCHANGED <<live, active, nactive, newId, hth, slot, coreActive,
                             current, started>>
              /\ halted' \in {halted, "unsupported", "end", "assert"}
           \/ ProcessIns
           \/ \E ws \in SUBSET Threads : Wakes(ws)
           \/ \E ws \in SUBSET Threads : \E m, h :
                 BlockThread(ws, m, h) /\ Runs /\ UNCHANGED <<live, newId, hth, slot>>
           \/ \E j \in BOOLEAN : PthreadCreate(j)
           \/ /\ Runs /\ current \in active /\ Kills(current)
              /\ Resume(live', coreActive', nactive', executed \ {current}, TRUE)
           \/ \E t \in Threads :
                 /\ t \in live /\ t # current /\ (CancelBlocked \/ t \in active)
                 /\ Kills(t) /\ halted = "no" /\ UNCHANGED <<started, current, halted>>
  <1>1. CASE Replay \/ Halted \/ UNCHANGED vars
    BY <1>1 DEF Replay, Halted, vars, sched
  <1>2. CASE DoContextSwitch
    <2>1. BlockThread({}, "yield", held) /\ Runs /\ UNCHANGED <<live, newId, hth, slot>>
      BY <1>2 DEF DoContextSwitch
    <2> QED BY <2>1
  <1>3. ASSUME NEW m \in Mutexes, PthreadMutexLock(m)
        PROVE  \/ /\ UNCHANGED <<live, active, nactive, newId, hth, slot, coreActive,
                                 current, started, halted>>
               \/ BlockThread({}, m, held) /\ Runs /\ UNCHANGED <<live, newId, hth, slot>>
    BY <1>3 DEF PthreadMutexLock
  <1>4. ASSUME NEW m \in Mutexes, PthreadMutexTrylock(m)
        PROVE  UNCHANGED <<live, active, nactive, newId, hth, slot, coreActive,
                           current, started, halted>>
    BY <1>4 DEF PthreadMutexTrylock, Returns, sched
  <1>5. ASSUME NEW m \in Mutexes
        PROVE  Unblocked(current, m, mutex[m]) \in SUBSET Threads
    <2>1. mutex[m] \in MutexType
      BY DEF BaseInv, Types, MutexType
    <2> QED BY <2>1, UnblockedCases
  <1>6. ASSUME NEW m \in Mutexes, PthreadMutexUnlock(m)
        PROVE  Wakes(Unblocked(current, m, mutex[m]))
    BY <1>6 DEF PthreadMutexUnlock, Runs, Wakes
  <1>7. ASSUME NEW m \in Mutexes, NEW c \in Conds, PthreadCondWait(c, m)
        PROVE  /\ BlockThread(Unblocked(current, m, mutex[m]), m, Lose(m))
               /\ Runs /\ UNCHANGED <<live, newId, hth, slot>>
    BY <1>7 DEF PthreadCondWait
  <1>8. CASE Mutual
    BY <1>3, <1>4, <1>5, <1>6, <1>7, <1>8, Zenon DEF Mutual
  <1>9. ASSUME NEW c \in Conds, PthreadCondSignal(c) \/ BroadcastNext(c)
        PROVE  \E ws \in SUBSET Threads : Wakes(ws)
    <2> DEFINE w == Head(waiters[c])
               ws == IF Blocks(w.th, w.mx, mutex[w.mx]) THEN {} ELSE {w.th}
    <2>1. waiters[c] # <<>>
      BY <1>9 DEF PthreadCondSignal, BroadcastNext, BaseInv, LoopInv
    <2>2. ws \in SUBSET Threads
      BY <2>1, WaiterTyped
    <2>3. Wakes(ws)
      BY <1>9 DEF PthreadCondSignal, BroadcastNext, ReleaseWaiter, Runs, Wakes
    <2> HIDE DEF ws
    <2> QED BY <2>2, <2>3
  <1>10. ASSUME NEW b \in Barriers, BarrierNext(b)
         PROVE  \E ws \in SUBSET Threads : Wakes(ws)
    <2> DEFINE ws == {Head(barrier[b].waiters)} \ {current}
    <2>1. barrier[b].waiters # <<>> /\ barrier[b].waiters \in Seq(Threads)
      BY <1>10 DEF BarrierNext, BaseInv, LoopInv, Types
    <2>2. ws \in SUBSET Threads
      BY <2>1, HeadTailProperties
    <2>3. Wakes(ws)
      BY <1>10 DEF BarrierNext, Wakes
    <2> HIDE DEF ws
    <2> QED BY <2>2, <2>3
  <1>11. ASSUME NEW b \in Barriers, PthreadBarrierWait(b)
         PROVE  \/ UNCHANGED <<live, active, nactive, newId, hth, slot, coreActive,
                               current, started, halted>>
                \/ BlockThread({}, "none", held) /\ Runs /\ UNCHANGED <<live, newId, hth, slot>>
    BY <1>11 DEF PthreadBarrierWait, Returns, sched
  <1>12. ASSUME NEW b \in Barriers,
                \/ PthreadBarrierDestroy(b)
                \/ \E n \in 1 .. MaxThreads : PthreadBarrierInit(b, n)
                \/ \E c \in Conds : PthreadCondBroadcast(c)
         PROVE  UNCHANGED <<live, active, nactive, newId, hth, slot, coreActive,
                            current, started, halted>>
    BY <1>12 DEF PthreadBarrierDestroy, PthreadBarrierInit, PthreadCondBroadcast, Returns, sched
  <1>13. ASSUME NEW c \in Conds, PthreadCondBroadcast(c)
         PROVE  UNCHANGED <<live, active, nactive, newId, hth, slot, coreActive,
                            current, started, halted>>
    BY <1>13 DEF PthreadCondBroadcast, Returns, sched
  <1>14. CASE Release
    BY <1>9, <1>10, <1>11, <1>12, <1>13, <1>14, Zenon DEF Release
  <1>15. CASE PthreadExit \/ PthreadTestcancel
    <2>1. PthreadExit
      BY <1>15 DEF PthreadTestcancel
    <2> QED BY <2>1 DEF PthreadExit, Stop, sched, Kills
  <1>16. ASSUME NEW t \in Threads, PthreadJoin(t) \/ PthreadDetach(t)
         PROVE  \/ /\ UNCHANGED <<live, active, nactive, newId, hth, slot, coreActive,
                                  current, started>>
                   /\ halted' \in {halted, "unsupported"}
                \/ BlockThread({}, "none", held) /\ Runs /\ UNCHANGED <<live, newId, hth, slot>>
    BY <1>16 DEF PthreadJoin, PthreadDetach, Stop, Returns, sched
  <1>17. ASSUME NEW t \in Threads, NEW s, PthreadCancel(t, s)
         PROVE  \/ /\ UNCHANGED <<live, active, nactive, newId, hth, slot, coreActive,
                                  current, started>>
                   /\ halted' \in {halted, "unsupported", "assert"}
                \/ /\ t \in live /\ t # current /\ (CancelBlocked \/ t \in active)
                   /\ Kills(t) /\ halted = "no" /\ UNCHANGED <<started, current, halted>>
    BY <1>17 DEF PthreadCancel, Runs, Stop, Returns, sched, Kills
  <1>18. CASE Lifecycle
    <2>1. CASE Fini \/ \E e, a \in BOOLEAN : PthreadSetcancel(e, a)
      BY <2>1 DEF Fini, PthreadSetcancel, Returns, sched
    <2>2. ASSUME NEW t \in Threads, PthreadCancelCall(t) \/ PthreadKill(t)
          PROVE  \E s : PthreadCancel(t, s)
      BY <2>2 DEF PthreadCancelCall, PthreadKill
    <2> QED BY <1>15, <1>16, <1>17, <1>18, <2>1, <2>2, Zenon DEF Lifecycle
  <1> QED BY <1>1, <1>2, <1>8, <1>14, <1>18 DEF Next

\* Adding waking threads to the active ones adds up.
LEMMA CardinalityAdds ==
    ASSUME NEW A \in SUBSET Threads, NEW ws \in SUBSET Threads, A \cap ws = {}
    PROVE  Cardinality(A \cup ws) = Cardinality(A) + Cardinality(ws)
  <1>1. IsFiniteSet(A) /\ IsFiniteSet(ws) /\ Cardinality(A) \in Nat /\ Cardinality(ws) \in Nat
    BY ThreadsFinite
  <1>2. Cardinality(A \cap ws) = 0
    BY FS_EmptySet
  <1>3. Cardinality(A \cup ws) = Cardinality(A) + Cardinality(ws) - Cardinality(A \cap ws)
    BY <1>1, FS_Union
  <1> QED BY <1>1, <1>2, <1>3

\* One thread less.
LEMMA CardinalityLess ==
    ASSUME NEW A \in SUBSET Threads, NEW t \in A
    PROVE  Cardinality(A \ {t}) = Cardinality(A) - 1
  BY ThreadsFinite, FS_RemoveElement

\* Every step that changes the active threads changes nactive with them.
LEMMA CountNext ==
    ASSUME ~CancelBlocked, BaseInv, CountInv, [Next]_vars PROVE CountInv'
  <1>1. /\ active \in SUBSET Threads /\ live \in SUBSET Threads /\ active \subseteq live
        /\ live \subseteq 0 .. newId - 1 /\ nactive = Cardinality(active)
        /\ newId \in Nat /\ current \in Threads /\ nactive \in Nat
    <2>1. /\ active \in SUBSET Threads /\ live \in SUBSET Threads /\ active \subseteq live
          /\ live \subseteq 0 .. newId - 1 /\ nactive = Cardinality(active)
          /\ newId \in Nat /\ current \in Threads
      BY DEF BaseInv, Types, CountInv
    <2> QED BY <2>1, ThreadsFinite
  <1>2. CASE UNCHANGED <<live, active, nactive, newId>>
    BY <1>2 DEF CountInv
  <1>3. CASE ProcessIns
    BY <1>3 DEF ProcessIns, CountInv
  <1>4. ASSUME NEW ws \in SUBSET Threads, Wakes(ws)
        PROVE  CountInv'
    <2>1. CASE Waking(ws)
      <3>1. active' = active \cup ws /\ nactive' = nactive + Cardinality(ws)
            /\ active \cap ws = {}
        BY <1>4, <2>1 DEF Wakes, Wake, Waking
      <3>2. nactive' = Cardinality(active')
        BY <1>1, <3>1, CardinalityAdds
      <3> QED BY <1>4, <3>2 DEF Wakes, CountInv
    <2>2. CASE ~Waking(ws)
      BY <1>4, <2>2 DEF Wakes, Wake, CountInv
    <2> QED BY <2>1, <2>2
  <1>5. ASSUME NEW ws \in SUBSET Threads, NEW m, NEW h,
               BlockThread(ws, m, h), UNCHANGED <<live, newId, hth, slot>>
        PROVE  CountInv'
    <2>1. CASE Waking(ws) /\ current \in active
      <3>1. /\ active' = (active \cup ws) \ {current}
            /\ nactive' = nactive + Cardinality(ws) - 1 /\ active \cap ws = {}
            /\ active \cup ws \in SUBSET Threads /\ current \in active \cup ws
        BY <1>1, <1>5, <2>1 DEF BlockThread, Waking
      <3>2. Cardinality(active') = Cardinality(active \cup ws) - 1
        BY <3>1, CardinalityLess
      <3>3. Cardinality(active \cup ws) = nactive + Cardinality(ws)
        BY <1>1, <3>1, CardinalityAdds
      <3>4. Cardinality(ws) \in Nat
        BY ThreadsFinite
      <3>5. nactive' = Cardinality(active')
        BY <1>1, <3>1, <3>2, <3>3, <3>4
      <3> QED BY <1>1, <1>5, <3>5 DEF CountInv
    <2>2. CASE ~(Waking(ws) /\ current \in active)
      BY <1>5, <2>2 DEF BlockThread, CountInv
    <2> QED BY <2>1, <2>2
  <1>6. ASSUME NEW j \in BOOLEAN, PthreadCreate(j) PROVE CountInv'
    <2>1. CASE UNCHANGED <<live, active, nactive, newId>>
      BY <2>1 DEF CountInv
    <2>2. CASE /\ live' = live \cup {newId} /\ active' = active \cup {newId}
               /\ nactive' = nactive + 1 /\ newId' = newId + 1
      <3>1. newId \notin active /\ IsFiniteSet(active)
        <4>1. newId \notin 0 .. newId - 1
          BY <1>1
        <4> QED BY <1>1, <4>1, ThreadsFinite
      <3>2. Cardinality(active') = nactive + 1
        BY <1>1, <2>2, <3>1, FS_AddElement
      <3>3. live' \subseteq 0 .. newId' - 1
        BY <1>1, <2>2
      <3> QED BY <2>2, <3>2, <3>3 DEF CountInv
    <2> QED BY <1>6, <2>1, <2>2 DEF PthreadCreate, Stop, sched
  <1>7. ASSUME NEW t \in active, Kills(t) PROVE CountInv'
    <2> DEFINE ws == JoinerOf(t)
    <2>1. /\ live' = live \ {t} /\ active' = (active \cup ws) \ {t}
          /\ nactive' = nactive + Cardinality(ws) - 1 /\ newId' = newId
          /\ ws \subseteq live \ active
      BY <1>7 DEF Kills, KillThread, Waking
    <2> HIDE DEF ws
    <2>2. ws \in SUBSET Threads /\ active \cup ws \in SUBSET Threads /\ active \cap ws = {}
      BY <1>1, <2>1
    <2>3. Cardinality(active') = Cardinality(active \cup ws) - 1
      BY <2>1, <2>2, CardinalityLess
    <2>4. Cardinality(active \cup ws) = nactive + Cardinality(ws)
      BY <1>1, <2>2, CardinalityAdds
    <2>5. Cardinality(ws) \in Nat
      BY <2>2, ThreadsFinite
    <2>6. nactive' = Cardinality(active')
      BY <1>1, <2>1, <2>3, <2>4, <2>5
    <2> QED BY <1>1, <2>1, <2>6 DEF CountInv
  <1> QED BY <1>2, <1>3, <1>4, <1>5, <1>6, <1>7, SchedFrame, Zenon

\* One active thread at first.
LEMMA CountInit == Init => CountInv
  <1>1. Cardinality({0}) = 1
    BY FS_Singleton
  <1> QED BY <1>1 DEF Init, CountInv

\* For every program that cancels no blocked thread: the scheduler's count is
\* the number of active threads.
THEOREM ActiveCounted == ASSUME ~CancelBlocked PROVE Spec => []NactiveCounts
  <1>1. BaseInv /\ CountInv /\ [Next]_vars => CountInv'
    BY CountNext
  <1>2. CountInv => NactiveCounts
    BY DEF CountInv, NactiveCounts
  <1> QED BY <1>1, <1>2, CountInit, BaseCorrect, PTL DEF Spec

=============================================================================
