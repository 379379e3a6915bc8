-------------------------- MODULE PTSHandshakeCores --------------------------
(***************************************************************************)
(* Proofs about what the channel of PTSHandshake carries for the first     *)
(* process: the active bits of its cores, the thread it runs, and the      *)
(* entries of its instruction queues.                                      *)
(*                                                                         *)
(* The invariant follows a handler's plan, the RPCs it has still to make.  *)
(* PlanInv: how a plan is built.  MessageInv: the request under way is the *)
(* head of the plan, or the piled instructions, and its answer tells what  *)
(* the backend has done.  ActiveInv: once the plan is carried out, the     *)
(* cores' bits are the threads'.  LoadInv: the entries a queue holds and   *)
(* those on their way fit into it, with a slack that depends on what the   *)
(* thread may still send before it is held up by a resume_simulation.      *)
(***************************************************************************)
EXTENDS PTSHandshakeProofs

\* The first process: the RPCs its handler has still to make, its piled
\* instructions, whether it runs, and whether a request of it is under way.
Plan  == todo[First]
Piled == batch[First].n
Alive == fpc[First] \in {"run", "post", "spin", "got"}
Sent  == fpc[First] \in {"post", "spin", "got"}

\* How the plans of the handlers of thread c are built: an instruction that may
\* be piled is sent alone and by the running thread; no thread is sent two
\* instructions; after a resume only the end of the process follows.
PlanShape(s, c) ==
    /\ \A i \in DOMAIN s : s[i].pile => s[i].type = "add" /\ Len(s) = 1 /\ s[i].tid = c
    /\ \A i, j \in DOMAIN s :
          s[i].type = "add" /\ s[j].type = "add" /\ s[i].tid = s[j].tid => i = j
    /\ \A i \in DOMAIN s : s[i].type = "resume" =>
          /\ i = Len(s) \/ (i = 1 /\ s[Len(s)].type = "destructor")
          /\ \A j \in DOMAIN s : i < j => s[j].type # "add"

\* Piled instructions are those of the running thread, and a handler does not
\* add to them those of another one.
PlanInv ==
    Alive => /\ PlanShape(Plan, cur[First])
             /\ fpc[First] = "run" /\ Piled > 0 =>
                  /\ batch[First].tid = cur[First]
                  /\ Plan # <<>> /\ Head(Plan).type = "add" => Head(Plan).tid = cur[First]

\* m is the request the first process has posted: the batch, or the next RPC.
IsRequest(m) ==
    IF Piled > 0 THEN m.type = "add" /\ m.tid = batch[First].tid /\ m.val = Piled
    ELSE /\ m.type = Head(Plan).type
         /\ m.type = "set_active" => /\ m.val = Head(Plan).tid
                                     /\ m.bool_val = Head(Plan).b
         /\ m.type = "resume" => m.killed = Head(Plan).b

\* m is its answer.
IsAnswer(m) ==
    IF Piled > 0 THEN m.val <= Available(q[First][batch[First].tid])
    ELSE /\ Head(Plan).type = "set_active" =>
               coreActive[First][Head(Plan).tid] = Head(Plan).b
         /\ Head(Plan).type = "resume" =>
               /\ m.val \in Threads /\ coreActive[First][m.val]
               /\ q[First][m.val] <= QueueMax \div 2

\* The request under way and its answer, at every stage of the channel.
MessageInv ==
    /\ Sent /\ Head(Plan).type = "add" => Piled > 0 /\ batch[First].tid = Head(Plan).tid
    /\ fpc[First] \in {"spin", "got"} /\ Piled = 0 => Head(Plan).type # "destructor"
    /\ fpc[First] = "post" => IsRequest(shm[First])
    /\ fpc[First] = "spin" /\ currPid = First =>
          /\ bpc \in {"poll", "raise", "copyin"} /\ flag1[First] => IsRequest(shm[First])
          /\ bpc = "serve" => IsRequest(buf[First])
          /\ bpc = "copyout" => IsAnswer(buf[First])
          /\ bpc = "lower" \/ ~flag1[First] => IsAnswer(shm[First])
    /\ fpc[First] = "spin" /\ currPid # First => Piled = 0 /\ Head(Plan).type = "resume"
    /\ fpc[First] = "got" => IsAnswer(shm[First])

\* What set_active will have done when the plan is carried out; a plan that ends
\* the running thread or blocks it names another one, or ends the process.
ActiveInv ==
    Alive =>
      /\ \A i \in DOMAIN Plan : Plan[i].type = "set_active" =>
            (Plan[i].b <=> tstat[First][Plan[i].tid] = "active")
      /\ \A t \in Threads : \/ coreActive[First][t] <=> tstat[First][t] = "active"
                            \/ \E i \in DOMAIN Plan : Plan[i].type = "set_active" /\ Plan[i].tid = t
      /\ \/ tstat[First][cur[First]] = "active"
         \/ \E i \in DOMAIN Plan : Plan[i].type \in {"resume", "destructor"}
      /\ \/ \E t \in Threads : tstat[First][t] = "active"
         \/ Plan # <<>> /\ Plan[Len(Plan)].type = "destructor"
         \/ Plan # <<>> /\ Plan[Len(Plan)].type = "resume" /\ Plan[Len(Plan)].b
      /\ Plan # <<>> /\ Plan[Len(Plan)].type = "destructor" /\ Head(Plan).type = "resume" =>
            coreActive[First][cur[First]]

\* The backend has put the batch into the queue.
Counted ==
    \/ fpc[First] = "got"
    \/ fpc[First] = "spin" /\ (bpc \in {"copyout", "lower"} \/ ~flag1[First])
\* The plan has an instruction for t that is not yet piled.
Owes(t) == \E i \in DOMAIN Plan : Plan[i].type = "add" /\ Plan[i].tid = t /\ ~(Sent /\ i = 1)
\* The entries of t in its queue and on their way to it.
Load(t) == q[First][t] + (IF Piled > 0 /\ batch[First].tid = t /\ ~Counted THEN Piled ELSE 0)
                       + (IF Owes(t) THEN 1 ELSE 0)
\* The thread's next instruction, or the resume it brought about, is under way.
Checking == Plan # <<>> /\ (Head(Plan).pile \/ Head(Plan).type = "resume")
\* The entries that must be free: a thread that has issued an instruction may make
\* one call (3 to 2), be woken (2 to 1), and then it only runs if its queue is at
\* most half full.  A thread that has ended is sent nothing any more.
Slack(t) ==
    CASE tstat[First][t] = "none"    -> IF t > created[First] THEN 3 ELSE 1
      [] tstat[First][t] = "blocked" -> 2
      [] tstat[First][t] = "active" /\ (t # cur[First] \/ Checking) -> 1
      [] OTHER -> IF fresh[First][t] THEN 3 ELSE 2
\* They fit, and the number of free slots the frontend remembers is not too large.
LoadInv ==
    Alive => \A t \in Threads :
               /\ ~(Piled > 0 /\ Counted /\ batch[First].tid = t) =>
                     slots[First][t] <= Available(q[First][t])
               /\ Load(t) <= QueueMax - Slack(t)

\* The threads that exist are numbered by the pthread_create calls.
NumberInv == \A t \in Threads : tstat[First][t] # "none" => t <= created[First]

\* The first process ends by the destructor's request or a signal only.
EndInv ==
    /\ FirstNeverExits
    /\ fpc[First] = "killed" => bpc = "end"
    /\ fpc[First] = "gone" =>
         \/ /\ ~flag0[First] /\ currPid = First /\ bpc \in {"poll", "raise"}
            /\ shm[First].type = "destructor"
         \/ /\ flag0[First] /\ currPid = First /\ bpc = "copyin"
            /\ shm[First].type = "destructor"
         \/ /\ flag0[First] /\ currPid = First /\ bpc = "serve"
            /\ buf[First].type = "destructor"
         \/ /\ flag0[First]
            /\ currPid = First => bpc \in {"poll", "copyout", "lower", "last", "lastlower", "end"}

\* The inductive invariant, on top of TypeInv, ChannelInv and NumberInv.
CoreInv == PlanInv /\ MessageInv /\ ActiveInv /\ LoadInv /\ EndInv

-----------------------------------------------------------------------------
(* Facts about the operators of the model.                                 *)

\* The types of what belongs to the first process.
LEMMA FirstTypes ==
    ASSUME TypeInv
    PROVE  /\ First \in Procs /\ fpc[First] \in FrontPc /\ Plan \in Seq(Rpc)
           /\ batch[First] \in [tid : Threads, n : Nat] /\ batch[First].tid \in Threads
           /\ Piled \in Nat
           /\ slots[First] \in [Threads -> Nat] /\ cur[First] \in Threads
           /\ tstat[First] \in [Threads -> {"none", "active", "blocked"}]
           /\ fresh[First] \in [Threads -> BOOLEAN]
           /\ shm[First] \in Message /\ buf[First] \in Message
           /\ bpc \in BackPc /\ currPid \in Procs
           /\ q[First] \in [Threads -> 0 .. QueueMax]
           /\ coreActive[First] \in [Threads -> BOOLEAN]
           /\ flag0[First] \in BOOLEAN /\ flag1[First] \in BOOLEAN
           /\ Sent => Plan # <<>>
  <1>1. First \in Procs
    BY FirstTyped
  <1>2. batch[First] \in [tid : Threads, n : Nat]
    BY <1>1 DEF TypeInv, TypeOK
  <1>3. Sent => Plan # <<>>
    BY <1>1 DEF TypeInv, Pending, Sent, Plan
  <1>4. /\ fpc[First] \in FrontPc /\ Plan \in Seq(Rpc)
        /\ slots[First] \in [Threads -> Nat] /\ cur[First] \in Threads
        /\ tstat[First] \in [Threads -> {"none", "active", "blocked"}]
        /\ fresh[First] \in [Threads -> BOOLEAN]
    BY <1>1 DEF TypeInv, TypeOK, Plan
  <1>5. /\ shm[First] \in Message /\ buf[First] \in Message
        /\ bpc \in BackPc /\ currPid \in Procs
        /\ q[First] \in [Threads -> 0 .. QueueMax]
        /\ coreActive[First] \in [Threads -> BOOLEAN]
        /\ flag0[First] \in BOOLEAN /\ flag1[First] \in BOOLEAN
    BY <1>1 DEF TypeInv, TypeOK
  <1> QED BY <1>1, <1>2, <1>3, <1>4, <1>5 DEF Piled

\* The answer of add_instruction is a number of entries that are free besides
\* the four in reserve, and a shorter queue has more of them.
LEMMA AvailableFits ==
    ASSUME NEW len \in Nat
    PROVE  /\ Available(len) \in Nat
           /\ \A n \in Nat : n > 0 /\ n <= Available(len) => len + n <= QueueMax - 4
           /\ \A k \in Nat : k <= len => Available(len) <= Available(k)
  BY HandshakeAssumption DEF Available

\* A queue that is at most half full has three free entries.
LEMMA HalfFits == ASSUME NEW k \in Nat, k <= QueueMax \div 2 PROVE k <= QueueMax - 3
  BY HandshakeAssumption

\* A step that changes nothing of the first process keeps the invariant.
LEMMA CoreFrame ==
    ASSUME CoreInv, UNCHANGED <<bpc, currPid>>,
           fpc'[First] = fpc[First], todo'[First] = todo[First], batch'[First] = batch[First],
           slots'[First] = slots[First], cur'[First] = cur[First], tstat'[First] = tstat[First],
           fresh'[First] = fresh[First], created'[First] = created[First],
           flag0'[First] = flag0[First], flag1'[First] = flag1[First], shm'[First] = shm[First], buf'[First] = buf[First],
           q'[First] = q[First], coreActive'[First] = coreActive[First]
    PROVE  CoreInv'
  <1>1. /\ Plan' = Plan /\ Piled' = Piled /\ Alive' = Alive /\ Sent' = Sent
    BY DEF Plan, Piled, Alive, Sent
  <1>2. PlanInv'
    BY <1>1 DEF CoreInv, PlanInv, PlanShape
  <1>3. MessageInv'
    BY <1>1, Zenon DEF CoreInv, MessageInv, IsRequest, IsAnswer
  <1>4. ActiveInv'
    BY <1>1 DEF CoreInv, ActiveInv
  <1>5. LoadInv'
    <2>1. Counted' = Counted /\ Checking' = Checking
      BY <1>1 DEF Counted, Checking
    <2>2. ASSUME NEW t \in Threads PROVE Load(t)' = Load(t) /\ Slack(t)' = Slack(t)
      <3>1. Owes(t)' = Owes(t)
        BY <1>1 DEF Owes
      <3> QED BY <1>1, <2>1, <3>1 DEF Load, Slack
    <2> HIDE DEF Load, Slack
    <2> QED BY <1>1, <2>1, <2>2 DEF CoreInv, LoadInv
  <1>6. EndInv'
    BY Zenon DEF CoreInv, EndInv, FirstNeverExits
  <1> QED BY <1>2, <1>3, <1>4, <1>5, <1>6 DEF CoreInv

\* The application of another process.
LEMMA CoreOtherApp ==
    ASSUME TypeInv, CoreInv, NEW p \in Procs, p # First, App(p) PROVE CoreInv'
  <1>1. UNCHANGED <<fpc, batch, slots, cur, seq, flag0, flag1, shm, backVars>>
    BY Zenon DEF App, ProcessIns, MutexLock, MutexUnlock, CondWait, CondSignal,
                 BarrierWait, Join, Create, Exit, Cancel, Fini, Handler
  <1>2. /\ todo'[First] = todo[First] /\ tstat'[First] = tstat[First]
        /\ fresh'[First] = fresh[First] /\ created'[First] = created[First]
    BY FirstTyped DEF TypeInv, TypeOK, App, ProcessIns, MutexLock, MutexUnlock, CondWait, CondSignal,
                 BarrierWait, Join, Create, Exit, Cancel, Fini, Handler
  <1> QED BY <1>1, <1>2, CoreFrame, Zenon DEF backVars

\* The channel of another process.
LEMMA CoreOtherFront ==
    ASSUME TypeInv, CoreInv, NEW p \in Procs, p # First, Front(p) PROVE CoreInv'
  <1>1. UNCHANGED <<tstat, fresh, created, backVars>>
    BY Zenon DEF Front, Pile, Flush, Request, LowerFlag0, SeeFlag1, RaiseFlag1
  <1>2. /\ fpc'[First] = fpc[First] /\ todo'[First] = todo[First]
        /\ batch'[First] = batch[First] /\ slots'[First] = slots[First]
        /\ cur'[First] = cur[First]
        /\ flag0'[First] = flag0[First] /\ flag1'[First] = flag1[First]
        /\ shm'[First] = shm[First]
    <2>1. CASE Pile(p)
      BY <2>1, FirstTyped DEF TypeInv, TypeOK, Pile, Post
    <2>2. CASE Flush(p) \/ Request(p)
      BY <2>2, FirstTyped DEF TypeInv, TypeOK, Flush, Request, Post
    <2>3. CASE LowerFlag0(p) \/ SeeFlag1(p)
      BY <2>3, FirstTyped DEF TypeInv, TypeOK, LowerFlag0, SeeFlag1
    <2>4. CASE RaiseFlag1(p)
      <3>1. First \in Procs /\ fpc \in [Procs -> FrontPc] /\ flag1 \in [Procs -> BOOLEAN]
        BY FirstTyped DEF TypeInv, TypeOK
      <3>2. fpc'[First] = fpc[First] /\ flag1'[First] = flag1[First] /\ UNCHANGED <<flag0, shm>>
        BY <2>4, <3>1 DEF RaiseFlag1, UseReply
      <3>3. todo'[First] = todo[First] /\ cur'[First] = cur[First]
        <4>1. todo \in [Procs -> Seq(Rpc)] /\ cur \in [Procs -> Threads]
          BY DEF TypeInv, TypeOK
        <4>2. \E X : todo' = [todo EXCEPT ![p] = X]
          BY <2>4, Zenon DEF RaiseFlag1, UseReply
        <4>3. cur' = cur \/ \E c : cur' = [cur EXCEPT ![p] = c]
          BY <2>4, Zenon DEF RaiseFlag1, UseReply
        <4> QED BY <3>1, <4>1, <4>2, <4>3
      <3>4. batch'[First] = batch[First] /\ slots'[First] = slots[First]
        <4>1. /\ batch \in [Procs -> [tid : Threads, n : Nat]]
              /\ slots \in [Procs -> [Threads -> Nat]]
          BY DEF TypeInv, TypeOK
        <4>2. batch' = batch \/ batch' = [batch EXCEPT ![p].n = 0]
          BY <2>4, Zenon DEF RaiseFlag1, UseReply
        <4>3. slots' = slots \/ \E t, v : slots' = [slots EXCEPT ![p][t] = v]
          BY <2>4, Zenon DEF RaiseFlag1, UseReply
        <4>4. batch'[First] = batch[First]
          BY <3>1, <4>1, <4>2
        <4>5. slots'[First] = slots[First]
          BY <3>1, <4>1, <4>3
        <4> QED BY <4>4, <4>5
      <3> QED BY <3>2, <3>3, <3>4
    <2> QED BY <2>1, <2>2, <2>3, <2>4 DEF Front
  <1> QED BY <1>1, <1>2, CoreFrame, Zenon DEF backVars

-----------------------------------------------------------------------------
(* The backend.                                                            *)

\* The backend moves only while the first process waits for it or has ended.
LEMMA BackWhen ==
    ASSUME TypeInv, ChannelInv, CoreInv, Back
    PROVE  /\ fpc[First] \in {"spin", "gone"}
           /\ Limit \/ UNCHANGED frontVars
  <1>1. bpc \in {"poll", "raise", "copyin", "serve", "copyout", "last", "lower", "lastlower"}
        /\ (bpc = "poll" => ~flag0[currPid])
    BY DEF Back, SeeFlag0, RaiseFlag0, CopyIn, Limit, Serve, ServeAdd, ServeSetActive,
           ServeGet, ServeResume, ServeDestructor, CopyOut, LowerFlag1
  <1>2. Limit \/ UNCHANGED frontVars
    BY Zenon DEF Back, SeeFlag0, RaiseFlag0, CopyIn, Limit, Serve, ServeAdd, ServeSetActive,
           ServeGet, ServeResume, ServeDestructor, CopyOut, LowerFlag1
  <1> QED BY <1>1, <1>2, FirstTypes DEF FrontPc, ChannelInv, CoreInv, EndInv, FirstNeverExits

\* Once the first process has ended only its end is of interest.
LEMMA CoreEnded ==
    ASSUME fpc'[First] \in {"gone", "killed"}, EndInv' PROVE CoreInv'
  BY DEF CoreInv, PlanInv, MessageInv, ActiveInv, LoadInv, Alive, Sent

\* The backend after the destructor's request.
LEMMA CoreGone ==
    ASSUME TypeInv, ChannelInv, CoreInv, Back, fpc[First] = "gone", UNCHANGED frontVars
    PROVE  CoreInv'
  <1>0. /\ currPid \in Procs /\ First \in Procs
        /\ flag0 \in [Procs -> BOOLEAN] /\ flag1 \in [Procs -> BOOLEAN]
        /\ shm \in [Procs -> Message] /\ buf \in [Procs -> Message]
    BY FirstTyped DEF TypeInv, TypeOK
  <1>1. fpc' = fpc /\ EndInv
    BY DEF frontVars, CoreInv
  <1>2. EndInv'
    <2> USE DEF EndInv, FirstNeverExits
    <2>1. CASE SeeFlag0
      BY <1>0, <1>1, <2>1 DEF SeeFlag0
    <2>2. CASE RaiseFlag0
      BY <1>0, <1>1, <2>2 DEF RaiseFlag0
    <2>3. CASE CopyIn
      BY <1>0, <1>1, <2>3 DEF CopyIn
    <2>4. CASE Limit
      BY <1>0, <1>1, <2>4 DEF Limit
    <2>5. ASSUME bpc = "serve", bpc' = "copyout", UNCHANGED <<flag0, shm>>
          PROVE  EndInv'
      BY <1>0, <1>1, <2>5
    <2>6. CASE Serve
      <3>1. CASE bpc' = "copyout"
        BY <2>5, <2>6, <3>1 DEF Serve, ServeAdd, ServeSetActive, ServeGet, ServeResume, ServeDestructor
      <3>2. CASE bpc' = "last" /\ ServeDestructor
        BY <1>1, <3>2 DEF ServeDestructor
      <3>3. CASE bpc' = "wild" /\ ServeResume
        BY <1>0, <1>1, <3>3 DEF ServeResume
      <3> QED BY <2>6, <3>1, <3>2, <3>3 DEF Serve, ServeAdd, ServeSetActive, ServeGet, ServeResume, ServeDestructor
    <2>7. CASE CopyOut
      BY <1>0, <1>1, <2>7 DEF CopyOut
    <2>8. CASE LowerFlag1
      BY <1>0, <1>1, <2>8 DEF LowerFlag1
    <2> QED BY <2>1, <2>2, <2>3, <2>4, <2>6, <2>7, <2>8 DEF Back
  <1> QED BY <1>1, <1>2, CoreEnded

\* Queues that only drain keep their load, unless a batch is counted.
LEMMA SpinLoad ==
    ASSUME TypeInv, TypeInv', LoadInv, fpc[First] = "spin", UNCHANGED frontVars,
           \A t \in Threads : q'[First][t] <= q[First][t],
           Piled = 0 \/ Counted' = Counted
    PROVE  LoadInv'
  <1>1. /\ Plan' = Plan /\ Piled' = Piled /\ Sent' = Sent /\ Checking' = Checking
        /\ batch' = batch /\ slots' = slots
    BY DEF frontVars, Plan, Piled, Sent, Checking
  <1>2. ASSUME NEW t \in Threads
        PROVE  /\ ~(Piled' > 0 /\ Counted' /\ batch'[First].tid = t) =>
                     slots'[First][t] <= Available(q'[First][t])
               /\ Load(t)' <= QueueMax - Slack(t)'
    <2>1. Owes(t)' = Owes(t) /\ Slack(t)' = Slack(t) /\ Slack(t) \in Nat
      BY <1>1 DEF Owes, Slack, frontVars, Checking
    <2>2. q[First][t] \in Nat /\ q'[First][t] \in Nat /\ Piled \in Nat /\ slots[First][t] \in Nat
      <3>1. q'[First] \in [Threads -> 0 .. QueueMax]
        BY FirstTyped DEF TypeInv, TypeOK
      <3> QED BY <3>1, FirstTypes, HandshakeAssumption
    <2>3. /\ ~(Piled > 0 /\ Counted /\ batch[First].tid = t) =>
                slots[First][t] <= Available(q[First][t])
          /\ Load(t) <= QueueMax - Slack(t)
      BY DEF LoadInv, Alive
    <2>4. /\ Available(q[First][t]) \in Nat /\ Available(q'[First][t]) \in Nat
          /\ Available(q[First][t]) <= Available(q'[First][t])
      BY <2>2, AvailableFits
    <2>5. Load(t)' <= Load(t) /\ Load(t) \in Int /\ Load(t)' \in Int
      BY <1>1, <2>1, <2>2 DEF Load
    <2>6. (Piled > 0 /\ Counted) <=> (Piled > 0 /\ Counted')
      BY <2>2
    <2> HIDE DEF Load, Slack, Available
    <2>7. QueueMax \in Nat
      BY HandshakeAssumption
    <2>8. Load(t)' <= QueueMax - Slack(t)'
      BY <2>1, <2>3, <2>5, <2>7
    <2>9. slots[First][t] <= Available(q[First][t]) => slots'[First][t] <= Available(q'[First][t])
      BY <1>1, <2>2, <2>4
    <2> QED BY <1>1, <2>3, <2>6, <2>8, <2>9
  <1> QED BY <1>2 DEF LoadInv

\* A step of the backend that leaves the cores of the first process alone while
\* that one waits keeps all but the message and the load.
LEMMA CoreSpin ==
    ASSUME CoreInv, fpc[First] = "spin", UNCHANGED frontVars,
           coreActive'[First] = coreActive[First], MessageInv', LoadInv'
    PROVE  CoreInv'
  <1>1. /\ Plan' = Plan /\ Piled' = Piled /\ Alive' = Alive
        /\ fpc' = fpc /\ batch' = batch /\ cur' = cur /\ tstat' = tstat
    BY DEF frontVars, Plan, Piled, Alive
  <1>2. PlanInv'
    BY <1>1 DEF CoreInv, PlanInv, PlanShape
  <1>3. ActiveInv'
    BY <1>1 DEF CoreInv, ActiveInv
  <1>4. EndInv'
    BY <1>1 DEF EndInv, FirstNeverExits
  <1> QED BY <1>2, <1>3, <1>4 DEF CoreInv

\* The first process waits for a thread while the backend serves another one.
LEMMA CoreLeft ==
    ASSUME TypeInv, TypeInv', CoreInv, fpc[First] = "spin", UNCHANGED frontVars,
           Piled = 0, Head(Plan).type = "resume", currPid' # First,
           coreActive'[First] = coreActive[First],
           \A t \in Threads : q'[First][t] <= q[First][t]
    PROVE  CoreInv'
  <1>1. fpc' = fpc /\ Plan' = Plan /\ Piled' = Piled
    BY DEF frontVars, Plan, Piled
  <1>2. MessageInv'
    BY <1>1 DEF MessageInv
  <1>3. LoadInv'
    BY SpinLoad DEF CoreInv
  <1> QED BY <1>2, <1>3, CoreSpin

\* The backend goes on with another process.
LEMMA CoreParked ==
    ASSUME TypeInv, TypeInv', CoreInv, fpc[First] = "spin", UNCHANGED frontVars,
           currPid # First, currPid' # First,
           coreActive'[First] = coreActive[First],
           \A t \in Threads : q'[First][t] <= q[First][t]
    PROVE  CoreInv'
  <1>1. Piled = 0 /\ Head(Plan).type = "resume"
    BY DEF CoreInv, MessageInv
  <1> QED BY <1>1, CoreLeft

\* A resume, asked for by whomever, that picks a thread of the first process.
LEMMA CorePicked ==
    ASSUME TypeInv, TypeInv', CoreInv, fpc[First] = "spin", UNCHANGED frontVars,
           bpc' = "copyout", flag1[First], flag1' = flag1, coreActive' = coreActive,
           Piled = 0, Head(Plan).type = "resume",
           NEW t \in Threads, ResumeTo(First, t)
    PROVE  CoreInv'
  <1>1. fpc' = fpc /\ Plan' = Plan /\ Piled' = Piled
    BY DEF frontVars, Plan, Piled
  <1>2. buf'[First].val = t /\ q'[First][t] <= QueueMax \div 2 /\ coreActive[First][t]
    BY FirstTypes DEF ResumeTo, Message, TypeInv, TypeOK
  <1>3. IsAnswer(buf[First])'
    BY <1>1, <1>2 DEF IsAnswer
  <1>4. MessageInv'
    BY <1>1, <1>3 DEF MessageInv
  <1>5. \A u \in Threads : q'[First][u] <= q[First][u]
    BY FirstTyped DEF ResumeTo, Drained
  <1>6. LoadInv'
    BY <1>5, SpinLoad DEF CoreInv
  <1> QED BY <1>4, <1>6, CoreSpin

\* Where the backend is while the first process waits.
LEMMA SpinStages ==
    ASSUME ChannelInv, fpc[First] = "spin"
    PROVE  /\ currPid = First =>
                bpc \in {"poll", "raise", "copyin", "serve", "copyout", "lower", "wild"}
           /\ bpc # "poll" \/ currPid # First => flag1[First]
           /\ flag0[First] \/ (currPid = First /\ bpc \in {"poll", "raise"})
           /\ currPid = First /\ bpc = "raise" => ~flag0[First]
  BY DEF ChannelInv, Posted, Received, Serving, Served, Copied, Parked, Replied, Stuck

\* The backend's steps while the first process waits, from the poll to the switch.
LEMMA CoreReceive ==
    ASSUME TypeInv, TypeInv', ChannelInv, CoreInv, fpc[First] = "spin", UNCHANGED frontVars,
           SeeFlag0 \/ RaiseFlag0 \/ CopyIn \/ CopyOut \/ LowerFlag1
    PROVE  CoreInv'
  <1>0. /\ currPid \in Procs /\ First \in Procs
        /\ flag0 \in [Procs -> BOOLEAN] /\ flag1 \in [Procs -> BOOLEAN]
        /\ shm \in [Procs -> Message] /\ buf \in [Procs -> Message]
    BY FirstTyped DEF TypeInv, TypeOK
  <1>1. UNCHANGED <<currPid, q, coreActive>>
    BY DEF SeeFlag0, RaiseFlag0, CopyIn, CopyOut, LowerFlag1
  <1>2. \A t \in Threads : q'[First][t] <= q[First][t]
    <2>1. \A t \in Threads : q[First][t] \in Int
      BY FirstTypes
    <2> QED BY <1>1, <2>1
  <1>3. CASE currPid # First
    <2>1. flag1'[First] = flag1[First]
      BY <1>0, <1>3 DEF SeeFlag0, RaiseFlag0, CopyIn, CopyOut, LowerFlag1
    <2> QED BY <1>1, <1>2, <1>3, <2>1, CoreParked
  <1>4. CASE currPid = First
    <2>1. /\ fpc' = fpc /\ Plan' = Plan /\ Piled' = Piled /\ Sent' = Sent /\ batch' = batch
      BY DEF frontVars, Plan, Piled, Sent
    <2>2. ASSUME NEW m PROVE (IsAnswer(m) => IsAnswer(m)') /\ (IsRequest(m) => IsRequest(m)')
      BY <1>1, <2>1 DEF IsAnswer, IsRequest
    <2>3. /\ MessageInv' /\ Counted' = Counted
      <3>1. CASE SeeFlag0
        BY <1>0, <1>4, <2>1, <2>2, <3>1, SpinStages DEF SeeFlag0, CoreInv, MessageInv, Counted
      <3>2. CASE RaiseFlag0
        BY <1>0, <1>4, <2>1, <2>2, <3>2, SpinStages DEF RaiseFlag0, CoreInv, MessageInv, Counted
      <3>3. CASE CopyIn
        BY <1>0, <1>4, <2>1, <2>2, <3>3, SpinStages DEF CopyIn, CoreInv, MessageInv, Counted
      <3>4. CASE CopyOut
        <4>1. shm'[First].val = buf[First].val
          BY <1>0, <1>4, <3>4 DEF CopyOut, Message
        <4>2. IsAnswer(buf[First]) => IsAnswer(shm[First])'
          BY <1>1, <2>1, <4>1 DEF IsAnswer
        <4>3. bpc = "copyout" /\ bpc' = "lower" /\ flag1' = flag1 /\ currPid' = First
          BY <1>1, <1>4, <3>4, SpinStages DEF CopyOut
        <4> QED BY <1>4, <2>1, <4>2, <4>3 DEF CoreInv, MessageInv, Counted
      <3>5. CASE LowerFlag1
        BY <1>0, <1>4, <2>1, <2>2, <3>5, SpinStages DEF LowerFlag1, CoreInv, MessageInv, Counted
      <3> QED BY <3>1, <3>2, <3>3, <3>4, <3>5
    <2>4. LoadInv'
      BY <1>2, <2>3, SpinLoad DEF CoreInv
    <2> QED BY <1>1, <2>3, <2>4, CoreSpin
  <1> QED BY <1>3, <1>4

\* A batch enters the queue: what was on its way is now in it, and the answer is
\* what is left.
LEMMA CoreServeAdd ==
    ASSUME TypeInv, TypeInv', ChannelInv, CoreInv, fpc[First] = "spin", UNCHANGED frontVars,
           ServeAdd
    PROVE  /\ CoreInv'
           /\ currPid = First => q[First][buf[First].tid] + buf[First].val <= QueueMax
  <1>0. /\ currPid \in Procs /\ First \in Procs /\ bpc = "serve" /\ bpc' = "copyout"
        /\ UNCHANGED <<currPid, coreActive, flag1, shm, fpc, todo, batch, slots, cur, tstat, fresh, created>>
        /\ q \in [Procs -> [Threads -> 0 .. QueueMax]] /\ buf \in [Procs -> Message]
        /\ buf[currPid].tid \in Threads /\ buf[currPid].val \in Nat
    <2>1. currPid \in Procs /\ buf \in [Procs -> Message]
      BY DEF TypeInv, TypeOK
    <2>2. buf[currPid].tid \in Threads /\ buf[currPid].val \in Nat
      BY <2>1 DEF Message
    <2> QED BY <2>1, <2>2, FirstTyped DEF ServeAdd, frontVars, TypeInv, TypeOK
  <1>1. CASE currPid # First
    <2>1. q'[First] = q[First]
      BY <1>0, <1>1 DEF ServeAdd
    <2>2. \A t \in Threads : q'[First][t] <= q[First][t]
      BY <2>1, FirstTypes
    <2> QED BY <1>0, <1>1, <2>2, CoreParked
  <1>2. CASE currPid = First
    <2> DEFINE b == batch[First].tid
    <2>1. /\ Plan' = Plan /\ Piled' = Piled /\ Sent' = Sent /\ Checking' = Checking
      BY <1>0 DEF Plan, Piled, Sent, Checking
    <2>2. IsRequest(buf[First]) /\ buf[First].type = "add"
      BY <1>0, <1>2 DEF CoreInv, MessageInv, ServeAdd
    <2>3. Piled > 0 /\ buf[First].tid = b /\ buf[First].val = Piled
      <3>1. Piled = 0 => Head(Plan).type # "add"
        BY DEF CoreInv, MessageInv, Sent
      <3> QED BY <2>2, <3>1, FirstTypes DEF IsRequest
    <2>4. ~Counted /\ Counted'
      BY <1>0, <1>2, SpinStages DEF Counted
    <2>5. b \in Threads /\ Piled \in Nat /\ QueueMax \in Nat
      BY FirstTypes, HandshakeAssumption
    <2>6. ASSUME NEW t \in Threads
          PROVE  /\ q[First][t] \in Nat /\ Slack(t) \in 1 .. 3 /\ Slack(t)' = Slack(t)
                 /\ Owes(t)' = Owes(t) /\ Load(t) <= QueueMax - Slack(t)
                 /\ slots[First][t] <= Available(q[First][t])
      <3>1. /\ Load(t) <= QueueMax - Slack(t)
            /\ slots[First][t] <= Available(q[First][t])
        BY <2>4 DEF CoreInv, LoadInv, Alive
      <3>2. Slack(t) \in 1 .. 3 /\ Slack(t)' = Slack(t)
        BY <1>0, <2>1 DEF Slack
      <3>3. Owes(t)' = Owes(t) /\ q[First][t] \in Nat
        BY <2>1, FirstTypes DEF Owes
      <3> HIDE DEF Load, Slack, Owes, Available
      <3> QED BY <3>1, <3>2, <3>3
    <2>7. q[First][b] + Piled <= QueueMax - 1
      <3>1. Load(b) = q[First][b] + Piled + (IF Owes(b) THEN 1 ELSE 0)
        BY <2>3, <2>4 DEF Load
      <3>2. Load(b) <= QueueMax - Slack(b) /\ Slack(b) \in 1 .. 3 /\ q[First][b] \in Nat
        BY <2>5, <2>6
      <3> HIDE DEF Load, Slack, Owes, b
      <3> QED BY <2>5, <3>1, <3>2
    <2>8. /\ q'[First] = [q[First] EXCEPT ![b] = q[First][b] + Piled]
          /\ buf'[First].val = Available(q[First][b] + Piled)
      <3>1. ~(q[First][b] + Piled > QueueMax)
        <4>1. q[First][b] \in Nat
          BY <2>5, <2>6
        <4> HIDE DEF b
        <4> QED BY <2>5, <2>7, <4>1
      <3>2. q' = [q EXCEPT ![First][b] = q[First][b] + Piled]
        BY <1>2, <2>3, <3>1 DEF ServeAdd
      <3>3. buf' = [buf EXCEPT ![First].val = Available(q[First][b] + Piled), ![First].rep = TRUE]
        BY <1>2, <2>3, <3>1 DEF ServeAdd
      <3> HIDE DEF b
      <3>4. buf[First] \in Message /\ buf'[First].val = Available(q[First][b] + Piled)
        BY <1>0, <3>3 DEF Message
      <3> QED BY <1>0, <3>2, <3>4
    <2>9. MessageInv'
      <3>1. q'[First][b] = q[First][b] + Piled /\ Available(q[First][b] + Piled) \in Nat
        <4>1. q[First] \in [Threads -> 0 .. QueueMax] /\ q[First][b] + Piled \in Nat
          BY <2>5, FirstTypes
        <4> HIDE DEF b
        <4> QED BY <2>5, <2>8, <4>1, AvailableFits
      <3>2. IsAnswer(buf[First])'
        BY <1>0, <2>1, <2>3, <2>8, <3>1 DEF IsAnswer
      <3>3. Sent /\ Head(Plan).type = "add" => batch[First].tid = Head(Plan).tid
        BY DEF CoreInv, MessageInv
      <3> QED BY <1>0, <1>2, <2>1, <2>3, <3>2, <3>3, SpinStages DEF MessageInv
    <2>10. LoadInv'
      <3>1. ASSUME NEW t \in Threads
            PROVE  /\ ~(Piled' > 0 /\ Counted' /\ batch'[First].tid = t) =>
                        slots'[First][t] <= Available(q'[First][t])
                   /\ Load(t)' <= QueueMax - Slack(t)'
        <4>1. q[First] \in [Threads -> 0 .. QueueMax]
          BY FirstTypes
        <4>2. CASE t = b
          <5>1. q'[First][b] = q[First][b] + Piled
            BY <2>5, <2>8, <4>1
          <5>2. Load(t)' = Load(t)
            <6>1. q[First][b] \in Nat
              BY <2>5, <2>6
            <6> QED BY <1>0, <2>1, <2>3, <2>4, <2>5, <2>6, <4>2, <5>1, <6>1 DEF Load
          <5> HIDE DEF Load, Slack, Available
          <5> QED BY <1>0, <2>1, <2>3, <2>4, <2>6, <4>2, <5>2
        <4>3. CASE t # b
          <5>1. q'[First][t] = q[First][t]
            BY <2>5, <2>8, <4>1, <4>3
          <5>2. Load(t)' = Load(t)
            BY <1>0, <2>1, <2>6, <4>3, <5>1 DEF Load
          <5> HIDE DEF Load, Slack, Available
          <5> QED BY <1>0, <2>6, <5>1, <5>2
        <4> QED BY <4>2, <4>3
      <3> QED BY <3>1 DEF LoadInv
    <2>11. q[First][buf[First].tid] + buf[First].val <= QueueMax
      <3>1. q[First][b] \in Nat
        BY <2>5, <2>6
      <3> HIDE DEF b
      <3> QED BY <2>3, <2>5, <2>7, <3>1
    <2> QED BY <1>0, <2>9, <2>10, <2>11, CoreSpin
  <1> QED BY <1>1, <1>2

\* What the request in hand is, if it is not a batch.
LEMMA InHand ==
    ASSUME TypeInv, CoreInv, fpc[First] = "spin", currPid = First, bpc = "serve",
           buf[First].type # "add"
    PROVE  /\ Piled = 0 /\ buf[First].type = Head(Plan).type /\ Plan # <<>>
           /\ Head(Plan).type # "destructor"
           /\ Head(Plan).type = "set_active" =>
                 buf[First].val = Head(Plan).tid /\ buf[First].bool_val = Head(Plan).b
           /\ Head(Plan).type = "resume" => buf[First].killed = Head(Plan).b
           /\ Head(Plan) \in Rpc /\ Head(Plan) = Plan[1] /\ 1 \in DOMAIN Plan
  <1>1. IsRequest(buf[First]) /\ Plan # <<>> /\ Plan \in Seq(Rpc) /\ Piled \in Nat
    BY FirstTypes DEF CoreInv, MessageInv, Sent
  <1>2. Piled = 0 /\ Head(Plan).type # "destructor"
    BY <1>1 DEF IsRequest, CoreInv, MessageInv
  <1>3. Head(Plan) \in Rpc /\ Head(Plan) = Plan[1] /\ 1 \in DOMAIN Plan
    BY <1>1, HeadTailProperties
  <1> QED BY <1>1, <1>2, <1>3 DEF IsRequest

\* set_active changes the bit that the plan says.
LEMMA CoreServeActive ==
    ASSUME TypeInv, TypeInv', ChannelInv, CoreInv, fpc[First] = "spin", UNCHANGED frontVars,
           ServeSetActive
    PROVE  CoreInv'
  <1>0. /\ currPid \in Procs /\ First \in Procs /\ bpc = "serve" /\ bpc' = "copyout"
        /\ UNCHANGED <<currPid, q, flag1, shm, fpc, todo, batch, slots, cur, tstat, fresh, created>>
        /\ coreActive \in [Procs -> [Threads -> BOOLEAN]] /\ buf \in [Procs -> Message]
    BY FirstTyped DEF ServeSetActive, frontVars, TypeInv, TypeOK
  <1>1. \A t \in Threads : q'[First][t] <= q[First][t]
    BY <1>0, FirstTypes
  <1>2. CASE currPid # First
    <2>1. coreActive'[First] = coreActive[First]
      BY <1>0, <1>2 DEF ServeSetActive
    <2> QED BY <1>0, <1>1, <1>2, <2>1, CoreParked
  <1>3. CASE currPid = First
    <2> DEFINE r == Head(Plan)
    <2>1. buf[First].type = "set_active"
      BY <1>3 DEF ServeSetActive
    <2>2. /\ Piled = 0 /\ r.type = "set_active" /\ Plan # <<>> /\ buf[First].val = r.tid
          /\ buf[First].bool_val = r.b /\ r \in Rpc /\ r = Plan[1] /\ 1 \in DOMAIN Plan
      BY <1>0, <1>3, <2>1, InHand
    <2>3. r.tid \in Threads /\ r.b \in BOOLEAN
      BY <2>2 DEF Rpc
    <2>4. coreActive' = [coreActive EXCEPT ![First][r.tid] = r.b]
      BY <1>3, <2>2, <2>3 DEF ServeSetActive
    <2>5. coreActive'[First] = [coreActive[First] EXCEPT ![r.tid] = r.b]
      BY <1>0, <2>4
    <2>6. /\ Plan' = Plan /\ Piled' = Piled /\ Alive' = Alive
      BY <1>0 DEF Plan, Piled, Alive
    <2>7. coreActive[First] \in [Threads -> BOOLEAN]
      BY FirstTypes
    <2> HIDE DEF r
    <2>8. PlanInv'
      BY <1>0, <2>6 DEF CoreInv, PlanInv, PlanShape
    <2>9. EndInv'
      BY <1>0 DEF EndInv, FirstNeverExits
    <2>10. LoadInv'
      BY <1>1, <2>2, SpinLoad DEF CoreInv
    <2>11. MessageInv'
      <3>1. IsAnswer(buf[First])'
        <4>1. coreActive'[First][r.tid] = r.b
          BY <2>3, <2>5, <2>7
        <4> QED BY <2>2, <2>6, <4>1 DEF IsAnswer, r
      <3> QED BY <1>0, <1>3, <2>2, <2>6, <3>1, SpinStages DEF MessageInv, r
    <2>12. ActiveInv'
      <3>1. Alive /\ ActiveInv
        BY DEF CoreInv, Alive
      <3>2. ASSUME NEW t \in Threads
            PROVE  \/ coreActive'[First][t] <=> tstat[First][t] = "active"
                   \/ \E i \in DOMAIN Plan : Plan[i].type = "set_active" /\ Plan[i].tid = t
        <4>1. CASE t = r.tid
          BY <2>2, <4>1
        <4>2. CASE t # r.tid
          <5>1. coreActive'[First][t] = coreActive[First][t]
            BY <2>3, <2>5, <2>7, <4>2
          <5> QED BY <3>1, <5>1 DEF ActiveInv
        <4> QED BY <4>1, <4>2
      <3>3. \/ \E t \in Threads : tstat[First][t] = "active"
            \/ Plan # <<>> /\ Plan[Len(Plan)].type = "destructor"
            \/ Plan # <<>> /\ Plan[Len(Plan)].type = "resume" /\ Plan[Len(Plan)].b
        BY <3>1 DEF ActiveInv
      <3>4. Head(Plan).type # "resume"
        BY <2>2 DEF r
      <3>5. /\ \A i \in DOMAIN Plan : Plan[i].type = "set_active" =>
                  (Plan[i].b <=> tstat[First][Plan[i].tid] = "active")
            /\ \/ tstat[First][cur[First]] = "active"
               \/ \E i \in DOMAIN Plan : Plan[i].type \in {"resume", "destructor"}
        BY <3>1 DEF ActiveInv
      <3>6. tstat' = tstat /\ cur' = cur
        BY <1>0
      <3> QED BY <2>6, <3>2, <3>3, <3>4, <3>5, <3>6, Zenon DEF ActiveInv
    <2> QED BY <2>8, <2>9, <2>10, <2>11, <2>12 DEF CoreInv
  <1> QED BY <1>2, <1>3

\* The remaining requests.
LEMMA CoreServeOther ==
    ASSUME TypeInv, TypeInv', ChannelInv, CoreInv, fpc[First] = "spin", UNCHANGED frontVars,
           ServeGet \/ ServeResume \/ ServeDestructor
    PROVE  CoreInv'
  <1>0. /\ currPid \in Procs /\ First \in Procs /\ bpc = "serve"
        /\ UNCHANGED <<coreActive, flag1, shm, fpc, todo, batch>>
        /\ buf[First] \in Message
    BY FirstTypes DEF ServeGet, ServeResume, ServeDestructor, frontVars
  <1>1. Plan' = Plan /\ Piled' = Piled
    BY <1>0 DEF Plan, Piled
  <1>2. CASE ServeGet
    <2>1. currPid' = currPid /\ q' = q /\ bpc' = "copyout"
      BY <1>2 DEF ServeGet
    <2>2. \A t \in Threads : q'[First][t] <= q[First][t]
      BY <2>1, FirstTypes
    <2>3. CASE currPid # First
      BY <1>0, <2>1, <2>2, <2>3, CoreParked
    <2>4. CASE currPid = First
      <3>1. buf[First].type = "get"
        BY <1>2, <2>4 DEF ServeGet
      <3>2. Piled = 0 /\ Head(Plan).type = "get"
        BY <1>0, <2>4, <3>1, InHand
      <3>3. MessageInv'
        BY <1>0, <1>1, <2>1, <2>4, <3>2, SpinStages DEF MessageInv, IsAnswer
      <3>4. LoadInv'
        BY <2>2, <3>2, SpinLoad DEF CoreInv
      <3> QED BY <1>0, <3>3, <3>4, CoreSpin
    <2> QED BY <2>3, <2>4
  <1>3. ASSUME bpc' = "copyout", Piled = 0, Head(Plan).type = "resume",
               NEW p \in Procs, NEW t \in Threads, ResumeTo(p, t)
        PROVE  CoreInv'
    <2>1. flag1[First]
      BY <1>0, SpinStages
    <2>2. CASE p = First
      BY <1>0, <1>3, <2>1, <2>2, CorePicked
    <2>3. CASE p # First
      <3>1. \A u \in Threads : q'[First][u] <= q[First][u]
        BY <1>0, <1>3 DEF ResumeTo, Drained
      <3>2. currPid' = p
        BY <1>3 DEF ResumeTo
      <3> QED BY <1>0, <1>3, <2>3, <3>1, <3>2, CoreLeft
    <2> QED BY <2>2, <2>3
  <1>4. currPid # First => Piled = 0 /\ Head(Plan).type = "resume"
    BY DEF CoreInv, MessageInv
  <1>5. CASE ServeResume
    <2>1. currPid = First => buf[First].type = "resume"
      BY <1>5 DEF ServeResume
    <2>2. Piled = 0 /\ Head(Plan).type = "resume"
      BY <1>0, <1>4, <2>1, InHand
    <2>3. CASE bpc' = "copyout" /\ \E p \in Procs, t \in Threads : ResumeTo(p, t)
      BY <1>3, <2>2, <2>3
    <2>4. CASE bpc' = "wild" /\ UNCHANGED <<buf, currPid, q>>
      <3>1. \A t \in Threads : q'[First][t] <= q[First][t]
        BY <2>4, FirstTypes
      <3>2. flag1[First]
        BY <1>0, SpinStages
      <3>3. MessageInv'
        BY <1>0, <1>1, <2>2, <2>4, <3>2 DEF MessageInv
      <3>4. LoadInv'
        BY <2>2, <3>1, SpinLoad DEF CoreInv
      <3> QED BY <1>0, <3>3, <3>4, CoreSpin
    <2> QED BY <1>5, <2>3, <2>4 DEF ServeResume
  <1>6. CASE ServeDestructor
    <2>1. currPid # First
      <3>1. currPid = First => buf[First].type = "destructor"
        BY <1>6 DEF ServeDestructor
      <3> QED BY <1>0, <3>1, InHand
    <2>2. CASE bpc' = "copyout" /\ \E p \in Procs, t \in Threads : ResumeTo(p, t)
      BY <1>3, <1>4, <2>1, <2>2
    <2>3. CASE bpc' = "last" /\ UNCHANGED <<buf, currPid, q>>
      <3>1. \A t \in Threads : q'[First][t] <= q[First][t]
        BY <2>3, FirstTypes
      <3> QED BY <1>0, <2>1, <2>3, <3>1, CoreParked
    <2> QED BY <1>6, <2>2, <2>3 DEF ServeDestructor
  <1> QED BY <1>2, <1>5, <1>6

\* The backend's steps.
LEMMA CoreBack ==
    ASSUME TypeInv, TypeInv', ChannelInv, CoreInv, Back PROVE CoreInv'
  <1>1. CASE Limit
    <2>1. fpc'[First] = "killed" /\ bpc' = "end"
      BY <1>1, FirstTyped DEF Limit
    <2> QED BY <2>1, CoreEnded DEF EndInv, FirstNeverExits
  <1>2. CASE UNCHANGED frontVars /\ fpc[First] = "gone"
    BY <1>2, CoreGone
  <1>3. CASE UNCHANGED frontVars /\ fpc[First] = "spin"
    <2>1. CASE Limit
      BY <1>1, <2>1
    <2>2. CASE ServeAdd
      BY <1>3, <2>2, CoreServeAdd
    <2>3. CASE ServeSetActive
      BY <1>3, <2>3, CoreServeActive
    <2>4. CASE ServeGet \/ ServeResume \/ ServeDestructor
      BY <1>3, <2>4, CoreServeOther
    <2>5. CASE SeeFlag0 \/ RaiseFlag0 \/ CopyIn \/ CopyOut \/ LowerFlag1
      BY <1>3, <2>5, CoreReceive
    <2> QED BY <2>1, <2>2, <2>3, <2>4, <2>5 DEF Back, Serve
  <1> QED BY <1>1, <1>2, <1>3, BackWhen

-----------------------------------------------------------------------------
(* The channel's end in the first process.                                 *)

\* The parts of a plan.
LEMMA PlanParts ==
    ASSUME NEW s \in Seq(Rpc), s # <<>>
    PROVE  /\ Len(s) \in Nat /\ Len(s) >= 1 /\ DOMAIN s = 1 .. Len(s)
           /\ Head(s) = s[1] /\ Head(s) \in Rpc /\ Head(s).tid \in Threads
           /\ Tail(s) \in Seq(Rpc) /\ Len(Tail(s)) = Len(s) - 1
           /\ DOMAIN Tail(s) = 1 .. Len(s) - 1
           /\ \A i \in 1 .. Len(s) - 1 : Tail(s)[i] = s[i + 1]
  <1>1. Len(s) \in Nat /\ Len(s) >= 1 /\ DOMAIN s = 1 .. Len(s)
    BY EmptySeq, LenProperties
  <1>2. Head(s) = s[1] /\ Head(s) \in Rpc
    BY <1>1, HeadTailProperties
  <1>3. Head(s).tid \in Threads
    BY <1>2 DEF Rpc
  <1>4. /\ Tail(s) \in Seq(Rpc) /\ Len(Tail(s)) = Len(s) - 1
        /\ \A i \in 1 .. Len(s) - 1 : Tail(s)[i] = s[i + 1]
    BY <1>1, HeadTailProperties
  <1> QED BY <1>1, <1>2, <1>3, <1>4, LenProperties

\* The rest of a plan is a plan, and of any thread: it piles nothing.
LEMMA PlanRest ==
    ASSUME NEW s \in Seq(Rpc), s # <<>>, NEW c, NEW d, PlanShape(s, c)
    PROVE  /\ PlanShape(Tail(s), d)
           /\ \A i \in DOMAIN Tail(s) : ~Tail(s)[i].pile
           /\ Head(s).pile => Tail(s) = <<>> /\ Head(s).tid = c /\ Head(s).type = "add"
  <1>1. /\ Len(s) \in Nat /\ Len(s) >= 1 /\ DOMAIN s = 1 .. Len(s) /\ Head(s) = s[1]
        /\ Tail(s) \in Seq(Rpc) /\ Len(Tail(s)) = Len(s) - 1
        /\ DOMAIN Tail(s) = 1 .. Len(s) - 1
        /\ \A i \in 1 .. Len(s) - 1 : Tail(s)[i] = s[i + 1]
    BY PlanParts
  <1>2. \A i \in DOMAIN Tail(s) : ~Tail(s)[i].pile
    <2> SUFFICES ASSUME NEW i \in DOMAIN Tail(s), Tail(s)[i].pile PROVE FALSE
      OBVIOUS
    <2>1. i \in 1 .. Len(s) - 1 /\ i + 1 \in DOMAIN s /\ s[i + 1].pile
      BY <1>1
    <2>2. Len(s) = 1
      BY <2>1 DEF PlanShape
    <2> QED BY <2>1, <2>2
  <1>3. \A i, j \in DOMAIN Tail(s) :
          Tail(s)[i].type = "add" /\ Tail(s)[j].type = "add" /\ Tail(s)[i].tid = Tail(s)[j].tid => i = j
    <2> SUFFICES ASSUME NEW i \in DOMAIN Tail(s), NEW j \in DOMAIN Tail(s),
                        Tail(s)[i].type = "add", Tail(s)[j].type = "add",
                        Tail(s)[i].tid = Tail(s)[j].tid
                 PROVE  i = j
      OBVIOUS
    <2>1. /\ i \in Int /\ j \in Int /\ i + 1 \in DOMAIN s /\ j + 1 \in DOMAIN s
          /\ Tail(s)[i] = s[i + 1] /\ Tail(s)[j] = s[j + 1]
      BY <1>1
    <2>2. i + 1 = j + 1
      BY <2>1, Zenon DEF PlanShape
    <2> QED BY <2>1, <2>2
  <1>4. ASSUME NEW i \in DOMAIN Tail(s), Tail(s)[i].type = "resume"
        PROVE  /\ i = Len(Tail(s))
               /\ \A j \in DOMAIN Tail(s) : i < j => Tail(s)[j].type # "add"
    <2>1. i \in Int /\ i >= 1 /\ i + 1 \in DOMAIN s /\ s[i + 1].type = "resume"
      BY <1>1, <1>4
    <2>2. i + 1 = Len(s)
      BY <2>1 DEF PlanShape
    <2> QED BY <1>1, <2>1, <2>2
  <1>5. PlanShape(Tail(s), d)
    BY <1>2, <1>3, <1>4 DEF PlanShape
  <1>6. Head(s).pile => Tail(s) = <<>> /\ Head(s).tid = c /\ Head(s).type = "add"
    <2> SUFFICES ASSUME Head(s).pile PROVE Tail(s) = <<>> /\ Head(s).tid = c /\ Head(s).type = "add"
      OBVIOUS
    <2>1. Len(s) = 1 /\ s[1].tid = c /\ s[1].type = "add"
      BY <1>1 DEF PlanShape
    <2>2. Len(Tail(s)) = 0
      BY <1>1, <2>1
    <2> QED BY <1>1, <2>1, <2>2, EmptySeq
  <1> QED BY <1>2, <1>5, <1>6

\* While the first process runs, the backend polls it.
LEMMA RunStage ==
    ASSUME ChannelInv, fpc[First] \in {"run", "post", "got"}
    PROVE  currPid = First /\ bpc = "poll" /\ flag0[First]
           /\ (fpc[First] # "got" => flag1[First])
  BY DEF ChannelInv

\* A request is posted: the plan stays, the batch is what the message says.
LEMMA CorePost ==
    ASSUME CoreInv, fpc[First] = "run", fpc'[First] = "post", UNCHANGED <<todo, cur, tstat, coreActive>>,
           IsRequest(shm[First])', LoadInv',
           Head(Plan).type = "add" => Piled' > 0 /\ batch'[First].tid = Head(Plan).tid
    PROVE  CoreInv'
  <1>1. Plan' = Plan /\ Alive /\ Alive'
    BY DEF Plan, Alive
  <1>2. PlanInv'
    BY <1>1 DEF CoreInv, PlanInv, PlanShape
  <1>3. MessageInv'
    BY <1>1 DEF MessageInv
  <1>4. ActiveInv'
    BY <1>1 DEF CoreInv, ActiveInv
  <1>5. EndInv'
    BY DEF EndInv, FirstNeverExits
  <1> QED BY <1>2, <1>3, <1>4, <1>5 DEF CoreInv

\* What is posted is the message with the new number.
LEMMA PostedMsg ==
    ASSUME TypeInv, NEW msg \in Message, Post(First, msg)
    PROVE  /\ fpc'[First] = "post"
           /\ shm'[First].type = msg.type /\ shm'[First].tid = msg.tid
           /\ shm'[First].val = msg.val /\ shm'[First].bool_val = msg.bool_val
           /\ shm'[First].killed = msg.killed
  BY FirstTyped DEF TypeInv, TypeOK, Post, Message

\* send_instr_batch and the other requests.
LEMMA CoreFlush ==
    ASSUME TypeInv, CoreInv, Flush(First) \/ Request(First) PROVE CoreInv'
  <1>0. /\ fpc[First] = "run" /\ Plan # <<>> /\ Head(Plan).type # "add"
        /\ UNCHANGED <<todo, batch, slots, cur, tstat, fresh, created, coreActive, q, bpc>>
    BY DEF Flush, Request, Plan, backVars
  <1>1. /\ Plan \in Seq(Rpc) /\ Piled \in Nat /\ batch[First].tid \in Threads /\ First \in Procs
        /\ Plan' = Plan /\ Piled' = Piled
    BY <1>0, FirstTypes DEF Plan, Piled
  <1>2. Head(Plan) \in Rpc
    BY <1>0, <1>1, PlanParts
  <1>3. fpc'[First] = "post" /\ IsRequest(shm[First])'
    <2>1. CASE Flush(First)
      <3> DEFINE msg == BatchMsg(batch[First].tid, Piled)
      <3>1. msg \in Message /\ Post(First, msg) /\ Piled > 0
        BY <1>1, <2>1, BatchTyped DEF Flush, Piled
      <3>2. msg.type = "add" /\ msg.tid = batch[First].tid /\ msg.val = Piled
        BY DEF BatchMsg, NoMsg
      <3> HIDE DEF msg
      <3> QED BY <1>0, <1>1, <3>1, <3>2, PostedMsg DEF IsRequest
    <2>2. CASE Request(First)
      <3> DEFINE msg == RequestMsg(Head(Plan))
      <3>1. msg \in Message /\ Post(First, msg) /\ Piled = 0
        BY <1>1, <1>2, <2>2, RequestTyped DEF Request, Piled, Plan
      <3>2. /\ msg.type = Head(Plan).type
            /\ msg.type = "set_active" => msg.val = Head(Plan).tid /\ msg.bool_val = Head(Plan).b
            /\ msg.type = "resume" => msg.killed = Head(Plan).b
        BY <1>2 DEF RequestMsg, NoMsg, Rpc
      <3> HIDE DEF msg
      <3> QED BY <1>0, <1>1, <3>1, <3>2, PostedMsg DEF IsRequest
    <2> QED BY <2>1, <2>2
  <1>4. LoadInv'
    <2>1. ~Counted /\ ~Counted' /\ ~Sent /\ Sent' /\ Checking' = Checking /\ Alive
      BY <1>0, <1>1, <1>3 DEF Counted, Sent, Checking, Alive
    <2>2. Plan[1].type # "add"
      BY <1>0, <1>1, PlanParts
    <2>3. ASSUME NEW t \in Threads PROVE Load(t)' = Load(t) /\ Slack(t)' = Slack(t)
      <3>1. Owes(t)' = Owes(t)
        BY <1>1, <2>1, <2>2 DEF Owes
      <3> QED BY <1>0, <1>1, <2>1, <3>1 DEF Load, Slack
    <2> HIDE DEF Load, Slack
    <2> QED BY <1>0, <1>1, <2>1, <2>3 DEF CoreInv, LoadInv
  <1> QED BY <1>0, <1>3, <1>4, CorePost

\* Slack is between one and three entries.
LEMMA SlackRange == ASSUME NEW t PROVE Slack(t) \in 1 .. 3
  BY DEF Slack

\* add_instruction: the batch grows by the instruction, and is sent or not.
LEMMA CorePile ==
    ASSUME TypeInv, TypeInv', CoreInv, Pile(First) PROVE CoreInv'
  <1> DEFINE r == Head(Plan)
  <1>0. /\ fpc[First] = "run" /\ Plan # <<>> /\ r.type = "add"
        /\ UNCHANGED <<slots, cur, tstat, fresh, created, coreActive, q, bpc>>
    BY DEF Pile, Plan, backVars
  <1>1. /\ Plan \in Seq(Rpc) /\ Piled \in Nat /\ batch[First].tid \in Threads /\ First \in Procs
        /\ cur[First] \in Threads /\ q[First] \in [Threads -> 0 .. QueueMax]
        /\ slots[First] \in [Threads -> Nat] /\ QueueMax \in Nat
    BY FirstTypes, HandshakeAssumption
  <1>2. /\ Len(Plan) \in Nat /\ Len(Plan) >= 1 /\ DOMAIN Plan = 1 .. Len(Plan)
        /\ r = Plan[1] /\ r \in Rpc /\ r.tid \in Threads
    BY <1>0, <1>1, PlanParts
  <1>3. Piled > 0 => batch[First].tid = cur[First] /\ r.tid = cur[First]
    BY <1>0 DEF CoreInv, PlanInv, Alive
  <1>4. /\ batch' = [batch EXCEPT ![First] = [tid |-> r.tid, n |-> Piled + 1]]
        /\ \/ Post(First, BatchMsg(r.tid, Piled + 1)) /\ UNCHANGED todo
           \/ /\ ~MustSync(First, r, Piled + 1) /\ UNCHANGED <<fpc, seq, shm>>
              /\ todo' = [todo EXCEPT ![First] = Tail(@)]
    BY <1>1, <1>3 DEF Pile, Piled, Plan
  <1>5. batch'[First].tid = r.tid /\ Piled' = Piled + 1
    <2>1. batch \in [Procs -> [tid : Threads, n : Nat]]
      BY DEF TypeInv, TypeOK
    <2> HIDE DEF r
    <2> QED BY <1>1, <1>4, <2>1 DEF Piled
  <1>6. PlanShape(Plan, cur[First]) /\ Alive /\ ~Sent /\ ~Counted
    BY <1>0 DEF CoreInv, PlanInv, Alive, Sent, Counted
  <1>7. ASSUME NEW t \in Threads
        PROVE  /\ q[First][t] \in Nat /\ slots[First][t] \in Nat /\ Slack(t) \in 1 .. 3
               /\ slots[First][t] <= Available(q[First][t])
               /\ Load(t) <= QueueMax - Slack(t)
    <2>1. q[First][t] \in Nat /\ slots[First][t] \in Nat
      BY <1>1
    <2>2. /\ slots[First][t] <= Available(q[First][t])
          /\ Load(t) <= QueueMax - Slack(t)
      BY <1>6 DEF CoreInv, LoadInv
    <2> QED BY <2>1, <2>2, SlackRange
  <1>8. CASE Post(First, BatchMsg(r.tid, Piled + 1)) /\ UNCHANGED todo
    <2> DEFINE msg == BatchMsg(r.tid, Piled + 1)
    <2>1. msg \in Message
      BY <1>1, <1>2, BatchTyped
    <2>2. msg.type = "add" /\ msg.tid = r.tid /\ msg.val = Piled + 1
      BY DEF BatchMsg, NoMsg
    <2>3. Post(First, msg)
      BY <1>8
    <2> HIDE DEF msg, r
    <2>4. /\ fpc'[First] = "post" /\ shm'[First].type = "add" /\ shm'[First].tid = r.tid
          /\ shm'[First].val = Piled + 1
      BY <2>1, <2>2, <2>3, PostedMsg
    <2>5. IsRequest(shm[First])'
      BY <1>1, <1>5, <2>4 DEF IsRequest
    <2>6. Plan' = Plan /\ Sent' /\ ~Counted' /\ Checking' = Checking
      BY <1>8, <2>4 DEF Plan, Sent, Counted, Checking
    <2>7. ASSUME NEW t \in Threads PROVE Load(t)' = Load(t) /\ Slack(t)' = Slack(t)
      <3>1. Slack(t)' = Slack(t)
        BY <1>0, <2>6 DEF Slack
      <3>2. CASE t = r.tid
        <4>1. Owes(t)
          BY <1>0, <1>2, <1>6, <3>2 DEF Owes, r
        <4>2. ~Owes(t)'
          <5> SUFFICES ASSUME NEW i \in DOMAIN Plan, Plan[i].type = "add", Plan[i].tid = t, i # 1
                       PROVE FALSE
            BY <2>6 DEF Owes
          <5> QED BY <1>0, <1>2, <1>6, <3>2 DEF PlanShape, r
        <4>3. Load(t)' = q[First][t] + (Piled + 1) + 0
          BY <1>0, <1>1, <1>5, <2>6, <3>2, <4>2 DEF Load
        <4>4. Load(t) = q[First][t] + Piled + 1
          <5>1. Piled > 0 => batch[First].tid = t
            BY <1>3, <3>2
          <5> QED BY <1>1, <1>6, <1>7, <4>1, <5>1 DEF Load
        <4>5. q[First][t] \in Nat
          BY <1>7
        <4>6. Piled \in Nat
          BY <1>1
        <4>7. q[First][t] + (Piled + 1) + 0 = q[First][t] + Piled + 1
          BY <4>5, <4>6
        <4> QED BY <3>1, <4>3, <4>4, <4>7, Zenon
      <3>3. CASE t # r.tid
        <4>1. Owes(t)' = Owes(t)
          <5>1. Plan[1].tid # t
            BY <1>2, <3>3
          <5> QED BY <1>6, <2>6, <5>1 DEF Owes
        <4>2. Piled > 0 => batch[First].tid # t
          BY <1>3, <3>3
        <4> QED BY <1>0, <1>5, <2>6, <3>1, <3>3, <4>1, <4>2 DEF Load
      <3> QED BY <3>2, <3>3
    <2>8. LoadInv'
      <3> HIDE DEF Load, Slack, Available
      <3> QED BY <1>0, <1>7, <2>6, <2>7 DEF LoadInv
    <2>9. Piled' > 0 /\ batch'[First].tid = Head(Plan).tid
      BY <1>1, <1>5 DEF r
    <2> QED BY <1>0, <1>8, <2>4, <2>5, <2>8, <2>9, CorePost
  <1>9. CASE /\ ~MustSync(First, r, Piled + 1) /\ UNCHANGED <<fpc, seq, shm>>
             /\ todo' = [todo EXCEPT ![First] = Tail(@)]
    <2>1. r.pile /\ ~(Piled + 1 >= slots[First][r.tid])
      BY <1>9 DEF MustSync
    <2>2. Tail(Plan) = <<>> /\ r.tid = cur[First]
      BY <1>0, <1>1, <1>6, <2>1, PlanRest
    <2>3. Plan' = <<>>
      <3>1. todo \in [Procs -> Seq(Rpc)]
        BY DEF TypeInv, TypeOK
      <3> QED BY <1>1, <1>9, <2>2, <3>1 DEF Plan
    <2>4. Len(Plan) = 1
      BY <1>2, <1>6, <2>1 DEF PlanShape
    <2> HIDE DEF r
    <2>5. PlanInv'
      <3>1. PlanShape(<<>>, cur[First])
        BY DEF PlanShape
      <3> QED BY <1>0, <1>5, <2>2, <2>3, <3>1 DEF PlanInv
    <2>6. fpc'[First] = "run"
      BY <1>0, <1>9
    <2>7. MessageInv' /\ EndInv'
      BY <2>6 DEF MessageInv, Sent, EndInv, FirstNeverExits
    <2>8. ActiveInv'
      <3>1. ActiveInv /\ DOMAIN Plan = {1} /\ Plan[1].type = "add"
        BY <1>0, <1>2, <2>4 DEF CoreInv, r
      <3>2. /\ \A t \in Threads : coreActive[First][t] <=> tstat[First][t] = "active"
            /\ tstat[First][cur[First]] = "active"
            /\ \E t \in Threads : tstat[First][t] = "active"
        BY <1>6, <2>4, <3>1 DEF ActiveInv
      <3> QED BY <1>0, <2>3, <3>2 DEF ActiveInv
    <2>9. LoadInv'
      <3>1. ~Counted'
        BY <2>6 DEF Counted
      <3>2. ASSUME NEW t \in Threads PROVE Load(t)' <= QueueMax - Slack(t)'
        <4>1. ~Owes(t)' /\ Slack(t)' \in 1 .. 3
          BY <2>3, SlackRange DEF Owes, Slack
        <4>2. q[First][t] \in Nat /\ slots[First][t] \in Nat
          BY <1>7
        <4>3. CASE t = cur[First]
          <5>1. Load(t)' = q[First][t] + (Piled + 1)
            BY <1>0, <1>1, <1>5, <2>2, <3>1, <4>1, <4>2, <4>3 DEF Load
          <5>2. Piled + 1 \in Nat /\ Piled + 1 > 0 /\ Piled + 1 <= slots[First][t]
                /\ slots[First][t] <= Available(q[First][t])
            BY <1>1, <1>7, <2>1, <2>2, <4>2, <4>3
          <5>3. Available(q[First][t]) \in Nat
            BY <4>2, AvailableFits
          <5>4. q[First][t] + (Piled + 1) <= QueueMax - 4
            <6>1. Piled + 1 <= Available(q[First][t])
              <7> HIDE DEF Available
              <7> QED BY <4>2, <5>2, <5>3
            <6> QED BY <4>2, <5>2, <6>1, AvailableFits
          <5> HIDE DEF Load, Slack
          <5> QED BY <1>1, <4>1, <4>2, <5>1, <5>4
        <4>4. CASE t # cur[First]
          <5>1. Load(t)' = q[First][t] /\ q[First][t] <= Load(t)
            BY <1>0, <1>1, <1>5, <2>2, <3>1, <4>1, <4>2, <4>4 DEF Load
          <5>2. Slack(t)' = Slack(t)
            BY <1>0, <4>4 DEF Slack
          <5>3. Load(t) <= QueueMax - Slack(t) /\ Slack(t) \in 1 .. 3 /\ Load(t) \in Int
            BY <1>1, <1>7, <4>2 DEF Load
          <5> HIDE DEF Load, Slack
          <5> QED BY <1>1, <4>2, <5>1, <5>2, <5>3
        <4> QED BY <4>3, <4>4
      <3> HIDE DEF Load, Slack, Available
      <3> QED BY <1>0, <1>7, <3>1, <3>2 DEF LoadInv
    <2> QED BY <2>5, <2>7, <2>8, <2>9 DEF CoreInv
  <1> QED BY <1>4, <1>8, <1>9

\* sync_with_mcsim posts and waits, or is the destructor's and does not.
LEMMA CoreLower ==
    ASSUME TypeInv, ChannelInv, CoreInv, LowerFlag0(First) PROVE CoreInv'
  <1>0. /\ fpc[First] = "post" /\ ~flag0'[First] /\ First \in Procs
        /\ fpc'[First] = IF shm[First].type = "destructor" THEN "gone" ELSE "spin"
        /\ UNCHANGED <<todo, batch, slots, cur, tstat, fresh, created, flag1, shm, bpc, currPid,
                       coreActive, q>>
    BY FirstTyped DEF LowerFlag0, backVars, TypeInv, TypeOK
  <1>1. currPid = First /\ bpc = "poll" /\ flag1[First]
    BY <1>0, RunStage
  <1>2. CASE shm[First].type = "destructor"
    <2>1. EndInv'
      BY <1>0, <1>1, <1>2 DEF EndInv, FirstNeverExits
    <2> QED BY <1>0, <1>2, <2>1, CoreEnded
  <1>3. CASE shm[First].type # "destructor"
    <2>1. Plan' = Plan /\ Piled' = Piled /\ Sent /\ Sent' /\ Alive /\ Alive' /\ Checking' = Checking
      BY <1>0, <1>3 DEF Plan, Piled, Sent, Alive, Checking
    <2>2. PlanInv'
      BY <1>0, <1>3, <2>1 DEF CoreInv, PlanInv, PlanShape
    <2>3. IsRequest(shm[First]) /\ IsRequest(shm[First])'
      BY <1>0, <2>1 DEF CoreInv, MessageInv, IsRequest
    <2>4. Piled = 0 => Head(Plan).type # "destructor"
      BY <1>3, <2>3 DEF IsRequest
    <2>5. MessageInv'
      BY <1>0, <1>1, <1>3, <2>1, <2>3, <2>4 DEF CoreInv, MessageInv
    <2>6. ActiveInv'
      BY <1>0, <2>1 DEF CoreInv, ActiveInv
    <2>7. EndInv'
      BY <1>0, <1>3 DEF EndInv, FirstNeverExits
    <2>8. LoadInv'
      <3>1. ~Counted /\ ~Counted'
        BY <1>0, <1>1, <1>3 DEF Counted
      <3>2. ASSUME NEW t \in Threads PROVE Load(t)' = Load(t) /\ Slack(t)' = Slack(t)
        <4>1. Owes(t)' = Owes(t)
          BY <2>1 DEF Owes
        <4> QED BY <1>0, <2>1, <3>1, <4>1 DEF Load, Slack
      <3> HIDE DEF Load, Slack
      <3> QED BY <1>0, <2>1, <3>1, <3>2 DEF CoreInv, LoadInv
    <2> QED BY <2>2, <2>5, <2>6, <2>7, <2>8 DEF CoreInv
  <1> QED BY <1>2, <1>3

\* The spin loop ends.
LEMMA CoreSee ==
    ASSUME TypeInv, ChannelInv, CoreInv, SeeFlag1(First) PROVE CoreInv'
  <1>0. /\ fpc[First] = "spin" /\ ~flag1[First] /\ fpc'[First] = "got"
        /\ UNCHANGED <<todo, batch, slots, cur, tstat, fresh, created, flag1, shm, bpc, currPid,
                       coreActive, q>>
    BY FirstTyped DEF SeeFlag1, backVars, TypeInv, TypeOK
  <1>1. currPid = First /\ bpc = "poll"
    BY <1>0, SpinStages
  <1>2. Plan' = Plan /\ Piled' = Piled /\ Sent /\ Sent' /\ Alive /\ Alive' /\ Checking' = Checking
    BY <1>0 DEF Plan, Piled, Sent, Alive, Checking
  <1>3. PlanInv'
    BY <1>0, <1>2 DEF CoreInv, PlanInv, PlanShape
  <1>4. IsAnswer(shm[First]) /\ IsAnswer(shm[First])'
    BY <1>0, <1>1, <1>2 DEF CoreInv, MessageInv, IsAnswer
  <1>5. MessageInv'
    BY <1>0, <1>2, <1>4 DEF CoreInv, MessageInv
  <1>6. ActiveInv'
    BY <1>0, <1>2 DEF CoreInv, ActiveInv
  <1>7. EndInv'
    BY <1>0 DEF EndInv, FirstNeverExits
  <1>8. LoadInv'
    <2>1. Counted /\ Counted'
      BY <1>0 DEF Counted
    <2>2. ASSUME NEW t \in Threads PROVE Load(t)' = Load(t) /\ Slack(t)' = Slack(t)
      <3>1. Owes(t)' = Owes(t)
        BY <1>2 DEF Owes
      <3> QED BY <1>0, <1>2, <2>1, <3>1 DEF Load, Slack
    <2> HIDE DEF Load, Slack
    <2> QED BY <1>0, <1>2, <2>1, <2>2 DEF CoreInv, LoadInv
  <1> QED BY <1>3, <1>5, <1>6, <1>7, <1>8 DEF CoreInv

\* The head of the plan is done: what ActiveInv says of the rest.
LEMMA ActiveRest ==
    ASSUME TypeInv, CoreInv, Alive, Plan # <<>>, Head(Plan).type # "destructor",
           Head(Plan).type = "set_active" =>
              coreActive[First][Head(Plan).tid] = Head(Plan).b,
           Plan' = Tail(Plan), UNCHANGED <<tstat, coreActive>>,
           Head(Plan).type # "resume" => cur' = cur,
           Head(Plan).type = "resume" => coreActive[First][cur'[First]] /\ cur'[First] \in Threads
    PROVE  ActiveInv'
  <1> DEFINE r == Head(Plan)
  <1>1. /\ Len(Plan) \in Nat /\ Len(Plan) >= 1 /\ DOMAIN Plan = 1 .. Len(Plan)
        /\ r = Plan[1] /\ r \in Rpc /\ r.tid \in Threads
        /\ Plan' \in Seq(Rpc) /\ Len(Plan') = Len(Plan) - 1
        /\ DOMAIN Plan' = 1 .. Len(Plan) - 1
        /\ \A i \in 1 .. Len(Plan) - 1 : Plan'[i] = Plan[i + 1]
    BY FirstTypes, PlanParts
  <1>2. PlanShape(Plan, cur[First]) /\ ActiveInv
    BY DEF CoreInv, PlanInv
  <1> HIDE DEF r
  <1>3. \A i \in DOMAIN Plan' : Plan'[i].type = "set_active" =>
            (Plan'[i].b <=> tstat[First][Plan'[i].tid] = "active")
    <2> SUFFICES ASSUME NEW i \in DOMAIN Plan', Plan'[i].type = "set_active"
                 PROVE  Plan'[i].b <=> tstat[First][Plan'[i].tid] = "active"
      OBVIOUS
    <2>1. i + 1 \in DOMAIN Plan /\ Plan'[i] = Plan[i + 1]
      BY <1>1
    <2>2. \A k \in DOMAIN Plan : Plan[k].type = "set_active" =>
             (Plan[k].b <=> tstat[First][Plan[k].tid] = "active")
      BY <1>2 DEF ActiveInv
    <2> QED BY <2>1, <2>2, Zenon
  <1>4. ASSUME NEW i \in DOMAIN Plan, Plan[i] # r
        PROVE  \E j \in DOMAIN Plan' : Plan'[j] = Plan[i]
    <2>1. i \in Int /\ i # 1 /\ i >= 1 /\ i <= Len(Plan)
      BY <1>1, <1>4
    <2>2. i - 1 \in 1 .. Len(Plan) - 1 /\ (i - 1) + 1 = i
      BY <1>1, <2>1
    <2> QED BY <1>1, <2>2
  <1>5. ASSUME NEW t \in Threads
        PROVE  \/ coreActive[First][t] <=> tstat[First][t] = "active"
               \/ \E i \in DOMAIN Plan' : Plan'[i].type = "set_active" /\ Plan'[i].tid = t
    <2>1. CASE r.type = "set_active" /\ r.tid = t
      <3>1. 1 \in DOMAIN Plan
        BY <1>1
      <3> QED BY <1>1, <1>2, <2>1, <3>1 DEF ActiveInv, r
    <2>2. CASE ~(r.type = "set_active" /\ r.tid = t)
      <3>1. CASE coreActive[First][t] <=> tstat[First][t] = "active"
        BY <3>1
      <3>2. CASE \E i \in DOMAIN Plan : Plan[i].type = "set_active" /\ Plan[i].tid = t
        <4>1. PICK i \in DOMAIN Plan : Plan[i].type = "set_active" /\ Plan[i].tid = t
          BY <3>2
        <4>2. PICK j \in DOMAIN Plan' : Plan'[j] = Plan[i]
          BY <1>4, <2>2, <4>1
        <4> QED BY <4>1, <4>2
      <3> QED BY <1>2, <3>1, <3>2 DEF ActiveInv
    <2> QED BY <2>1, <2>2
  <1>6. \/ tstat[First][cur'[First]] = "active"
        \/ \E i \in DOMAIN Plan' : Plan'[i].type \in {"resume", "destructor"}
    <2>1. CASE r.type = "resume"
      <3>1. CASE Len(Plan) = 1
        <4>1. ~\E i \in DOMAIN Plan : Plan[i].type = "set_active"
          BY <1>1, <2>1, <3>1
        <4> QED BY <1>2, <2>1, <4>1 DEF ActiveInv, r
      <3>2. CASE Len(Plan) # 1
        <4>1. Plan[Len(Plan)].type = "destructor"
          BY <1>1, <1>2, <2>1, <3>2 DEF PlanShape
        <4>2. Len(Plan) \in DOMAIN Plan /\ Plan[Len(Plan)] # r
          BY <1>1, <2>1, <4>1
        <4> QED BY <1>4, <4>1, <4>2
      <3> QED BY <3>1, <3>2
    <2>2. CASE r.type # "resume"
      <3>1. CASE tstat[First][cur[First]] = "active"
        BY <2>2, <3>1 DEF r
      <3>2. CASE \E i \in DOMAIN Plan : Plan[i].type \in {"resume", "destructor"}
        <4>1. PICK i \in DOMAIN Plan : Plan[i].type \in {"resume", "destructor"}
          BY <3>2
        <4>2. Plan[i] # r
          BY <2>2, <4>1 DEF r
        <4> QED BY <1>4, <4>1, <4>2
      <3> QED BY <1>2, <3>1, <3>2 DEF ActiveInv
    <2> QED BY <2>1, <2>2
  <1>7. Len(Plan) # 1 => /\ Len(Plan') \in 1 .. Len(Plan) - 1 /\ Len(Plan') + 1 = Len(Plan)
                         /\ Plan'[Len(Plan')] = Plan[Len(Plan)] /\ Plan' # <<>>
    <2> SUFFICES ASSUME Len(Plan) # 1
                 PROVE  /\ Len(Plan') \in 1 .. Len(Plan) - 1 /\ Len(Plan') + 1 = Len(Plan)
                        /\ Plan'[Len(Plan')] = Plan[Len(Plan)] /\ Plan' # <<>>
      OBVIOUS
    <2>1. Len(Plan') \in 1 .. Len(Plan) - 1 /\ Len(Plan') + 1 = Len(Plan)
      BY <1>1
    <2>2. Len(Plan') # 0
      BY <1>1, <2>1
    <2> QED BY <1>1, <2>1, <2>2, EmptySeq
  <1>8. \/ \E t \in Threads : tstat[First][t] = "active"
        \/ Plan' # <<>> /\ Plan'[Len(Plan')].type = "destructor"
        \/ Plan' # <<>> /\ Plan'[Len(Plan')].type = "resume" /\ Plan'[Len(Plan')].b
    <2>1. CASE \E t \in Threads : tstat[First][t] = "active"
      BY <2>1
    <2>2. CASE Plan[Len(Plan)].type = "destructor"
      <3>1. Len(Plan) # 1
        BY <1>1, <2>2 DEF r
      <3> QED BY <1>7, <2>2, <3>1
    <2>3. CASE Plan[Len(Plan)].type = "resume" /\ Plan[Len(Plan)].b
      <3>1. CASE Len(Plan) # 1
        BY <1>7, <2>3, <3>1
      <3>2. CASE Len(Plan) = 1
        <4>1. r.type = "resume" /\ ~\E i \in DOMAIN Plan' : TRUE
          BY <1>1, <2>3, <3>2
        <4>2. coreActive[First][cur'[First]] /\ cur'[First] \in Threads
          BY <4>1 DEF r
        <4> QED BY <1>5, <4>1, <4>2
      <3> QED BY <3>1, <3>2
    <2> QED BY <1>2, <2>1, <2>2, <2>3 DEF ActiveInv
  <1>9. ASSUME Plan' # <<>>, Plan'[Len(Plan')].type = "destructor" PROVE Head(Plan').type # "resume"
    <2>1. Len(Plan) # 1
      <3> SUFFICES ASSUME Len(Plan) = 1 PROVE FALSE
        OBVIOUS
      <3>1. Len(Plan') = 0
        BY <1>1
      <3> QED BY <1>1, <1>9, <3>1
    <2>2. Head(Plan') = Plan'[1] /\ Plan'[1] = Plan[2] /\ 2 \in DOMAIN Plan
      <3>1. Head(Plan') = Plan'[1]
        BY <1>1, <1>9, HeadTailProperties
      <3> QED BY <1>1, <1>7, <2>1, <3>1
    <2> SUFFICES ASSUME Plan[2].type = "resume" PROVE FALSE
      BY <2>2
    <2>3. \A i \in DOMAIN Plan : Plan[i].type = "resume" => i = Len(Plan) \/ i = 1
      BY <1>2 DEF PlanShape
    <2>4. 2 = Len(Plan)
      <3>1. 2 # 1
        OBVIOUS
      <3> QED BY <2>2, <2>3, <3>1, Zenon
    <2>5. Plan[Len(Plan)].type = "destructor"
      BY <1>7, <1>9, <2>1
    <2> QED BY <2>4, <2>5
  <1> QED BY <1>3, <1>5, <1>6, <1>8, <1>9, Zenon DEF ActiveInv

\* The instructions a plan owes do not change when its head is returned from.
LEMMA OwesRest ==
    ASSUME TypeInv, Sent, Plan' = Tail(Plan), ~Sent', NEW t PROVE Owes(t)' = Owes(t)
  <1>1. /\ Len(Plan) \in Nat /\ Len(Plan) >= 1 /\ DOMAIN Plan = 1 .. Len(Plan)
        /\ DOMAIN Plan' = 1 .. Len(Plan) - 1
        /\ \A i \in 1 .. Len(Plan) - 1 : Plan'[i] = Plan[i + 1]
    BY FirstTypes, PlanParts
  <1>2. ASSUME Owes(t) PROVE Owes(t)'
    <2>1. PICK i \in DOMAIN Plan : Plan[i].type = "add" /\ Plan[i].tid = t /\ i # 1
      BY <1>2 DEF Owes
    <2>2. i - 1 \in 1 .. Len(Plan) - 1 /\ (i - 1) + 1 = i
      BY <1>1, <2>1
    <2>3. Plan'[i - 1] = Plan[i] /\ i - 1 \in DOMAIN Plan'
      BY <1>1, <2>2
    <2> QED BY <2>1, <2>3 DEF Owes
  <1>3. ASSUME Owes(t)' PROVE Owes(t)
    <2>1. PICK i \in DOMAIN Plan' : Plan'[i].type = "add" /\ Plan'[i].tid = t
      BY <1>3 DEF Owes
    <2>2. Plan'[i] = Plan[i + 1] /\ i + 1 \in DOMAIN Plan /\ i + 1 # 1
      BY <1>1, <2>1
    <2> QED BY <2>1, <2>2, Zenon DEF Owes
  <1>4. Owes(t) \in BOOLEAN /\ Owes(t)' \in BOOLEAN
    BY DEF Owes
  <1> QED BY <1>2, <1>3, <1>4

\* The answer to a batch: the estimate is what the queue leaves, and the running
\* thread goes on only if that is more than one.
LEMMA CoreBatchReturn ==
    ASSUME TypeInv, TypeInv', ChannelInv, CoreInv, RaiseFlag1(First), Piled > 0 PROVE CoreInv'
  <1> DEFINE r == Head(Plan)
             b == batch[First].tid
             val == shm[First].val
  <1>0. /\ fpc[First] = "got" /\ fpc' = [fpc EXCEPT ![First] = "run"]
        /\ slots' = [slots EXCEPT ![First][b] = val]
        /\ batch' = [batch EXCEPT ![First].n = 0]
        /\ todo' = [todo EXCEPT ![First] =
                      IF r.type # "add" THEN @
                      ELSE (IF r.pile /\ val <= 1 THEN <<Resume(FALSE)>> ELSE <<>>) \o Tail(@)]
        /\ UNCHANGED <<cur, tstat, fresh, created, coreActive, q, bpc, shm>>
    BY DEF RaiseFlag1, UseReply, Piled, Plan, backVars
  <1>1. /\ Plan \in Seq(Rpc) /\ Piled \in Nat /\ b \in Threads /\ First \in Procs
        /\ cur[First] \in Threads /\ q[First] \in [Threads -> 0 .. QueueMax]
        /\ slots[First] \in [Threads -> Nat] /\ QueueMax \in Nat /\ shm[First] \in Message
    BY FirstTypes, HandshakeAssumption
  <1>2. Sent /\ Alive /\ Plan # <<>> /\ Counted
    BY <1>0, FirstTypes DEF Sent, Alive, Counted
  <1>3. /\ Len(Plan) \in Nat /\ Len(Plan) >= 1 /\ DOMAIN Plan = 1 .. Len(Plan)
        /\ r = Plan[1] /\ r \in Rpc /\ r.tid \in Threads
    BY <1>1, <1>2, PlanParts
  <1>4. val \in Nat /\ val <= Available(q[First][b])
    <2>1. IsAnswer(shm[First])
      BY <1>0 DEF CoreInv, MessageInv
    <2> QED BY <1>1, <2>1 DEF IsAnswer, Message
  <1> HIDE DEF r, b, val
  <1>5. /\ fpc'[First] = "run" /\ Piled' = 0 /\ ~Sent' /\ ~Counted' /\ Alive'
        /\ slots'[First] = [slots[First] EXCEPT ![b] = val]
    <2>1. /\ batch \in [Procs -> [tid : Threads, n : Nat]] /\ fpc \in [Procs -> FrontPc]
          /\ slots \in [Procs -> [Threads -> Nat]]
      BY DEF TypeInv, TypeOK
    <2>2. fpc'[First] = "run" /\ Piled' = 0 /\ slots'[First] = [slots[First] EXCEPT ![b] = val]
      BY <1>0, <1>1, <2>1 DEF Piled
    <2> QED BY <2>2 DEF Sent, Counted, Alive
  <1>6. MessageInv' /\ EndInv'
    BY <1>5 DEF MessageInv, EndInv, FirstNeverExits
  <1>7. PlanShape(Plan, cur[First]) /\ ActiveInv
    BY <1>2 DEF CoreInv, PlanInv
  <1>8. ASSUME NEW t \in Threads PROVE slots'[First][t] <= Available(q'[First][t])
    <2>1. CASE t = b
      BY <1>0, <1>1, <1>4, <1>5, <2>1
    <2>2. CASE t # b
      <3>1. slots[First][t] <= Available(q[First][t])
        BY <1>2, <2>2 DEF CoreInv, LoadInv, b
      <3> QED BY <1>0, <1>1, <1>5, <2>2, <3>1
    <2> QED BY <2>1, <2>2
  <1>9. ASSUME NEW t \in Threads
        PROVE  /\ q[First][t] \in Nat /\ Slack(t) \in 1 .. 3 /\ Slack(t)' \in 1 .. 3
               /\ Load(t) <= QueueMax - Slack(t)
               /\ Load(t) = q[First][t] + (IF Owes(t) THEN 1 ELSE 0)
               /\ Load(t)' = q[First][t] + (IF Owes(t)' THEN 1 ELSE 0)
    <2>1. q[First][t] \in Nat
      BY <1>1
    <2>2. Load(t) <= QueueMax - Slack(t)
      BY <1>2 DEF CoreInv, LoadInv
    <2>3. Load(t) = q[First][t] + 0 + (IF Owes(t) THEN 1 ELSE 0)
      BY <1>2 DEF Load
    <2>4. Load(t)' = q[First][t] + 0 + (IF Owes(t)' THEN 1 ELSE 0)
      BY <1>0, <1>5 DEF Load
    <2>5. Slack(t) \in 1 .. 3 /\ Slack(t)' \in 1 .. 3
      BY SlackRange DEF Slack
    <2> HIDE DEF Load, Slack, Owes
    <2> QED BY <2>1, <2>2, <2>3, <2>4, <2>5
  <1>10. ASSUME \A t \in Threads : Load(t)' <= QueueMax - Slack(t)', PlanShape(Plan', cur'[First]), ActiveInv'
         PROVE  CoreInv'
    <2>1. LoadInv'
      BY <1>8, <1>10 DEF LoadInv
    <2>2. PlanInv'
      BY <1>5, <1>10 DEF PlanInv
    <2> QED BY <1>6, <1>10, <2>1, <2>2 DEF CoreInv
  <1>11. todo \in [Procs -> Seq(Rpc)]
    BY DEF TypeInv, TypeOK
  <1>12. CASE r.type # "add"
    <2>1. Plan' = Plan
      BY <1>0, <1>1, <1>11, <1>12 DEF Plan
    <2>2. ActiveInv'
      BY <1>0, <1>2, <1>5, <1>7, <2>1 DEF ActiveInv
    <2>3. PlanShape(Plan', cur'[First])
      BY <1>0, <1>7, <2>1
    <2>4. ASSUME NEW t \in Threads PROVE Load(t)' <= QueueMax - Slack(t)'
      <3>1. Slack(t)' = Slack(t)
        BY <1>0, <2>1 DEF Slack, Checking
      <3>2. Owes(t)' = Owes(t)
        BY <1>2, <1>3, <1>5, <1>12, <2>1 DEF Owes
      <3> HIDE DEF Load, Slack, Owes
      <3> QED BY <1>9, <3>1, <3>2
    <2> QED BY <1>10, <2>2, <2>3, <2>4
  <1>13. CASE r.type = "add" /\ r.pile /\ val <= 1
    <2>1. Tail(Plan) = <<>> /\ r.tid = cur[First]
      BY <1>1, <1>2, <1>7, <1>13, PlanRest DEF r
    <2>2. Plan' = <<Resume(FALSE)>>
      <3>1. Plan' = <<Resume(FALSE)>> \o Tail(Plan)
        BY <1>0, <1>1, <1>11, <1>13 DEF Plan
      <3>2. <<Resume(FALSE)>> \in Seq(Rpc)
        BY PlansTyped
      <3>3. <<Resume(FALSE)>> \o <<>> = <<Resume(FALSE)>>
        BY <3>2, ConcatEmptySeq, Zenon
      <3> QED BY <2>1, <3>1, <3>3, Zenon
    <2>3. Resume(FALSE).type = "resume" /\ Resume(FALSE).pile = FALSE
      BY DEF Resume
    <2>4. DOMAIN Plan' = {1} /\ Len(Plan') = 1 /\ Plan'[1] = Resume(FALSE) /\ Head(Plan') = Resume(FALSE)
          /\ Plan' # <<>>
      BY <2>2
    <2>5. PlanShape(Plan', cur'[First])
      BY <2>3, <2>4 DEF PlanShape
    <2>6. Len(Plan) = 1
      BY <1>3, <1>7, <1>13 DEF PlanShape
    <2>7. ActiveInv'
      <3>1. DOMAIN Plan = {1} /\ Plan[1].type = "add"
        BY <1>3, <1>13, <2>6
      <3>2. /\ \A t \in Threads : coreActive[First][t] <=> tstat[First][t] = "active"
            /\ \E t \in Threads : tstat[First][t] = "active"
        BY <1>2, <1>7, <2>6, <3>1 DEF ActiveInv
      <3> QED BY <1>0, <2>3, <2>4, <3>2 DEF ActiveInv
    <2>8. ASSUME NEW t \in Threads PROVE Load(t)' <= QueueMax - Slack(t)'
      <3>1. ~Owes(t)'
        BY <2>3, <2>4 DEF Owes
      <3>2. Checking /\ Checking'
        BY <1>2, <1>13, <2>3, <2>4 DEF Checking, r
      <3>3. Slack(t)' = Slack(t)
        BY <1>0, <3>2 DEF Slack
      <3>4. Load(t)' = q[First][t] + 0
        BY <1>9, <3>1
      <3>5. Load(t)' <= Load(t) /\ Load(t) \in Int /\ Load(t)' \in Int
        <4>1. q[First][t] \in Nat /\ Load(t) = q[First][t] + (IF Owes(t) THEN 1 ELSE 0)
          BY <1>9
        <4> HIDE DEF Load, Slack, Owes
        <4> QED BY <3>4, <4>1
      <3>6. Load(t) <= QueueMax - Slack(t) /\ Slack(t) \in 1 .. 3
        BY <1>9
      <3> HIDE DEF Load, Slack, Owes
      <3> QED BY <1>1, <3>3, <3>5, <3>6
    <2> QED BY <1>10, <2>5, <2>7, <2>8
  <1>14. CASE r.type = "add" /\ ~(r.pile /\ val <= 1)
    <2>1. Plan' = Tail(Plan)
      <3>1. Plan' = <<>> \o Tail(Plan)
        BY <1>0, <1>1, <1>11, <1>14 DEF Plan
      <3>2. Tail(Plan) \in Seq(Rpc)
        BY <1>1, <1>2, PlanParts
      <3> QED BY <3>1, <3>2
    <2>2. PlanShape(Plan', cur'[First])
      BY <1>1, <1>2, <1>7, <2>1, PlanRest
    <2>3. ActiveInv'
      BY <1>0, <1>2, <1>14, <2>1, ActiveRest DEF r
    <2>4. ASSUME NEW t \in Threads PROVE Load(t)' <= QueueMax - Slack(t)'
      <3>1. Owes(t)' = Owes(t)
        BY <1>2, <1>5, <2>1, OwesRest
      <3>2. Load(t)' = Load(t)
        BY <1>9, <3>1
      <3>3. CASE r.pile
        <4>1. Plan' = <<>> /\ r.tid = cur[First]
          BY <1>1, <1>2, <1>7, <2>1, <3>3, PlanRest DEF r
        <4>2. b = cur[First]
          <5>1. b = r.tid
            BY <1>2, <1>14 DEF CoreInv, MessageInv, b, r
          <5> QED BY <4>1, <5>1
        <4>3. ~Owes(t)' /\ ~Checking'
          BY <4>1 DEF Owes, Checking
        <4>4. CASE t = b
          <5>1. Load(t)' = q[First][t] + 0
            BY <1>9, <4>3
          <5>2. q[First][t] + val <= QueueMax - 4 /\ val >= 2
            <6>1. val > 0 /\ val >= 2
              BY <1>4, <1>14, <3>3
            <6>2. q[First][t] \in Nat
              BY <1>9
            <6> QED BY <1>4, <4>4, <6>1, <6>2, AvailableFits
          <5>3. q[First][t] \in Nat /\ Slack(t)' \in 1 .. 3
            BY <1>9
          <5> HIDE DEF Load, Slack
          <5> QED BY <1>1, <1>4, <5>1, <5>2, <5>3
        <4>5. CASE t # b
          <5>1. Slack(t)' = Slack(t)
            BY <1>0, <4>2, <4>5 DEF Slack
          <5> HIDE DEF Load, Slack
          <5> QED BY <1>9, <3>2, <5>1
        <4> QED BY <4>4, <4>5
      <3>4. CASE ~r.pile
        <4>1. ~Checking
          BY <1>14, <3>4 DEF Checking, r
        <4>2. Slack(t)' <= Slack(t)
          BY <1>0, <4>1 DEF Slack
        <4>3. /\ Load(t) <= QueueMax - Slack(t) /\ Slack(t) \in 1 .. 3 /\ Slack(t)' \in 1 .. 3
              /\ q[First][t] \in Nat /\ Load(t) = q[First][t] + (IF Owes(t) THEN 1 ELSE 0)
          BY <1>9
        <4> HIDE DEF Load, Slack, Owes
        <4> QED BY <1>1, <3>2, <4>2, <4>3
      <3> QED BY <3>3, <3>4
    <2> QED BY <1>10, <2>2, <2>3, <2>4
  <1> QED BY <1>12, <1>13, <1>14

\* The answer to any other request.
LEMMA CoreRequestReturn ==
    ASSUME TypeInv, TypeInv', ChannelInv, CoreInv, RaiseFlag1(First), Piled = 0 PROVE CoreInv'
  <1> DEFINE r == Head(Plan)
             val == shm[First].val
  <1>0. /\ fpc[First] = "got" /\ todo' = [todo EXCEPT ![First] = Tail(@)]
        /\ IF r.type = "resume" /\ val \notin Threads
           THEN fpc' = [fpc EXCEPT ![First] = "exited"] /\ UNCHANGED cur
           ELSE /\ fpc' = [fpc EXCEPT ![First] = "run"]
                /\ cur' = IF r.type = "resume" THEN [cur EXCEPT ![First] = val] ELSE cur
        /\ UNCHANGED <<slots, batch, tstat, fresh, created, coreActive, q, bpc, shm>>
    <2>1. ~(batch[First].n > 0)
      BY DEF Piled
    <2> QED BY <2>1 DEF RaiseFlag1, UseReply, Plan, backVars
  <1>1. /\ Plan \in Seq(Rpc) /\ First \in Procs
        /\ cur[First] \in Threads /\ q[First] \in [Threads -> 0 .. QueueMax]
        /\ slots[First] \in [Threads -> Nat] /\ QueueMax \in Nat /\ shm[First] \in Message
        /\ todo \in [Procs -> Seq(Rpc)] /\ fpc \in [Procs -> FrontPc] /\ cur \in [Procs -> Threads]
    BY FirstTypes, HandshakeAssumption DEF TypeInv, TypeOK
  <1>2. Sent /\ Alive /\ Plan # <<>> /\ r.type # "add" /\ r.type # "destructor"
    BY <1>0, FirstTypes DEF Sent, Alive, CoreInv, MessageInv
  <1>3. /\ Len(Plan) \in Nat /\ Len(Plan) >= 1 /\ DOMAIN Plan = 1 .. Len(Plan)
        /\ r = Plan[1] /\ r \in Rpc /\ r.tid \in Threads
    BY <1>1, <1>2, PlanParts
  <1>4. /\ r.type = "set_active" => coreActive[First][r.tid] = r.b
        /\ r.type = "resume" => /\ val \in Threads /\ coreActive[First][val]
                                /\ q[First][val] <= QueueMax \div 2
    <2>1. IsAnswer(shm[First])
      BY <1>0 DEF CoreInv, MessageInv
    <2> QED BY <2>1 DEF IsAnswer
  <1> HIDE DEF r, val
  <1>5. /\ fpc'[First] = "run" /\ Plan' = Tail(Plan)
        /\ r.type = "resume" => cur'[First] = val
        /\ r.type # "resume" => cur' = cur
    BY <1>0, <1>1, <1>4 DEF Plan
  <1>6. Piled' = 0 /\ ~Sent' /\ ~Counted' /\ Alive'
    BY <1>0, <1>5 DEF Piled, Sent, Counted, Alive
  <1>7. MessageInv' /\ EndInv'
    BY <1>5, <1>6 DEF MessageInv, EndInv, FirstNeverExits
  <1>8. PlanShape(Plan, cur[First])
    BY <1>2 DEF CoreInv, PlanInv
  <1>9. PlanInv'
    <2>1. PlanShape(Plan', cur'[First])
      BY <1>1, <1>2, <1>5, <1>8, PlanRest
    <2> QED BY <1>6, <2>1 DEF PlanInv
  <1>10. ActiveInv'
    BY <1>0, <1>2, <1>4, <1>5, ActiveRest DEF r
  <1>11. LoadInv'
    <2>1. ASSUME NEW t \in Threads
          PROVE  /\ slots'[First][t] <= Available(q'[First][t])
                 /\ Load(t)' <= QueueMax - Slack(t)'
      <3>1. /\ slots[First][t] <= Available(q[First][t])
            /\ Load(t) <= QueueMax - Slack(t)
        BY <1>2 DEF CoreInv, LoadInv
      <3>2. Owes(t)' = Owes(t)
        BY <1>2, <1>5, <1>6, OwesRest
      <3>3. /\ Load(t) = q[First][t] + 0 + (IF Owes(t) THEN 1 ELSE 0)
            /\ Load(t)' = q[First][t] + 0 + (IF Owes(t) THEN 1 ELSE 0)
        BY <1>0, <1>6, <3>2 DEF Load
      <3>4. q[First][t] \in Nat /\ Slack(t) \in 1 .. 3 /\ Slack(t)' \in 1 .. 3
        BY <1>1, SlackRange DEF Slack
      <3>5. Slack(t)' <= Slack(t) => Load(t)' <= QueueMax - Slack(t)'
        <4> HIDE DEF Load, Slack, Owes
        <4> QED BY <1>1, <3>1, <3>3, <3>4
      <3>6. CASE r.type = "resume"
        <4>1. CASE t = val
          <5>1. ~Owes(t)
            <6> SUFFICES ASSUME NEW i \in DOMAIN Plan, Plan[i].type = "add", i # 1 PROVE FALSE
              BY <1>2 DEF Owes
            <6>1. 1 < i /\ 1 \in DOMAIN Plan
              BY <1>3
            <6> QED BY <1>3, <1>8, <3>6, <6>1 DEF PlanShape
          <5>2. q[First][t] <= QueueMax - 3
            BY <1>4, <3>4, <3>6, <4>1, HalfFits
          <5>3. Load(t)' = q[First][t] + 0 + 0
            BY <3>3, <5>1
          <5> HIDE DEF Load, Slack
          <5> QED BY <1>0, <1>1, <3>1, <3>4, <5>2, <5>3
        <4>2. CASE t # val
          <5>1. Slack(t)' <= Slack(t)
            BY <1>0, <1>5, <3>6, <4>2 DEF Slack
          <5> HIDE DEF Load, Slack
          <5> QED BY <1>0, <3>1, <3>5, <5>1
        <4> QED BY <4>1, <4>2
      <3>7. CASE r.type # "resume"
        <4>1. ~r.pile
          BY <1>1, <1>2, <1>8, PlanRest DEF r
        <4>2. ~Checking
          BY <3>7, <4>1 DEF Checking, r
        <4>3. Slack(t)' <= Slack(t)
          BY <1>0, <1>5, <3>7, <4>2 DEF Slack
        <4> HIDE DEF Load, Slack
        <4> QED BY <1>0, <3>1, <3>5, <4>3
      <3> QED BY <3>6, <3>7
    <2> QED BY <2>1 DEF LoadInv
  <1> QED BY <1>7, <1>9, <1>10, <1>11 DEF CoreInv

\* The channel's steps of the first process.
LEMMA CoreFront ==
    ASSUME TypeInv, TypeInv', ChannelInv, CoreInv, Front(First) PROVE CoreInv'
  <1>1. CASE RaiseFlag1(First)
    <2>1. Piled > 0 \/ Piled = 0
      BY FirstTypes
    <2> QED BY <1>1, <2>1, CoreBatchReturn, CoreRequestReturn
  <1> QED BY <1>1, CorePile, CoreFlush, CoreLower, CoreSee DEF Front

-----------------------------------------------------------------------------
(* The handlers of the first process.                                      *)

\* What the handlers' plans have in common: an instruction for the running thread
\* and the woken ones, at most; the bits of the woken, the blocked and the ended;
\* and a request for another thread if the running one is blocked or ended, of
\* which there is one unless the request says that the thread was killed.
GoodPlan(rpcs, B, W, K) ==
    /\ PlanShape(rpcs, cur[First]) /\ \A i \in DOMAIN rpcs : ~rpcs[i].pile
    /\ rpcs # <<>> /\ Head(rpcs).type = "add" => Head(rpcs).tid = cur[First]
    /\ \A i \in DOMAIN rpcs : rpcs[i].type = "add" =>
          rpcs[i].tid \in W \/ (rpcs[i].tid = cur[First] /\ K = {})
    /\ \A i \in DOMAIN rpcs : rpcs[i].type = "set_active" =>
          \/ rpcs[i].b /\ rpcs[i].tid \in W
          \/ ~rpcs[i].b /\ rpcs[i].tid \in B \cup K
    /\ \A t \in W \cup B \cup K : \E i \in DOMAIN rpcs :
          rpcs[i].type = "set_active" /\ rpcs[i].tid = t
    /\ cur[First] \in B \cup K =>
          /\ \E i \in DOMAIN rpcs : rpcs[i].type \in {"resume", "destructor"}
          /\ \/ \E t \in Threads : t # cur[First] /\ (tstat[First][t] = "active" \/ t \in W)
             \/ rpcs # <<>> /\ rpcs[Len(rpcs)].type = "destructor"
             \/ rpcs # <<>> /\ rpcs[Len(rpcs)].type = "resume" /\ rpcs[Len(rpcs)].b

\* A handler with such a plan keeps the invariant.
LEMMA CoreHandler ==
    ASSUME TypeInv, TypeInv', NumberInv, CoreInv, Calls(First), NEW rpcs \in Seq(Rpc),
           NEW B \in SUBSET {cur[First]}, NEW W \in SUBSET Threads, NEW K \in SUBSET Threads,
           B = {} \/ K = {}, K \cap W = {}, Handler(First, rpcs, B, W, K),
           \A w \in W : tstat[First][w] = "blocked",
           \A k \in K : tstat[First][k] # "none",
           \A k \in K : cur[First] \in B \cup K => k = cur[First],
           GoodPlan(rpcs, B, W, K)
    PROVE  CoreInv'
  <1> DEFINE c == cur[First]
             S == Restate(First, B, W, K)
  <1> USE DEF GoodPlan
  <1>0. /\ fpc[First] = "run" /\ Plan = <<>> /\ tstat[First][c] = "active" /\ fresh[First][c]
    BY DEF Calls, Idle, Plan
  <1>1. /\ First \in Procs /\ c \in Threads /\ Piled \in Nat
        /\ tstat[First] \in [Threads -> {"none", "active", "blocked"}]
        /\ fresh[First] \in [Threads -> BOOLEAN] /\ created[First] \in Nat
        /\ q[First] \in [Threads -> 0 .. QueueMax] /\ QueueMax \in Nat
    BY FirstTypes, HandshakeAssumption DEF TypeInv, TypeOK
  <1>2. /\ Plan' = rpcs /\ tstat'[First] = S
        /\ fresh'[First] = [t \in Threads |-> fresh[First][t] /\ t # c]
        /\ UNCHANGED <<fpc, batch, slots, cur, created, q, coreActive, bpc>>
    BY <1>1 DEF Handler, TypeInv, TypeOK, Plan, backVars
  <1>3. /\ Piled' = Piled /\ Alive /\ Alive' /\ ~Sent /\ ~Sent' /\ ~Counted /\ ~Counted'
    BY <1>0, <1>2 DEF Piled, Alive, Sent, Counted
  <1>4. ASSUME NEW t \in Threads
        PROVE  S[t] = IF t \in K THEN "none" ELSE IF t \in B THEN "blocked"
                      ELSE IF t \in W THEN "active" ELSE tstat[First][t]
    <2>1. S[t] = CASE t \in K -> "none" [] t \in B -> "blocked" [] t \in W -> "active"
                   [] OTHER -> tstat[First][t]
      BY DEF Restate
    <2>2. t \notin B \/ t = c
      OBVIOUS
    <2>3. c \notin W
      BY <1>0
    <2>4. ~(t \in B /\ t \in K) /\ ~(t \in W /\ t \in K)
      OBVIOUS
    <2> QED BY <2>1, <2>2, <2>3, <2>4
  <1>5. c \notin W
    BY <1>0
  <1> HIDE DEF S, c
  <1>6. PlanInv'
    <2>1. PlanShape(Plan', cur'[First])
      BY <1>2 DEF c
    <2>2. Piled > 0 => batch[First].tid = cur[First]
      BY <1>0, <1>3 DEF CoreInv, PlanInv
    <2> QED BY <1>2, <1>3, <2>1, <2>2 DEF PlanInv
  <1>7. MessageInv' /\ EndInv'
    BY <1>0, <1>2, <1>3 DEF MessageInv, EndInv, FirstNeverExits, Sent
  <1>8. ActiveInv'
    <2>1. \A t \in Threads : coreActive[First][t] <=> tstat[First][t] = "active"
      BY <1>0, <1>3 DEF CoreInv, ActiveInv
    <2>2. ASSUME NEW i \in DOMAIN rpcs, rpcs[i].type = "set_active"
          PROVE  rpcs[i].b <=> S[rpcs[i].tid] = "active"
      <3>1. CASE rpcs[i].b /\ rpcs[i].tid \in W
        <4>1. rpcs[i].tid \in Threads /\ rpcs[i].tid \notin B \cup K
          BY <1>5, <3>1 DEF c
        <4> QED BY <1>4, <3>1, <4>1
      <3>2. CASE ~rpcs[i].b /\ rpcs[i].tid \in B \cup K
        <4>1. rpcs[i].tid \in Threads
          BY <1>1, <3>2 DEF c
        <4> QED BY <1>4, <3>2, <4>1
      <3> QED BY <2>2, <3>1, <3>2
    <2>3. ASSUME NEW t \in Threads
          PROVE  \/ coreActive[First][t] <=> S[t] = "active"
                 \/ \E i \in DOMAIN rpcs : rpcs[i].type = "set_active" /\ rpcs[i].tid = t
      <3>1. CASE t \in W \cup B \cup K
        BY <3>1
      <3>2. CASE t \notin W \cup B \cup K
        BY <1>4, <2>1, <3>2
      <3> QED BY <3>1, <3>2
    <2>4. \/ S[c] = "active"
          \/ \E i \in DOMAIN rpcs : rpcs[i].type \in {"resume", "destructor"}
      <3>1. CASE c \in B \cup K
        BY <3>1 DEF c
      <3>2. CASE c \notin B \cup K
        BY <1>0, <1>1, <1>4, <1>5, <3>2
      <3> QED BY <3>1, <3>2
    <2>5. \/ \E t \in Threads : S[t] = "active"
          \/ rpcs # <<>> /\ rpcs[Len(rpcs)].type = "destructor"
          \/ rpcs # <<>> /\ rpcs[Len(rpcs)].type = "resume" /\ rpcs[Len(rpcs)].b
      <3>1. CASE c \notin B \cup K
        BY <1>0, <1>1, <1>4, <1>5, <3>1
      <3>2. ASSUME NEW t \in Threads, t # cur[First], tstat[First][t] = "active" \/ t \in W,
                   cur[First] \in B \cup K
            PROVE  S[t] = "active"
        BY <1>4, <3>2
      <3> QED BY <3>1, <3>2 DEF c
    <2>6. coreActive[First][c]
      BY <1>0, <1>1, <2>1
    <2> QED BY <1>2, <2>2, <2>3, <2>4, <2>5, <2>6 DEF ActiveInv, c
  <1>9. LoadInv'
    <2>1. ASSUME NEW t \in Threads
          PROVE  /\ slots'[First][t] <= Available(q'[First][t])
                 /\ Load(t)' <= QueueMax - Slack(t)'
      <3>1. /\ slots[First][t] <= Available(q[First][t])
            /\ Load(t) <= QueueMax - Slack(t)
        BY <1>3 DEF CoreInv, LoadInv
      <3> DEFINE x == q[First][t] + (IF Piled > 0 /\ batch[First].tid = t THEN Piled ELSE 0)
      <3>2. x \in Int /\ Load(t) = x + 0 /\ Load(t)' = x + (IF Owes(t)' THEN 1 ELSE 0)
        <4>1. ~Owes(t)
          BY <1>0 DEF Owes
        <4>2. q[First][t] \in Nat
          BY <1>1
        <4> QED BY <1>1, <1>2, <1>3, <4>1, <4>2 DEF Load
      <3>3. Owes(t)' => t \in W \/ (t = c /\ K = {})
        BY <1>2 DEF Owes, c
      <3>4. Slack(t) \in 1 .. 3 /\ Slack(t)' \in 1 .. 3
        BY SlackRange DEF Slack
      <3>5. ~Checking
        BY <1>0 DEF Checking
      <3>6. Owes(t)' => Slack(t)' + 1 <= Slack(t)
        <4>1. CASE t \in W
          <5>1. Slack(t) = 2
            BY <4>1 DEF Slack
          <5>2. tstat'[First][t] = "active" /\ t # cur'[First]
            BY <1>2, <1>4, <1>5, <4>1 DEF c
          <5>3. Slack(t)' = 1
            BY <5>2 DEF Slack
          <5> QED BY <5>1, <5>3
        <4>2. CASE t = c /\ K = {}
          <5>1. Slack(t) = 3
            BY <1>0, <3>5, <4>2 DEF Slack, c
          <5>2. tstat'[First][t] \in {"active", "blocked"} /\ ~fresh'[First][t]
            BY <1>0, <1>1, <1>2, <1>4, <4>2
          <5>3. Slack(t)' \in {1, 2}
            BY <5>2 DEF Slack
          <5> QED BY <5>1, <5>3
        <4> QED BY <3>3, <4>1, <4>2
      <3>7. ~Owes(t)' => Slack(t)' <= Slack(t)
        <4>1. CASE t \in W
          <5>1. tstat'[First][t] = "active" /\ t # cur'[First]
            BY <1>2, <1>4, <1>5, <4>1 DEF c
          <5>2. Slack(t)' = 1
            BY <5>1 DEF Slack
          <5> QED BY <3>4, <5>2
        <4>2. CASE t = c
          <5>1. Slack(t) = 3
            BY <1>0, <3>5, <4>2 DEF Slack, c
          <5> QED BY <3>4, <5>1
        <4>3. CASE t \notin W \cup K /\ t # c
          <5>1. tstat'[First][t] = tstat[First][t]
            BY <1>2, <1>4, <4>3 DEF c
          <5>2. fresh'[First][t] = fresh[First][t]
            BY <1>1, <1>2, <4>3
          <5> QED BY <1>2, <4>3, <5>1, <5>2 DEF Slack, c
        <4>4. CASE t \in K
          <5>1. tstat'[First][t] = "none"
            BY <1>2, <1>4, <4>4
          <5>2. t <= created[First] /\ t \in Int
            BY <4>4 DEF NumberInv, Threads
          <5>3. ~(t > created'[First])
            BY <1>1, <1>2, <5>2
          <5>4. Slack(t)' = 1
            BY <5>1, <5>3 DEF Slack
          <5> QED BY <3>4, <5>4
        <4> QED BY <4>1, <4>2, <4>3, <4>4
      <3> HIDE DEF Load, Slack, Owes, x
      <3>8. Load(t)' <= QueueMax - Slack(t)'
        BY <1>1, <3>1, <3>2, <3>4, <3>6, <3>7
      <3> QED BY <1>2, <3>1, <3>8
    <2> QED BY <2>1 DEF LoadInv
  <1> QED BY <1>6, <1>7, <1>8, <1>9 DEF CoreInv

\* UnblockThread activates the core of each thread, then sends its instruction.
LEMMA UnblockElements ==
    ASSUME NEW ws \in Seq(Threads)
    PROVE  /\ Unblock(ws) \in Seq(Rpc) /\ Len(Unblock(ws)) = 2 * Len(ws)
           /\ \A j \in 1 .. 2 * Len(ws) : \E k \in 1 .. Len(ws) :
                 \/ j = 2 * k - 1 /\ Unblock(ws)[j] = SetActive(ws[k], TRUE)
                 \/ j = 2 * k /\ Unblock(ws)[j] = Add(ws[k], FALSE)
           /\ \A k \in 1 .. Len(ws) : Unblock(ws)[2 * k - 1] = SetActive(ws[k], TRUE)
  <1>1. Unblock(ws) \in Seq(Rpc)
    BY UnblockTyped
  <1>2. Len(ws) \in Nat
    OBVIOUS
  <1>3. DOMAIN Unblock(ws) = 1 .. 2 * Len(ws)
    BY DEF Unblock
  <1>4. Len(Unblock(ws)) = 2 * Len(ws)
    <2>1. DOMAIN Unblock(ws) = 1 .. Len(Unblock(ws)) /\ Len(Unblock(ws)) \in Nat
      BY <1>1
    <2> HIDE DEF Unblock
    <2> QED BY <1>2, <1>3, <2>1
  <1>5. ASSUME NEW j \in 1 .. 2 * Len(ws)
        PROVE  Unblock(ws)[j] = IF j % 2 = 1 THEN SetActive(ws[(j + 1) \div 2], TRUE)
                                             ELSE Add(ws[j \div 2], FALSE)
    BY DEF Unblock
  <1>6. ASSUME NEW j \in 1 .. 2 * Len(ws)
        PROVE  \E k \in 1 .. Len(ws) :
                 \/ j = 2 * k - 1 /\ Unblock(ws)[j] = SetActive(ws[k], TRUE)
                 \/ j = 2 * k /\ Unblock(ws)[j] = Add(ws[k], FALSE)
    <2>1. CASE j % 2 = 1
      <3>1. (j + 1) \div 2 \in 1 .. Len(ws) /\ j = 2 * ((j + 1) \div 2) - 1
        BY <1>2, <2>1
      <3> QED BY <1>5, <2>1, <3>1
    <2>2. CASE j % 2 # 1
      <3>1. j \div 2 \in 1 .. Len(ws) /\ j = 2 * (j \div 2)
        BY <1>2, <2>2
      <3> QED BY <1>5, <2>2, <3>1
    <2> QED BY <2>1, <2>2
  <1>7. ASSUME NEW k \in 1 .. Len(ws) PROVE Unblock(ws)[2 * k - 1] = SetActive(ws[k], TRUE)
    <2>1. 2 * k - 1 \in 1 .. 2 * Len(ws) /\ (2 * k - 1) % 2 = 1 /\ ((2 * k - 1) + 1) \div 2 = k
      BY <1>2
    <2> QED BY <1>5, <2>1
  <1> HIDE DEF Unblock
  <1> QED BY <1>1, <1>4, <1>6, <1>7

\* How a call ends that blocks thread d or ends it: its core is deactivated, and
\* another thread asked for when it is the running one.
Stops(z, d) ==
    /\ \A i \in DOMAIN z : /\ ~z[i].pile /\ z[i].type # "add" /\ z[i].type # "destructor"
                           /\ z[i].type = "set_active" => ~z[i].b /\ z[i].tid = d
                           /\ z[i].type = "resume" => i = Len(z)
    /\ z # <<>> => \E i \in DOMAIN z : z[i].type = "set_active" /\ z[i].tid = d

\* s is the instruction of the call, a; the wake-up of the threads of ws; and z.
OwnCall(a, c) == a \in {<<>>, <<Add(c, FALSE)>>}
HasParts(s, a, ws, z, c, m) ==
    /\ s \in Seq(Rpc) /\ Len(a) \in {0, 1} /\ Len(s) = m + Len(z)
    /\ \A i \in 1 .. Len(s) :
          \/ i = 1 /\ Len(a) = 1 /\ s[i] = Add(c, FALSE)
          \/ \E k \in 1 .. Len(ws) : i = Len(a) + 2 * k - 1 /\ s[i] = SetActive(ws[k], TRUE)
          \/ \E k \in 1 .. Len(ws) : i = Len(a) + 2 * k /\ s[i] = Add(ws[k], FALSE)
          \/ i - m \in 1 .. Len(z) /\ s[i] = z[i - m]
    /\ \A k \in 1 .. Len(ws) : s[Len(a) + 2 * k - 1] = SetActive(ws[k], TRUE)
    /\ \A i \in 1 .. Len(z) : s[m + i] = z[i]

\* The plans of the handlers but pthread_create and the end of the process: the
\* instruction of the call, the threads it wakes, and its end.
LEMMA HandlerParts ==
    ASSUME NEW c \in Threads, NEW ws \in Seq(Threads), NEW a, OwnCall(a, c),
           NEW z \in Seq(Rpc), NEW s, s = (a \o Unblock(ws)) \o z,
           NEW m, m = Len(a) + 2 * Len(ws)
    PROVE  HasParts(s, a, ws, z, c, m)
  <1>0. a \in {<<>>, <<Add(c, FALSE)>>}
    BY DEF OwnCall
  <1> DEFINE u == Unblock(ws)
  <1>1. /\ u \in Seq(Rpc) /\ Len(u) = 2 * Len(ws)
        /\ \A j \in 1 .. 2 * Len(ws) : \E k \in 1 .. Len(ws) :
                 \/ j = 2 * k - 1 /\ u[j] = SetActive(ws[k], TRUE)
                 \/ j = 2 * k /\ u[j] = Add(ws[k], FALSE)
        /\ \A k \in 1 .. Len(ws) : u[2 * k - 1] = SetActive(ws[k], TRUE)
    BY UnblockElements
  <1>2. a \in Seq(Rpc)
    BY <1>0, PlansTyped, EmptySeq, Zenon
  <1>3. Len(a) \in {0, 1} /\ (Len(a) = 1 => a[1] = Add(c, FALSE))
    <2>1. CASE a = <<>>
      BY <2>1
    <2>2. CASE a = <<Add(c, FALSE)>>
      BY <2>2
    <2> QED BY <1>0, <2>1, <2>2
  <1>4. Len(ws) \in Nat /\ Len(z) \in Nat
    OBVIOUS
  <1> HIDE DEF u
  <1>5. /\ a \o u \in Seq(Rpc) /\ Len(a \o u) = m
        /\ \A i \in 1 .. m : (a \o u)[i] = IF i <= Len(a) THEN a[i] ELSE u[i - Len(a)]
    <2>1. /\ a \o u \in Seq(Rpc) /\ Len(a \o u) = Len(a) + Len(u)
          /\ \A i \in 1 .. Len(a) + Len(u) : (a \o u)[i] =
                IF i <= Len(a) THEN a[i] ELSE u[i - Len(a)]
      BY <1>1, <1>2, ConcatProperties, Zenon
    <2>2. Len(a) + Len(u) = m
      BY <1>1, Zenon
    <2> QED BY <2>1, <2>2, Zenon
  <1> DEFINE au == a \o u
  <1> HIDE DEF au
  <1>6. /\ s \in Seq(Rpc) /\ Len(s) = m + Len(z)
        /\ \A i \in 1 .. m + Len(z) : s[i] = IF i <= m THEN au[i] ELSE z[i - m]
    <2>1. au \in Seq(Rpc) /\ Len(au) = m
      BY <1>5 DEF au
    <2>2. /\ au \o z \in Seq(Rpc) /\ Len(au \o z) = Len(au) + Len(z)
          /\ \A i \in 1 .. Len(au) + Len(z) : (au \o z)[i] =
                IF i <= Len(au) THEN au[i] ELSE z[i - Len(au)]
      BY <2>1, ConcatProperties, Zenon
    <2>3. s = au \o z
      BY DEF au, u
    <2> QED BY <2>1, <2>2, <2>3, Zenon
  <1>7. ASSUME NEW i \in 1 .. Len(s)
        PROVE  \/ i = 1 /\ Len(a) = 1 /\ s[i] = Add(c, FALSE)
               \/ \E k \in 1 .. Len(ws) : i = Len(a) + 2 * k - 1 /\ s[i] = SetActive(ws[k], TRUE)
               \/ \E k \in 1 .. Len(ws) : i = Len(a) + 2 * k /\ s[i] = Add(ws[k], FALSE)
               \/ i - m \in 1 .. Len(z) /\ s[i] = z[i - m]
    <2>1. CASE i <= Len(a)
      <3>1. i = 1 /\ Len(a) = 1 /\ i <= m /\ i \in 1 .. m /\ i \in 1 .. m + Len(z)
        <4>1. Len(s) = m + Len(z)
          BY <1>6
        <4>2. Len(a) = 1 /\ i = 1
          <5>1. Len(s) \in Int /\ Len(a) \in {0, 1}
            BY <1>3, <1>4, <4>1
          <5>2. i \in Int /\ 1 <= i
            BY <5>1
          <5>3. \A x \in Int : \A y \in {0, 1} : 1 <= x /\ x <= y => y = 1 /\ x = 1
            OBVIOUS
          <5> QED BY <2>1, <5>1, <5>2, <5>3, Zenon
        <4> QED BY <1>4, <4>2
      <3> QED BY <1>3, <1>5, <1>6, <2>1, <3>1 DEF au
    <2>2. CASE i > Len(a) /\ i <= m
      <3>1. /\ i - Len(a) \in 1 .. 2 * Len(ws) /\ i \in 1 .. m /\ i \in 1 .. m + Len(z)
            /\ ~(i <= Len(a))
        BY <1>3, <1>4, <2>2
      <3>2. s[i] = u[i - Len(a)]
        BY <1>5, <1>6, <2>2, <3>1 DEF au
      <3>3. PICK k \in 1 .. Len(ws) :
               \/ i - Len(a) = 2 * k - 1 /\ u[i - Len(a)] = SetActive(ws[k], TRUE)
               \/ i - Len(a) = 2 * k /\ u[i - Len(a)] = Add(ws[k], FALSE)
        BY <1>1, <3>1
      <3>4. /\ i - Len(a) = 2 * k - 1 => i = Len(a) + 2 * k - 1
            /\ i - Len(a) = 2 * k => i = Len(a) + 2 * k
        BY <1>3
      <3> QED BY <3>2, <3>3, <3>4
    <2>3. CASE i > m
      <3>1. i \in 1 .. m + Len(z) /\ i - m \in 1 .. Len(z) /\ ~(i <= m)
        BY <1>3, <1>4, <1>6, <2>3
      <3> QED BY <1>6, <3>1
    <2>4. i \in Int /\ m \in Int /\ Len(a) \in Int
      BY <1>3, <1>4, <1>6
    <2>5. i <= Len(a) \/ (i > Len(a) /\ i <= m) \/ i > m
      BY <2>4
    <2> QED BY <2>1, <2>2, <2>3, <2>5
  <1>8. ASSUME NEW k \in 1 .. Len(ws) PROVE s[Len(a) + 2 * k - 1] = SetActive(ws[k], TRUE)
    <2> DEFINE i == Len(a) + 2 * k - 1
    <2>1. /\ i \in 1 .. m /\ i \in 1 .. m + Len(z) /\ i <= m /\ ~(i <= Len(a))
          /\ i - Len(a) = 2 * k - 1
      BY <1>3, <1>4
    <2>2. s[i] = u[2 * k - 1]
      <3> HIDE DEF i
      <3> QED BY <1>5, <1>6, <2>1 DEF au
    <2> QED BY <1>1, <2>2
  <1>9. ASSUME NEW i \in 1 .. Len(z) PROVE s[m + i] = z[i]
    <2>1. m + i \in 1 .. m + Len(z) /\ ~(m + i <= m) /\ (m + i) - m = i
      BY <1>3, <1>4
    <2> QED BY <1>6, <2>1
  <1> QED BY <1>3, <1>6, <1>7, <1>8, <1>9 DEF HasParts

\* What GoodPlan asks of such a plan.
CallPlan(s, a, ws, z, c, d) ==
    /\ s \in Seq(Rpc) /\ PlanShape(s, c) /\ \A i \in DOMAIN s : ~s[i].pile
    /\ s # <<>> /\ Head(s).type = "add" => Head(s).tid = c
    /\ \A i \in DOMAIN s : s[i].type = "add" =>
          s[i].tid \in Members(ws) \/ (s[i].tid = c /\ a # <<>>)
    /\ \A i \in DOMAIN s : s[i].type = "set_active" =>
          \/ s[i].b /\ s[i].tid \in Members(ws)
          \/ ~s[i].b /\ s[i].tid = d /\ z # <<>>
    /\ \A t \in Members(ws) : \E i \in DOMAIN s : s[i].type = "set_active" /\ s[i].tid = t
    /\ z # <<>> => /\ \E i \in DOMAIN s : s[i].type = "set_active" /\ s[i].tid = d
                   /\ s # <<>> /\ Len(s) \in DOMAIN s /\ s[Len(s)] = z[Len(z)]

\* ws is a sequence of different threads other than c.
OtherThreads(ws, c) ==
    /\ ws \in Seq(Threads) /\ \A i \in 1 .. Len(ws) : ws[i] # c
    /\ \A i, j \in 1 .. Len(ws) : ws[i] = ws[j] => i = j

\* The three parts make such a plan.
LEMMA HandlerPlan ==
    ASSUME NEW c \in Threads, NEW ws, OtherThreads(ws, c), NEW a, OwnCall(a, c),
           NEW z \in Seq(Rpc), NEW d \in Threads, Stops(z, d), NEW s, s = (a \o Unblock(ws)) \o z
    PROVE  CallPlan(s, a, ws, z, c, d)
  <1>   /\ ws \in Seq(Threads) /\ \A i \in 1 .. Len(ws) : ws[i] # c
        /\ \A i, j \in 1 .. Len(ws) : ws[i] = ws[j] => i = j
    BY DEF OtherThreads
  <1> DEFINE la == Len(a)
             lw == Len(ws)
             lz == Len(z)
             m  == la + 2 * lw
             Own(i) == i = 1 /\ la = 1 /\ s[i] = Add(c, FALSE)
             On(i)  == \E k \in 1 .. lw : i = la + 2 * k - 1 /\ s[i] = SetActive(ws[k], TRUE)
             Its(i) == \E k \in 1 .. lw : i = la + 2 * k /\ s[i] = Add(ws[k], FALSE)
             End(i) == i - m \in 1 .. lz /\ s[i] = z[i - m]
  <1>1. /\ s \in Seq(Rpc) /\ la \in {0, 1} /\ Len(s) = m + lz
        /\ \A i \in 1 .. Len(s) : Own(i) \/ On(i) \/ Its(i) \/ End(i)
        /\ \A k \in 1 .. lw : s[la + 2 * k - 1] = SetActive(ws[k], TRUE)
        /\ \A i \in 1 .. lz : s[m + i] = z[i]
    <2>1. m = Len(a) + 2 * Len(ws)
      OBVIOUS
    <2> HIDE DEF m
    <2>2. HasParts(s, a, ws, z, c, m)
      BY <2>1, HandlerParts
    <2> QED BY <2>2 DEF HasParts
  <1>2. /\ lw \in Nat /\ lz \in Nat /\ DOMAIN s = 1 .. Len(s) /\ DOMAIN z = 1 .. lz
        /\ DOMAIN ws = 1 .. lw /\ (la = 1 => a # <<>>)
    <2>1. a = <<>> => la = 0
      OBVIOUS
    <2>2. 0 # 1
      OBVIOUS
    <2>3. la = 1 => a # <<>>
      BY <2>1, <2>2, Zenon
    <2>4. DOMAIN s = 1 .. Len(s)
      BY <1>1
    <2> QED BY <2>3, <2>4
  <1>3. \A t : /\ Add(t, FALSE).type = "add" /\ Add(t, FALSE).tid = t /\ ~Add(t, FALSE).pile
              /\ SetActive(t, TRUE).type = "set_active" /\ SetActive(t, TRUE).tid = t
              /\ SetActive(t, TRUE).b /\ ~SetActive(t, TRUE).pile
    BY DEF Add, SetActive
  <1>4. \A i \in 1 .. lw : ws[i] \in Members(ws) /\ ws[i] # c
    BY <1>2 DEF Members
  <1>5. ASSUME NEW i \in 1 .. lz
        PROVE  /\ ~z[i].pile /\ z[i].type # "add" /\ z[i].type # "destructor"
               /\ z[i].type = "set_active" => ~z[i].b /\ z[i].tid = d
               /\ z[i].type = "resume" => i = lz
               /\ z # <<>>
    <2>1. i \in DOMAIN z
      BY <1>2
    <2>2. z # <<>>
      BY <1>2, <2>1
    <2> QED BY <2>1, <2>2 DEF Stops
  <1>6. ASSUME NEW i \in 1 .. Len(s)
        PROVE  /\ Own(i) => s[i].type = "add" /\ s[i].tid = c /\ ~s[i].pile /\ a # <<>>
               /\ On(i) => /\ s[i].type = "set_active" /\ s[i].b /\ ~s[i].pile
                           /\ s[i].tid \in Members(ws)
               /\ Its(i) => s[i].type = "add" /\ ~s[i].pile /\ s[i].tid \in Members(ws)
               /\ End(i) => /\ s[i].type # "add" /\ ~s[i].pile /\ s[i].type # "destructor"
                            /\ s[i].type = "set_active" => ~s[i].b /\ s[i].tid = d
                            /\ s[i].type = "resume" => i - m = lz
                            /\ z # <<>>
    <2> HIDE DEF la, lw, lz, m
    <2>1. Own(i) => s[i].type = "add" /\ s[i].tid = c /\ ~s[i].pile /\ a # <<>>
      BY <1>2, <1>3, Zenon
    <2>2. On(i) => /\ s[i].type = "set_active" /\ s[i].b /\ ~s[i].pile
                   /\ s[i].tid \in Members(ws)
      <3> SUFFICES ASSUME NEW k \in 1 .. lw, s[i] = SetActive(ws[k], TRUE)
                   PROVE  /\ s[i].type = "set_active" /\ s[i].b /\ ~s[i].pile
                          /\ s[i].tid \in Members(ws)
        OBVIOUS
      <3>1. /\ SetActive(ws[k], TRUE).type = "set_active" /\ SetActive(ws[k], TRUE).b
            /\ ~SetActive(ws[k], TRUE).pile /\ SetActive(ws[k], TRUE).tid = ws[k]
        BY <1>3, Zenon
      <3> QED BY <1>4, <3>1
    <2>3. Its(i) => s[i].type = "add" /\ ~s[i].pile /\ s[i].tid \in Members(ws)
      <3> SUFFICES ASSUME NEW k \in 1 .. lw, s[i] = Add(ws[k], FALSE)
                   PROVE  s[i].type = "add" /\ ~s[i].pile /\ s[i].tid \in Members(ws)
        OBVIOUS
      <3>1. /\ Add(ws[k], FALSE).type = "add" /\ ~Add(ws[k], FALSE).pile
            /\ Add(ws[k], FALSE).tid = ws[k]
        BY <1>3, Zenon
      <3> QED BY <1>4, <3>1
    <2>4. End(i) => /\ s[i].type # "add" /\ ~s[i].pile /\ s[i].type # "destructor"
                    /\ s[i].type = "set_active" => ~s[i].b /\ s[i].tid = d
                    /\ s[i].type = "resume" => i - m = lz
                    /\ z # <<>>
      BY <1>5
    <2> QED BY <2>1, <2>2, <2>3, <2>4
  <1> HIDE DEF la, lw, lz
  <1>7. \A i \in DOMAIN s : ~s[i].pile
    <2> HIDE DEF Own, On, Its, End
    <2> QED BY <1>1, <1>2, <1>6, Zenon
  <1>8. \A i \in DOMAIN s : s[i].type = "add" =>
                 s[i].tid \in Members(ws) \/ (s[i].tid = c /\ a # <<>>)
    <2> HIDE DEF Own, On, Its, End
    <2> QED BY <1>1, <1>2, <1>6
  <1>9. \A i \in DOMAIN s : s[i].type = "set_active" =>
                 \/ s[i].b /\ s[i].tid \in Members(ws)
                 \/ ~s[i].b /\ s[i].tid = d /\ z # <<>>
    <2> HIDE DEF Own, On, Its, End
    <2> QED BY <1>1, <1>2, <1>6
  <1>10. ASSUME s # <<>>, Head(s).type = "add" PROVE Head(s).tid = c
    <2>1. Head(s) = s[1] /\ 1 \in 1 .. Len(s)
      BY <1>1, <1>10
    <2>2. ~On(1) /\ ~End(1)
      <3> HIDE DEF Own, On, Its, End
      <3> QED BY <1>6, <1>10, <2>1
    <2>3. ~Its(1)
      <3> SUFFICES ASSUME NEW k \in 1 .. lw, 1 = la + 2 * k PROVE FALSE
        OBVIOUS
      <3> QED BY <1>1, <1>2
    <2> HIDE DEF Own, On, Its, End
    <2> QED BY <1>1, <1>6, <2>1, <2>2, <2>3
  <1>11. ASSUME NEW t \in Members(ws)
         PROVE  \E i \in DOMAIN s : s[i].type = "set_active" /\ s[i].tid = t
    <2>1. PICK k \in 1 .. lw : t = ws[k]
      BY <1>2 DEF Members
    <2>2. la + 2 * k - 1 \in DOMAIN s
      BY <1>1, <1>2
    <2>3. s[la + 2 * k - 1] = SetActive(ws[k], TRUE)
      BY <1>1
    <2> QED BY <1>3, <2>1, <2>2, <2>3
  <1>12. ASSUME z # <<>>
         PROVE  /\ \E i \in DOMAIN s : s[i].type = "set_active" /\ s[i].tid = d
                /\ s # <<>> /\ Len(s) \in DOMAIN s /\ s[Len(s)] = z[lz]
    <2>1. PICK i \in 1 .. lz : z[i].type = "set_active" /\ z[i].tid = d
      BY <1>2, <1>12 DEF Stops
    <2>2. lz \in 1 .. lz
      BY <1>2, <2>1
    <2>3. \A j \in 1 .. lz : m + j \in DOMAIN s /\ s[m + j] = z[j]
      BY <1>1, <1>2
    <2>4. Len(s) = m + lz /\ s # <<>>
      <3>1. DOMAIN s # {}
        BY <2>2, <2>3
      <3> QED BY <1>1, <3>1
    <2> HIDE DEF m
    <2> QED BY <2>1, <2>2, <2>3, <2>4
  <1>13. ASSUME NEW i \in DOMAIN s, NEW j \in DOMAIN s, s[i].type = "add",
                s[j].type = "add", s[i].tid = s[j].tid
         PROVE  i = j
    <2>1. (Own(i) \/ Its(i)) /\ (Own(j) \/ Its(j))
      <3> HIDE DEF Own, On, Its, End
      <3>1. i \in 1 .. Len(s) /\ j \in 1 .. Len(s)
        BY <1>2
      <3>2. ~On(i) /\ ~End(i) /\ ~On(j) /\ ~End(j)
        BY <1>6, <1>13, <3>1
      <3> QED BY <1>1, <3>1, <3>2
    <2>2. CASE Own(i) /\ Own(j)
      BY <2>2
    <2>3. CASE Own(i) /\ Its(j)
      <3>1. PICK k \in 1 .. lw : s[j] = Add(ws[k], FALSE)
        BY <2>3
      <3>2. s[i].tid = c /\ s[j].tid = ws[k]
        BY <1>3, <2>3, <3>1
      <3> QED BY <1>4, <1>13, <3>2
    <2>4. CASE Its(i) /\ Own(j)
      <3>1. PICK k \in 1 .. lw : s[i] = Add(ws[k], FALSE)
        BY <2>4
      <3>2. s[j].tid = c /\ s[i].tid = ws[k]
        BY <1>3, <2>4, <3>1
      <3> QED BY <1>4, <1>13, <3>2
    <2>5. CASE Its(i) /\ Its(j)
      <3>1. PICK k \in 1 .. lw : i = la + 2 * k /\ s[i] = Add(ws[k], FALSE)
        BY <2>5
      <3>2. PICK l \in 1 .. lw : j = la + 2 * l /\ s[j] = Add(ws[l], FALSE)
        BY <2>5
      <3>3. ws[k] = ws[l]
        BY <1>3, <1>13, <3>1, <3>2
      <3>4. k = l
        BY <3>3 DEF lw
      <3> QED BY <3>1, <3>2, <3>4
    <2> QED BY <2>1, <2>2, <2>3, <2>4, <2>5
  <1>14. ASSUME NEW i \in DOMAIN s, s[i].type = "resume"
         PROVE  i = Len(s)
    <2>1. End(i)
      <3>1. i \in 1 .. Len(s)
        BY <1>2
      <3> HIDE DEF Own, On, Its, End
      <3> QED BY <1>1, <1>6, <1>14, <3>1
    <2>2. i - m = lz
      <3> HIDE DEF Own, On, Its, End
      <3> QED BY <1>2, <1>6, <1>14, <2>1
    <2> QED BY <1>1, <1>2, <2>2
  <1>15. PlanShape(s, c)
    <2>1. \A i, j \in DOMAIN s : i = Len(s) => ~(i < j)
      BY <1>1, <1>2
    <2> QED BY <1>7, <1>13, <1>14, <2>1 DEF PlanShape
  <1> QED BY <1>1, <1>7, <1>8, <1>9, <1>10, <1>11, <1>12, <1>15 DEF CallPlan, lz

\* ws is a sequence of different blocked threads.
Wakes(ws) ==
    /\ ws \in Seq(Threads)
    /\ \A i \in 1 .. Len(ws) : tstat[First][ws[i]] = "blocked"
    /\ \A i, j \in 1 .. Len(ws) : ws[i] = ws[j] => i = j

\* The sequences a handler may wake are such sequences, and so is the empty one.
LEMMA WakeableWakes ==
    /\ Wakes(<<>>) /\ Unblock(<<>>) = <<>> /\ Members(<<>>) = {}
    /\ \A n \in Int : \A ws \in Wakeable(First, n) : Wakes(ws)
  <1>1. Wakes(<<>>)
    BY DEF Wakes
  <1>2. Unblock(<<>>) = <<>>
    <2>1. <<>> \in Seq(Threads) /\ Len(<<>>) = 0
      OBVIOUS
    <2>2. Unblock(<<>>) \in Seq(Rpc) /\ Len(Unblock(<<>>)) = 2 * Len(<<>>)
      BY <2>1, UnblockElements
    <2>3. Len(Unblock(<<>>)) = 0
      BY <2>1, <2>2
    <2> HIDE DEF Unblock
    <2> QED BY <2>2, <2>3
  <1>3. Members(<<>>) = {}
    BY DEF Members
  <1>4. ASSUME NEW n \in Int, NEW ws \in Wakeable(First, n) PROVE Wakes(ws)
    <2>1. ws \in Seq(Threads) /\ DOMAIN ws = 1 .. Len(ws)
      BY WakeableTyped
    <2> QED BY <2>1 DEF Wakes, Wakeable
  <1> QED BY <1>1, <1>2, <1>3, <1>4

\* The plan ends with z if the call stops thread d: it blocks the threads of B, the
\* running one or none, or ends those of K; a call that ends one sends nothing.
\* Another thread stays active when the running one is stopped, or nobody asks.
StopsFor(ws, a, z, B, K, d) ==
    /\ B \in SUBSET {d} /\ K \in SUBSET {d} /\ (B = {} \/ K = {})
    /\ B # {} => d = cur[First]
    /\ z = <<>> <=> B \cup K = {}
    /\ K # {} => a = <<>>
    /\ K \cap Members(ws) = {} /\ \A k \in K : tstat[First][k] # "none"
    /\ cur[First] \in B \cup K => z[Len(z)].type = "resume"
    /\ cur[First] \in B \cup K => OtherActive(First, ws) \/ z[Len(z)].b

\* A handler with such a plan.
LEMMA CoreCall ==
    ASSUME TypeInv, NumberInv, CoreInv, Calls(First), NEW ws, Wakes(ws),
           NEW a, OwnCall(a, cur[First]), NEW d \in Threads, NEW z \in Seq(Rpc), Stops(z, d),
           NEW s, s = (a \o Unblock(ws)) \o z,
           NEW B, NEW K, StopsFor(ws, a, z, B, K, d), Handler(First, s, B, Members(ws), K)
    PROVE  CoreInv'
  <1> USE DEF StopsFor
  <1> DEFINE c == cur[First]
  <1>1. First \in Procs /\ c \in Threads
    BY FirstTypes
  <1>2. tstat[First][c] = "active" /\ Idle(First)
    BY DEF Calls
  <1>3. OtherThreads(ws, c)
    BY <1>2 DEF Wakes, OtherThreads
  <1>4. /\ Members(ws) \in SUBSET Threads
        /\ \A w \in Members(ws) : tstat[First][w] = "blocked"
    <2>1. ws \in Seq(Threads) /\ DOMAIN ws = 1 .. Len(ws)
      BY DEF Wakes
    <2>2. \A i \in DOMAIN ws : ws[i] \in Threads /\ tstat[First][ws[i]] = "blocked"
      BY <2>1 DEF Wakes
    <2> HIDE DEF StopsFor
    <2> QED BY <2>2 DEF Members
  <1> HIDE DEF c
  <1>5. /\ s \in Seq(Rpc) /\ PlanShape(s, c) /\ \A i \in DOMAIN s : ~s[i].pile
        /\ s # <<>> /\ Head(s).type = "add" => Head(s).tid = c
        /\ \A i \in DOMAIN s : s[i].type = "add" =>
              s[i].tid \in Members(ws) \/ (s[i].tid = c /\ a # <<>>)
        /\ \A i \in DOMAIN s : s[i].type = "set_active" =>
              \/ s[i].b /\ s[i].tid \in Members(ws)
              \/ ~s[i].b /\ s[i].tid = d /\ z # <<>>
        /\ \A t \in Members(ws) : \E i \in DOMAIN s : s[i].type = "set_active" /\ s[i].tid = t
        /\ z # <<>> => /\ \E i \in DOMAIN s : s[i].type = "set_active" /\ s[i].tid = d
                       /\ s # <<>> /\ Len(s) \in DOMAIN s /\ s[Len(s)] = z[Len(z)]
    <2>1. CallPlan(s, a, ws, z, c, d)
      BY <1>1, <1>3, HandlerPlan DEF c
    <2> QED BY <2>1 DEF CallPlan
  <1>6. TypeInv'
    BY <1>1, <1>2, <1>5, HandlerTyped
  <1>7. /\ B \cup K # {} => B \cup K = {d}
        /\ B \in SUBSET {cur[First]} /\ K \in SUBSET Threads
        /\ \A k \in K : cur[First] \in B \cup K => k = cur[First]
    OBVIOUS
  <1>8. \A i \in DOMAIN s : s[i].type = "add" =>
           s[i].tid \in Members(ws) \/ (s[i].tid = cur[First] /\ K = {})
    BY <1>5 DEF c
  <1>9. \A i \in DOMAIN s : s[i].type = "set_active" =>
           \/ s[i].b /\ s[i].tid \in Members(ws)
           \/ ~s[i].b /\ s[i].tid \in B \cup K
    BY <1>5, <1>7
  <1>10. ASSUME NEW t \in Members(ws) \cup B \cup K
         PROVE  \E i \in DOMAIN s : s[i].type = "set_active" /\ s[i].tid = t
    <2>1. CASE t \in Members(ws)
      BY <1>5, <2>1
    <2>2. CASE t \in B \cup K
      <3>1. t = d /\ z # <<>>
        BY <2>2
      <3> QED BY <1>5, <3>1
    <2> QED BY <2>1, <2>2
  <1>11. ASSUME cur[First] \in B \cup K
         PROVE  /\ s # <<>> /\ s[Len(s)].type = "resume"
                /\ \E i \in DOMAIN s : s[i].type \in {"resume", "destructor"}
                /\ OtherActive(First, ws) \/ s[Len(s)].b
    <2>1. z # <<>> /\ z[Len(z)].type = "resume" /\ (OtherActive(First, ws) \/ z[Len(z)].b)
      <3>1. B \cup K # {}
        BY <1>11
      <3> HIDE DEF OtherActive
      <3> QED BY <1>11, <3>1 DEF StopsFor
    <2> HIDE DEF OtherActive, StopsFor
    <2>2. s # <<>> /\ Len(s) \in DOMAIN s /\ s[Len(s)] = z[Len(z)]
      BY <1>5, <2>1
    <2>3. s[Len(s)].type \in {"resume", "destructor"}
      BY <2>1, <2>2
    <2> QED BY <2>1, <2>2, <2>3
  <1>12. OtherActive(First, ws) =>
            \E t \in Threads : t # cur[First] /\ (tstat[First][t] = "active" \/ t \in Members(ws))
    BY DEF OtherActive
  <1> HIDE DEF Handler, OtherActive, Members
  <1>13. s \in Seq(Rpc) /\ PlanShape(s, cur[First]) /\ \A i \in DOMAIN s : ~s[i].pile
    BY <1>5 DEF c
  <1>14. s # <<>> /\ Head(s).type = "add" => Head(s).tid = cur[First]
    BY <1>5 DEF c
  <1>15. GoodPlan(s, B, Members(ws), K)
    BY <1>8, <1>9, <1>10, <1>11, <1>12, <1>13, <1>14 DEF GoodPlan
  <1> QED BY <1>4, <1>6, <1>7, <1>13, <1>15, CoreHandler

\* The ends of the plans: nothing, BlockThread, pthread_exit, and KillThread alone.
Blocks(c) == <<SetActive(c, FALSE), Resume(FALSE)>>
Ends(c)   == <<Get, SetActive(c, FALSE), Get, Resume(TRUE)>>

\* Short plans and their entries.
IsPair(s, a, b) ==
    /\ s \in Seq(Rpc) /\ Len(s) = 2 /\ s # <<>> /\ DOMAIN s = {1, 2}
    /\ s[1] = a /\ s[2] = b
IsQuad(s, a, b, c, d) ==
    /\ s \in Seq(Rpc) /\ Len(s) = 4 /\ s # <<>> /\ DOMAIN s = {1, 2, 3, 4}
    /\ s[1] = a /\ s[2] = b /\ s[3] = c /\ s[4] = d

\* The entries of a pair, of a quadruple.
LEMMA PairPlan == ASSUME NEW a \in Rpc, NEW b \in Rpc PROVE IsPair(<<a, b>>, a, b)
  BY DEF IsPair

\* The plan of pthread_exit, as KillThread and the resume, or as one sequence.
LEMMA QuadPlan ==
    ASSUME NEW a \in Rpc, NEW b \in Rpc, NEW c \in Rpc, NEW d \in Rpc
    PROVE  IsQuad(<<a, b, c, d>>, a, b, c, d) /\ <<a, b, c>> \o <<d>> = <<a, b, c, d>>
  <1>1. /\ <<a, b, c, d>> \in Seq(Rpc) /\ Len(<<a, b, c, d>>) = 4 /\ <<a, b, c, d>> # <<>>
        /\ DOMAIN <<a, b, c, d>> = {1, 2, 3, 4}
        /\ <<a, b, c, d>>[1] = a /\ <<a, b, c, d>>[2] = b
        /\ <<a, b, c, d>>[3] = c /\ <<a, b, c, d>>[4] = d
    OBVIOUS
  <1>2. <<a, b, c>> \o <<d>> = <<a, b, c, d>>
    <2> DEFINE t == <<a, b, c>>
               u == <<d>>
               v == <<a, b, c, d>>
    <2>1. /\ t \in Seq(Rpc) /\ u \in Seq(Rpc) /\ Len(t) = 3 /\ Len(u) = 1
          /\ t[1] = a /\ t[2] = b /\ t[3] = c /\ u[1] = d
      OBVIOUS
    <2> HIDE DEF t, u
    <2>2. /\ t \o u \in Seq(Rpc) /\ Len(t \o u) = Len(t) + Len(u)
          /\ \A i \in 1 .. Len(t) + Len(u) : (t \o u)[i] =
                IF i <= Len(t) THEN t[i] ELSE u[i - Len(t)]
      BY <2>1, ConcatProperties, Zenon
    <2>3. /\ (t \o u)[1] = a /\ (t \o u)[2] = b /\ (t \o u)[3] = c /\ (t \o u)[4] = d
          /\ Len(t \o u) = 4
      BY <2>1, <2>2
    <2> DEFINE w == t \o u
    <2>4. w \in Seq(Rpc) /\ Len(w) = 4 /\ w[1] = a /\ w[2] = b /\ w[3] = c /\ w[4] = d
      BY <2>2, <2>3
    <2>5. v \in Seq(Rpc) /\ Len(v) = 4 /\ v[1] = a /\ v[2] = b /\ v[3] = c /\ v[4] = d
      BY <1>1
    <2> HIDE DEF v, w
    <2>6. ASSUME NEW i \in 1 .. Len(w) PROVE w[i] = v[i]
      <3>1. i = 1 \/ i = 2 \/ i = 3 \/ i = 4
        BY <2>4
      <3> QED BY <2>4, <2>5, <3>1
    <2>7. w = v
      BY <2>4, <2>5, <2>6, SeqEqual
    <2> QED BY <2>7 DEF w, v, t, u
  <1> QED BY <1>1, <1>2 DEF IsQuad

\* Those ends are ends.
LEMMA PlanEnds ==
    ASSUME NEW c \in Threads
    PROVE  /\ Stops(<<>>, c) /\ <<>> \in Seq(Rpc)
           /\ Stops(Blocks(c), c) /\ Blocks(c) \in Seq(Rpc) /\ Blocks(c) # <<>>
           /\ Stops(Ends(c), c) /\ Ends(c) \in Seq(Rpc) /\ Ends(c) # <<>>
           /\ Block(c, FALSE) = Blocks(c) /\ Block(c, TRUE) = <<Add(c, FALSE)>> \o Blocks(c)
           /\ Stops(Kill(c), c) /\ Kill(c) \in Seq(Rpc) /\ Kill(c) # <<>>
           /\ Blocks(c)[Len(Blocks(c))] = Resume(FALSE) /\ Ends(c)[Len(Ends(c))] = Resume(TRUE)
           /\ Kill(c) \o <<Resume(TRUE)>> = Ends(c)
           /\ OwnCall(<<>>, c) /\ OwnCall(<<Add(c, FALSE)>>, c)
           /\ <<Add(c, FALSE)>> \in Seq(Rpc)
  <1>1. /\ SetActive(c, FALSE) \in Rpc /\ Resume(FALSE) \in Rpc /\ Resume(TRUE) \in Rpc
        /\ Get \in Rpc /\ Add(c, FALSE) \in Rpc
    BY RpcTyped
  <1>2. /\ SetActive(c, FALSE).type = "set_active" /\ SetActive(c, FALSE).tid = c
        /\ ~SetActive(c, FALSE).b /\ ~SetActive(c, FALSE).pile
        /\ \A b \in BOOLEAN : Resume(b).type = "resume" /\ ~Resume(b).pile
        /\ Get.type = "get" /\ ~Get.pile
    BY DEF SetActive, Resume, Get
  <1>3. Stops(<<>>, c) /\ <<>> \in Seq(Rpc)
    BY DEF Stops
  <1>4. /\ Stops(Blocks(c), c) /\ Blocks(c) \in Seq(Rpc) /\ Blocks(c) # <<>>
        /\ Blocks(c)[Len(Blocks(c))] = Resume(FALSE)
    <2>1. /\ Blocks(c) \in Seq(Rpc) /\ Len(Blocks(c)) = 2 /\ Blocks(c) # <<>>
          /\ DOMAIN Blocks(c) = {1, 2}
          /\ Blocks(c)[1] = SetActive(c, FALSE) /\ Blocks(c)[2] = Resume(FALSE)
      <3>1. IsPair(Blocks(c), SetActive(c, FALSE), Resume(FALSE))
        BY <1>1, PairPlan DEF Blocks
      <3> QED BY <3>1 DEF IsPair
    <2>2. Resume(FALSE).type = "resume" /\ ~Resume(FALSE).pile
      BY <1>2
    <2> QED BY <1>2, <2>1, <2>2 DEF Stops
  <1>5. /\ Stops(Ends(c), c) /\ Ends(c) \in Seq(Rpc) /\ Ends(c) # <<>>
        /\ Ends(c)[Len(Ends(c))] = Resume(TRUE)
    <2>1. /\ Ends(c) \in Seq(Rpc) /\ Len(Ends(c)) = 4 /\ Ends(c) # <<>>
          /\ DOMAIN Ends(c) = {1, 2, 3, 4}
          /\ Ends(c)[1] = Get /\ Ends(c)[2] = SetActive(c, FALSE)
          /\ Ends(c)[3] = Get /\ Ends(c)[4] = Resume(TRUE)
      <3>1. IsQuad(Ends(c), Get, SetActive(c, FALSE), Get, Resume(TRUE))
        BY <1>1, QuadPlan DEF Ends
      <3> QED BY <3>1 DEF IsQuad
    <2>2. Resume(TRUE).type = "resume" /\ ~Resume(TRUE).pile
      BY <1>2
    <2> QED BY <1>2, <2>1, <2>2 DEF Stops
  <1>6. Block(c, FALSE) = Blocks(c) /\ Block(c, TRUE) = <<Add(c, FALSE)>> \o Blocks(c)
    <2>1. <<>> \o Blocks(c) = Blocks(c)
      BY <1>4, ConcatEmptySeq
    <2> QED BY <2>1 DEF Block, Blocks
  <1>7. Kill(c) \o <<Resume(TRUE)>> = Ends(c)
    BY <1>1, QuadPlan, Zenon DEF Kill, Ends
  <1>8. OwnCall(<<>>, c) /\ OwnCall(<<Add(c, FALSE)>>, c) /\ <<Add(c, FALSE)>> \in Seq(Rpc)
    BY PlansTyped, Zenon DEF OwnCall
  <1>9. Stops(Kill(c), c) /\ Kill(c) \in Seq(Rpc) /\ Kill(c) # <<>>
    <2> DEFINE z == Kill(c)
    <2>1. /\ z \in Seq(Rpc) /\ Len(z) = 3 /\ z # <<>> /\ DOMAIN z = {1, 2, 3}
          /\ z[1] = Get /\ z[2] = SetActive(c, FALSE) /\ z[3] = Get
      <3>1. \A x, y \in Rpc : /\ <<x, y, x>> \in Seq(Rpc) /\ Len(<<x, y, x>>) = 3
                              /\ <<x, y, x>> # <<>> /\ DOMAIN <<x, y, x>> = {1, 2, 3}
                              /\ <<x, y, x>>[1] = x /\ <<x, y, x>>[2] = y
                              /\ <<x, y, x>>[3] = x
        OBVIOUS
      <3> QED BY <1>1, <3>1, Zenon DEF Kill
    <2> HIDE DEF z
    <2>2. Stops(z, c)
      BY <1>2, <2>1 DEF Stops
    <2> QED BY <2>1, <2>2 DEF z
  <1> QED BY <1>3, <1>4, <1>5, <1>6, <1>7, <1>8, <1>9

\* A call after which the thread runs on.
LEMMA CoreRunsOn ==
    ASSUME TypeInv, NumberInv, CoreInv, Calls(First), NEW ws, Wakes(ws),
           NEW a, OwnCall(a, cur[First]), NEW s, s = a \o Unblock(ws), Handler(First, s, {}, Members(ws), {})
    PROVE  CoreInv'
  <1>1. cur[First] \in Threads
    BY FirstTypes
  <1>2. a \in Seq(Rpc) /\ Unblock(ws) \in Seq(Rpc)
    <2>1. a = <<>> \/ a = <<Add(cur[First], FALSE)>>
      BY DEF OwnCall
    <2> QED BY <1>1, <2>1, PlanEnds, UnblockTyped DEF Wakes
  <1>3. s = (a \o Unblock(ws)) \o <<>>
    <2>1. a \o Unblock(ws) \in Seq(Rpc)
      BY <1>2, ConcatProperties
    <2> QED BY <2>1, ConcatEmptySeq
  <1>4. Stops(<<>>, cur[First]) /\ <<>> \in Seq(Rpc)
    BY <1>1, PlanEnds
  <1>5. StopsFor(ws, a, <<>>, {}, {}, cur[First])
    BY DEF StopsFor
  <1> QED BY <1>1, <1>3, <1>4, <1>5, CoreCall

\* The thread blocks.
LEMMA CoreStops ==
    ASSUME TypeInv, NumberInv, CoreInv, Calls(First), NEW ws, Wakes(ws), OtherActive(First, ws),
           NEW a, OwnCall(a, cur[First]), NEW s, s = (a \o Unblock(ws)) \o Blocks(cur[First]),
           Handler(First, s, {cur[First]}, Members(ws), {})
    PROVE  CoreInv'
  <1>1. cur[First] \in Threads
    BY FirstTypes
  <1>2. /\ Stops(Blocks(cur[First]), cur[First]) /\ Blocks(cur[First]) \in Seq(Rpc)
        /\ Blocks(cur[First]) # <<>>
        /\ Blocks(cur[First])[Len(Blocks(cur[First]))].type = "resume"
    <2>1. Resume(FALSE).type = "resume"
      BY DEF Resume
    <2> QED BY <1>1, <2>1, PlanEnds, Zenon
  <1>3. StopsFor(ws, a, Blocks(cur[First]), {cur[First]}, {}, cur[First])
    BY <1>2 DEF StopsFor
  <1> QED BY <1>1, <1>2, <1>3, CoreCall

\* The thread ends, whether or not another one is active.
LEMMA CoreEnds ==
    ASSUME TypeInv, NumberInv, CoreInv, Calls(First), NEW ws, Wakes(ws),
           NEW s, s = (<<>> \o Unblock(ws)) \o Ends(cur[First]),
           Handler(First, s, {}, Members(ws), {cur[First]})
    PROVE  CoreInv'
  <1>1. cur[First] \in Threads /\ tstat[First][cur[First]] = "active"
    BY FirstTypes DEF Calls
  <1>2. /\ Stops(Ends(cur[First]), cur[First]) /\ Ends(cur[First]) \in Seq(Rpc)
        /\ Ends(cur[First]) # <<>> /\ OwnCall(<<>>, cur[First])
        /\ Ends(cur[First])[Len(Ends(cur[First]))].type = "resume"
        /\ Ends(cur[First])[Len(Ends(cur[First]))].b
    <2>1. Resume(TRUE).type = "resume" /\ Resume(TRUE).b
      BY DEF Resume
    <2> QED BY <1>1, <2>1, PlanEnds, Zenon
  <1>3. cur[First] \notin Members(ws)
    BY <1>1 DEF Wakes, Members
  <1>4. StopsFor(ws, <<>>, Ends(cur[First]), {}, {cur[First]}, cur[First])
    BY <1>1, <1>2, <1>3 DEF StopsFor
  <1> QED BY <1>1, <1>2, <1>4, CoreCall

\* The thread ends another one and runs on.
LEMMA CoreEndsOther ==
    ASSUME TypeInv, NumberInv, CoreInv, Calls(First), NEW ws, Wakes(ws),
           NEW k \in Threads \ {cur[First]}, tstat[First][k] # "none", k \notin Members(ws),
           Handler(First, (<<>> \o Unblock(ws)) \o Kill(k), {}, Members(ws), {k})
    PROVE  CoreInv'
  <1>1. /\ Stops(Kill(k), k) /\ Kill(k) \in Seq(Rpc) /\ Kill(k) # <<>>
        /\ OwnCall(<<>>, cur[First])
    BY PlanEnds DEF OwnCall
  <1>2. StopsFor(ws, <<>>, Kill(k), {}, {k}, k)
    BY <1>1 DEF StopsFor
  <1> QED BY <1>1, <1>2, CoreCall

\* pthread_mutex_lock, pthread_barrier_wait and pthread_join.
LEMMA CoreWaits ==
    ASSUME TypeInv, NumberInv, CoreInv, MutexLock(First) \/ BarrierWait(First) \/ Join(First)
    PROVE  CoreInv'
  <1> DEFINE c == cur[First]
             own == <<Add(c, FALSE)>>
  <1>1. c \in Threads /\ ThreadsPer - 1 \in Int
    BY FirstTypes, HandshakeAssumption
  <1>2. /\ OwnCall(<<>>, c) /\ OwnCall(own, c) /\ own \in Seq(Rpc) /\ <<>> \in Seq(Rpc)
        /\ Block(c, FALSE) = Blocks(c) /\ Block(c, TRUE) = own \o Blocks(c)
        /\ Blocks(c) \in Seq(Rpc)
    BY <1>1, PlanEnds
  <1>3. /\ Wakes(<<>>) /\ Unblock(<<>>) = <<>> /\ Members(<<>>) = {}
        /\ \A n \in Int : \A ws \in Wakeable(First, n) : Wakes(ws)
    BY WakeableWakes
  <1>4. Calls(First)
    BY DEF MutexLock, BarrierWait, Join
  <1> HIDE DEF own, c
  <1>5. /\ own \o Unblock(<<>>) = own /\ <<>> \o Unblock(<<>>) = <<>>
        /\ <<>> \o Blocks(c) = Blocks(c)
    BY <1>2, <1>3, ConcatEmptySeq
  <1>6. ASSUME Handler(First, own, {}, {}, {}) PROVE CoreInv'
    BY <1>2, <1>3, <1>4, <1>5, <1>6, CoreRunsOn DEF c
  <1>7. ASSUME NEW ws \in Wakeable(First, ThreadsPer - 1),
               Handler(First, own \o Unblock(ws), {}, Members(ws), {})
        PROVE  CoreInv'
    BY <1>1, <1>2, <1>3, <1>4, <1>7, CoreRunsOn DEF c
  <1>8. ASSUME OtherActive(First, <<>>), Handler(First, own \o Blocks(c), {c}, {}, {})
        PROVE  CoreInv'
    <2>1. own \o Blocks(c) = (own \o Unblock(<<>>)) \o Blocks(c)
      BY <1>5
    <2> QED BY <1>2, <1>3, <1>4, <1>8, <2>1, CoreStops DEF c
  <1>9. ASSUME OtherActive(First, <<>>), Handler(First, Blocks(c), {c}, {}, {})
        PROVE  CoreInv'
    <2>1. Blocks(c) = (<<>> \o Unblock(<<>>)) \o Blocks(c)
      BY <1>5
    <2> QED BY <1>2, <1>3, <1>4, <1>9, <2>1, CoreStops DEF c
  <1>10. CASE MutexLock(First)
    <2>1. \/ Handler(First, own, {}, {}, {})
          \/ OtherActive(First, <<>>) /\ Handler(First, own \o Block(c, FALSE), {c}, {}, {})
      BY <1>10 DEF MutexLock, own, c
    <2> QED BY <1>2, <1>6, <1>8, <2>1
  <1>11. CASE BarrierWait(First)
    <2>1. \/ \E ws \in Wakeable(First, ThreadsPer - 1) :
                Handler(First, own \o Unblock(ws), {}, Members(ws), {})
          \/ OtherActive(First, <<>>) /\ Handler(First, Block(c, TRUE), {c}, {}, {})
      BY <1>11 DEF BarrierWait, own, c
    <2> QED BY <1>2, <1>7, <1>8, <2>1
  <1>12. CASE Join(First)
    <2>1. OtherActive(First, <<>>) /\ Handler(First, Block(c, FALSE), {c}, {}, {})
      BY <1>12 DEF Join, c
    <2> QED BY <1>2, <1>9, <2>1
  <1> QED BY <1>10, <1>11, <1>12

\* pthread_mutex_unlock, pthread_cond_wait and _signal, pthread_exit and _cancel.
LEMMA CoreWakes ==
    ASSUME TypeInv, NumberInv, CoreInv,
           MutexUnlock(First) \/ CondWait(First) \/ CondSignal(First) \/ Exit(First) \/ Cancel(First)
    PROVE  CoreInv'
  <1> DEFINE c == cur[First]
             own == <<Add(c, FALSE)>>
  <1>1. c \in Threads /\ ThreadsPer - 1 \in Int /\ 1 \in Int
    BY FirstTypes, HandshakeAssumption
  <1>2. /\ OwnCall(<<>>, c) /\ OwnCall(own, c) /\ <<>> \in Seq(Rpc)
        /\ Block(c, FALSE) = Blocks(c) /\ Kill(c) \o <<Resume(TRUE)>> = Ends(c)
        /\ Kill(c) \in Seq(Rpc) /\ <<Resume(TRUE)>> \in Seq(Rpc)
    BY <1>1, PlanEnds, PlansTyped
  <1>3. \A n \in Int : \A ws \in Wakeable(First, n) : Wakes(ws) /\ Unblock(ws) \in Seq(Rpc)
    BY WakeableWakes, UnblockTyped DEF Wakes
  <1>4. Calls(First)
    BY DEF MutexUnlock, CondWait, CondSignal, Exit, Cancel
  <1> HIDE DEF own, c
  <1>5. CASE MutexUnlock(First)
    <2>1. PICK ws \in Wakeable(First, 1) :
             Handler(First, own \o Unblock(ws), {}, Members(ws), {})
      BY <1>5 DEF MutexUnlock, own, c
    <2> QED BY <1>1, <1>2, <1>3, <1>4, <2>1, CoreRunsOn DEF c
  <1>6. CASE CondWait(First)
    <2>1. PICK ws \in Wakeable(First, 1) :
             /\ OtherActive(First, ws)
             /\ Handler(First, (own \o Unblock(ws)) \o Block(c, FALSE), {c}, Members(ws), {})
      BY <1>6 DEF CondWait, own, c
    <2>2. Handler(First, (own \o Unblock(ws)) \o Blocks(c), {c}, Members(ws), {})
      BY <1>2, <2>1
    <2> QED BY <1>1, <1>2, <1>3, <1>4, <2>1, <2>2, CoreStops DEF c
  <1>7. CASE CondSignal(First)
    <2>1. PICK ws \in Wakeable(First, ThreadsPer - 1) :
             Handler(First, Unblock(ws), {}, Members(ws), {})
      BY <1>7 DEF CondSignal
    <2>2. Unblock(ws) = <<>> \o Unblock(ws)
      BY <1>1, <1>3, ConcatEmptySeq
    <2> QED BY <1>1, <1>2, <1>3, <1>4, <2>1, <2>2, CoreRunsOn DEF c
  <1>8. CASE Exit(First)
    <2>1. PICK ws \in Wakeable(First, 1) :
             Handler(First, (Unblock(ws) \o Kill(c)) \o <<Resume(TRUE)>>, {}, Members(ws), {c})
      BY <1>8 DEF Exit, c
    <2>2. Unblock(ws) \in Seq(Rpc) /\ Wakes(ws)
      BY <1>1, <1>3
    <2>3. (Unblock(ws) \o Kill(c)) \o <<Resume(TRUE)>> = (<<>> \o Unblock(ws)) \o Ends(c)
      <3>1. (Unblock(ws) \o Kill(c)) \o <<Resume(TRUE)>> = Unblock(ws) \o (Kill(c) \o <<Resume(TRUE)>>)
        BY <1>2, <2>2, ConcatAssociative
      <3>2. <<>> \o Unblock(ws) = Unblock(ws)
        BY <2>2, ConcatEmptySeq
      <3> QED BY <1>2, <3>1, <3>2
    <2>4. Handler(First, (<<>> \o Unblock(ws)) \o Ends(c), {}, Members(ws), {c})
      BY <2>1, <2>3
    <2> QED BY <1>2, <1>4, <2>2, <2>4, CoreEnds DEF c
  <1>9. CASE Cancel(First)
    <2>1. PICK ws \in Wakeable(First, 1), k \in Threads \ {cur[First]} :
             /\ tstat[First][k] # "none" /\ k \notin Members(ws)
             /\ Handler(First, Unblock(ws) \o Kill(k), {}, Members(ws), {k})
      BY <1>9 DEF Cancel
    <2>2. Wakes(ws) /\ Unblock(ws) = <<>> \o Unblock(ws)
      BY <1>1, <1>3, ConcatEmptySeq
    <2>3. Handler(First, (<<>> \o Unblock(ws)) \o Kill(k), {}, Members(ws), {k})
      BY <2>1, <2>2
    <2> QED BY <1>4, <2>1, <2>2, <2>3, CoreEndsOther
  <1> QED BY <1>5, <1>6, <1>7, <1>8, <1>9

\* A plan of five RPCs.
IsQuint(s, a, b, c, d, e) ==
    /\ s \in Seq(Rpc) /\ Len(s) = 5 /\ DOMAIN s = {1, 2, 3, 4, 5} /\ s # <<>> /\ Head(s) = a
    /\ s[1] = a /\ s[2] = b /\ s[3] = c /\ s[4] = d /\ s[5] = e

\* Those of pthread_create and of the end of the process.
LEMMA QuintPlan ==
    ASSUME NEW a \in Rpc, NEW b \in Rpc, NEW c \in Rpc, NEW d \in Rpc, NEW e \in Rpc
    PROVE  /\ IsQuint(<<a, b, c, d, e>>, a, b, c, d, e)
           /\ IsQuint((<<a>> \o <<b, c, d>>) \o <<e>>, a, b, c, d, e)
  <1>1. IsQuint(<<a, b, c, d, e>>, a, b, c, d, e)
    BY DEF IsQuint
  <1> DEFINE t == <<a>>
             u == <<b, c, d>>
             v == <<e>>
             w == t \o u
  <1>2. /\ t \in Seq(Rpc) /\ Len(t) = 1 /\ t[1] = a
        /\ u \in Seq(Rpc) /\ Len(u) = 3 /\ u[1] = b /\ u[2] = c /\ u[3] = d
        /\ v \in Seq(Rpc) /\ Len(v) = 1 /\ v[1] = e
    OBVIOUS
  <1> HIDE DEF t, u, v
  <1>3. w \in Seq(Rpc) /\ Len(w) = 4 /\ w[1] = a /\ w[2] = b /\ w[3] = c /\ w[4] = d
    <2>1. /\ w \in Seq(Rpc) /\ Len(w) = Len(t) + Len(u)
          /\ \A i \in 1 .. Len(t) + Len(u) : w[i] = IF i <= Len(t) THEN t[i] ELSE u[i - Len(t)]
      BY <1>2, ConcatProperties, Zenon
    <2> QED BY <1>2, <2>1
  <1> HIDE DEF w
  <1>4. IsQuint(w \o v, a, b, c, d, e)
    <2> DEFINE y == w \o v
    <2>1. /\ y \in Seq(Rpc) /\ Len(y) = Len(w) + Len(v)
          /\ \A i \in 1 .. Len(w) + Len(v) : y[i] = IF i <= Len(w) THEN w[i] ELSE v[i - Len(w)]
      BY <1>2, <1>3, ConcatProperties, Zenon
    <2>2. /\ Len(y) = 5 /\ y[1] = a /\ y[2] = b /\ y[3] = c /\ y[4] = d /\ y[5] = e
      BY <1>2, <1>3, <2>1
    <2> HIDE DEF y
    <2>3. y # <<>> /\ Head(y) = y[1] /\ DOMAIN y = {1, 2, 3, 4, 5}
      <3>1. y \in Seq(Rpc) /\ Len(y) = 5
        BY <2>1, <2>2
      <3>2. DOMAIN y = 1 .. 5 /\ y # <<>> /\ Head(y) = y[1]
        BY <3>1
      <3>3. 1 .. 5 = {1, 2, 3, 4, 5}
        OBVIOUS
      <3> QED BY <3>2, <3>3, Zenon
    <2>4. IsQuint(y, a, b, c, d, e)
      BY <2>1, <2>2, <2>3 DEF IsQuint
    <2> QED BY <2>4 DEF y
  <1> QED BY <1>1, <1>4 DEF t, u, v, w

\* The end of the process.
LEMMA CoreFini ==
    ASSUME TypeInv, NumberInv, CoreInv, Fini(First) PROVE CoreInv'
  <1> DEFINE c == cur[First]
             s == (<<Resume(TRUE)>> \o Kill(c)) \o <<Destructor>>
  <1>1. First \in Procs /\ c \in Threads
    BY FirstTypes
  <1>2. Calls(First) /\ Idle(First) /\ Handler(First, s, {}, {}, {c})
    BY DEF Fini, Calls
  <1>3. IsQuint(s, Resume(TRUE), Get, SetActive(c, FALSE), Get, Destructor)
    <2>1. /\ Resume(TRUE) \in Rpc /\ Get \in Rpc /\ SetActive(c, FALSE) \in Rpc
          /\ Destructor \in Rpc
      BY <1>1, RpcTyped
    <2> QED BY <2>1, QuintPlan DEF Kill
  <1>4. /\ SetActive(c, FALSE).type = "set_active" /\ SetActive(c, FALSE).tid = c
        /\ ~SetActive(c, FALSE).b /\ ~SetActive(c, FALSE).pile
        /\ Resume(TRUE).type = "resume" /\ ~Resume(TRUE).pile
        /\ Get.type = "get" /\ ~Get.pile
        /\ Destructor.type = "destructor" /\ ~Destructor.pile
    BY DEF SetActive, Resume, Get, Destructor
  <1> HIDE DEF s, c
  <1>5. /\ s \in Seq(Rpc) /\ Len(s) = 5 /\ DOMAIN s = {1, 2, 3, 4, 5} /\ s # <<>>
        /\ s[1] = Resume(TRUE) /\ s[2] = Get /\ s[3] = SetActive(c, FALSE)
        /\ s[4] = Get /\ s[5] = Destructor /\ Head(s) = Resume(TRUE)
    BY <1>3 DEF IsQuint
  <1>6. TypeInv'
    BY <1>1, <1>2, <1>5, HandlerTyped
  <1>7. PlanShape(s, c) /\ \A i \in DOMAIN s : ~s[i].pile
    BY <1>4, <1>5 DEF PlanShape
  <1>8. \A i \in DOMAIN s : /\ s[i].type # "add"
                            /\ s[i].type = "set_active" => ~s[i].b /\ s[i].tid = c
    BY <1>4, <1>5
  <1>9. GoodPlan(s, {}, {}, {c})
    <2>1. PlanShape(s, cur[First]) /\ \A i \in DOMAIN s : ~s[i].pile
      BY <1>7 DEF c
    <2>2. Head(s).type # "add"
      BY <1>4, <1>5
    <2>3. 3 \in DOMAIN s /\ s[3].type = "set_active" /\ s[3].tid = c
      BY <1>4, <1>5
    <2>4. 5 \in DOMAIN s /\ s[5].type = "destructor" /\ s[Len(s)] = s[5]
      BY <1>4, <1>5
    <2>5. \A t \in {} \cup {} \cup {c} : \E i \in DOMAIN s : s[i].type = "set_active" /\ s[i].tid = t
      BY <2>3
    <2>6. \E i \in DOMAIN s : s[i].type \in {"resume", "destructor"}
      BY <2>4
    <2>7. \A i \in DOMAIN s : s[i].type = "set_active" => ~s[i].b /\ s[i].tid \in {} \cup {c}
      BY <1>8
    <2>8. s # <<>> /\ s[Len(s)].type = "destructor" /\ \A i \in DOMAIN s : s[i].type # "add"
      BY <1>5, <1>8, <2>4
    <2> QED BY <2>1, <2>2, <2>5, <2>6, <2>7, <2>8 DEF GoodPlan
  <1>10. tstat[First][c] # "none"
    BY <1>2 DEF Calls, c
  <1>11. /\ {} \in SUBSET {cur[First]} /\ {} \in SUBSET Threads /\ {c} \in SUBSET Threads
         /\ {c} \cap {} = {} /\ \A w \in {} : tstat[First][w] = "blocked"
         /\ \A k \in {c} : tstat[First][k] # "none"
         /\ \A k \in {c} : cur[First] \in {} \cup {c} => k = cur[First]
    BY <1>1, <1>10
  <1> HIDE DEF Fini, Handler
  <1> QED BY <1>2, <1>5, <1>6, <1>9, <1>11, CoreHandler

\* The instruction of the running thread.
LEMMA CoreProcessIns ==
    ASSUME TypeInv, TypeInv', CoreInv, ProcessIns(First) PROVE CoreInv'
  <1> DEFINE c == cur[First]
             r == Add(c, TRUE)
  <1>0. fpc[First] = "run" /\ Plan = <<>> /\ tstat[First][c] = "active"
    BY DEF ProcessIns, Idle, Plan
  <1>1. /\ First \in Procs /\ c \in Threads /\ Piled \in Nat
        /\ tstat[First] \in [Threads -> {"none", "active", "blocked"}]
        /\ fresh[First] \in [Threads -> BOOLEAN]
        /\ q[First] \in [Threads -> 0 .. QueueMax] /\ QueueMax \in Nat
    BY FirstTypes, HandshakeAssumption
  <1>2. /\ Plan' = <<r>>
        /\ \A t \in Threads : t # c => fresh'[First][t] = fresh[First][t]
        /\ UNCHANGED <<fpc, batch, slots, cur, tstat, created, q, coreActive, bpc>>
    BY <1>1 DEF ProcessIns, TypeInv, TypeOK, Plan, backVars
  <1>3. /\ Piled' = Piled /\ Alive /\ Alive' /\ ~Sent /\ ~Sent' /\ ~Counted /\ ~Counted'
    BY <1>0, <1>2 DEF Piled, Alive, Sent, Counted
  <1>4. r.type = "add" /\ r.tid = c /\ r.pile
    BY DEF Add
  <1> HIDE DEF r, c
  <1>5. DOMAIN Plan' = {1} /\ Len(Plan') = 1 /\ Plan'[1] = r /\ Head(Plan') = r /\ Plan' # <<>>
    BY <1>2
  <1>6. PlanInv'
    <2>1. PlanShape(Plan', c)
      BY <1>4, <1>5 DEF PlanShape
    <2>2. Piled > 0 => batch[First].tid = cur[First]
      BY <1>0, <1>3 DEF CoreInv, PlanInv
    <2> QED BY <1>2, <1>3, <1>4, <1>5, <2>1, <2>2 DEF PlanInv, c
  <1>7. MessageInv' /\ EndInv'
    BY <1>0, <1>2, <1>3 DEF MessageInv, EndInv, FirstNeverExits, Sent
  <1>8. ActiveInv'
    <2>1. \A t \in Threads : coreActive[First][t] <=> tstat[First][t] = "active"
      BY <1>0, <1>3 DEF CoreInv, ActiveInv
    <2>2. \A i \in DOMAIN Plan' : Plan'[i].type # "set_active"
      BY <1>4, <1>5
    <2> QED BY <1>0, <1>1, <1>2, <2>1, <2>2 DEF ActiveInv, c
  <1>9. LoadInv'
    <2>1. ASSUME NEW t \in Threads
          PROVE  /\ slots'[First][t] <= Available(q'[First][t])
                 /\ Load(t)' <= QueueMax - Slack(t)'
      <3>1. /\ slots[First][t] <= Available(q[First][t])
            /\ Load(t) <= QueueMax - Slack(t)
        BY <1>3 DEF CoreInv, LoadInv
      <3> DEFINE x == q[First][t] + (IF Piled > 0 /\ batch[First].tid = t THEN Piled ELSE 0)
      <3>2. x \in Int /\ Load(t) = x + 0 /\ Load(t)' = x + (IF Owes(t)' THEN 1 ELSE 0)
        <4>1. ~Owes(t)
          BY <1>0 DEF Owes
        <4>2. q[First][t] \in Nat
          BY <1>1
        <4> QED BY <1>1, <1>2, <1>3, <4>1, <4>2 DEF Load
      <3>3. Owes(t)' => t = c
        BY <1>4, <1>5 DEF Owes
      <3>4. Slack(t) \in 1 .. 3 /\ Slack(t)' \in 1 .. 3
        BY SlackRange DEF Slack
      <3>5. ~Checking /\ Checking'
        BY <1>0, <1>4, <1>5 DEF Checking
      <3>6. t = c => Slack(t)' = 1 /\ Slack(t) \in {2, 3}
        BY <1>0, <1>2, <3>5 DEF Slack, c
      <3>7. t # c => Slack(t)' = Slack(t)
        BY <1>0, <1>1, <1>2, <3>5 DEF Slack, c
      <3> HIDE DEF Load, Slack, Owes, x
      <3>8. Load(t)' <= QueueMax - Slack(t)'
        BY <1>1, <3>1, <3>2, <3>3, <3>4, <3>6, <3>7
      <3> QED BY <1>2, <3>1, <3>8
    <2> QED BY <2>1 DEF LoadInv
  <1> QED BY <1>6, <1>7, <1>8, <1>9 DEF CoreInv

\* pthread_create.
LEMMA CoreCreate ==
    ASSUME TypeInv, TypeInv', CoreInv, Create(First) PROVE CoreInv'
  <1> DEFINE c == cur[First]
             live == {t \in Threads : tstat[First][t] # "none"}
             n == Cardinality(live)
  <1>0. /\ fpc[First] = "run" /\ Plan = <<>> /\ tstat[First][c] = "active" /\ fresh[First][c]
    BY DEF Create, Calls, Idle, Plan
  <1>1. /\ First \in Procs /\ c \in Threads /\ Piled \in Nat
        /\ tstat[First] \in [Threads -> {"none", "active", "blocked"}]
        /\ fresh[First] \in [Threads -> BOOLEAN]
        /\ q[First] \in [Threads -> 0 .. QueueMax] /\ QueueMax \in Nat
    BY FirstTypes, HandshakeAssumption
  <1>2. /\ n \in Threads \ live /\ todo' = [todo EXCEPT ![First] = Spawn(n)]
        /\ tstat' = [tstat EXCEPT ![First][n] = "active"]
        /\ fresh' = [fresh EXCEPT ![First][c] = FALSE]
        /\ created' = [created EXCEPT ![First] = @ + 1] /\ n = created[First] + 1
        /\ UNCHANGED <<fpc, batch, slots, cur, q, coreActive, bpc>>
    BY DEF Create, backVars
  <1>3. n \in Threads /\ tstat[First][n] = "none" /\ n # c
    BY <1>0, <1>2
  <1> HIDE DEF n, live
  <1>4. /\ Plan' = Spawn(n)
        /\ \A t \in Threads : tstat'[First][t] = IF t = n THEN "active" ELSE tstat[First][t]
        /\ \A t \in Threads : fresh'[First][t] = IF t = c THEN FALSE ELSE fresh[First][t]
        /\ created[First] \in Nat /\ created'[First] = created[First] + 1
    BY <1>1, <1>2 DEF TypeInv, TypeOK, Plan
  <1>5. /\ Piled' = Piled /\ Alive /\ Alive' /\ ~Sent /\ ~Sent' /\ ~Counted /\ ~Counted'
    BY <1>0, <1>2 DEF Piled, Alive, Sent, Counted
  <1>6. IsQuint(Plan', Get, Get, SetActive(n, TRUE), Get, Add(n, FALSE))
    <2>1. Get \in Rpc /\ SetActive(n, TRUE) \in Rpc /\ Add(n, FALSE) \in Rpc
      BY <1>3, RpcTyped
    <2> QED BY <1>4, <2>1, QuintPlan DEF Spawn
  <1>7. /\ SetActive(n, TRUE).type = "set_active" /\ SetActive(n, TRUE).tid = n
        /\ SetActive(n, TRUE).b /\ ~SetActive(n, TRUE).pile
        /\ Get.type = "get" /\ ~Get.pile
        /\ Add(n, FALSE).type = "add" /\ Add(n, FALSE).tid = n /\ ~Add(n, FALSE).pile
    BY DEF SetActive, Get, Add
  <1>8. /\ Len(Plan') = 5 /\ DOMAIN Plan' = {1, 2, 3, 4, 5} /\ Plan' # <<>> /\ Head(Plan') = Get
        /\ Plan'[1] = Get /\ Plan'[2] = Get /\ Plan'[3] = SetActive(n, TRUE)
        /\ Plan'[4] = Get /\ Plan'[5] = Add(n, FALSE)
    BY <1>6 DEF IsQuint
  <1> HIDE DEF c
  <1>9. PlanInv'
    <2>1. PlanShape(Plan', cur[First])
      BY <1>7, <1>8 DEF PlanShape
    <2>2. Piled > 0 => batch[First].tid = cur[First]
      BY <1>0, <1>5 DEF CoreInv, PlanInv
    <2> QED BY <1>2, <1>5, <1>7, <1>8, <2>1, <2>2 DEF PlanInv
  <1>10. MessageInv' /\ EndInv'
    BY <1>0, <1>2, <1>5 DEF MessageInv, EndInv, FirstNeverExits, Sent
  <1>11. ActiveInv'
    <2>1. \A t \in Threads : coreActive[First][t] <=> tstat[First][t] = "active"
      BY <1>0, <1>5 DEF CoreInv, ActiveInv
    <2>2. \A i \in DOMAIN Plan' : Plan'[i].type = "set_active" => Plan'[i].b /\ Plan'[i].tid = n
      BY <1>7, <1>8
    <2>3. 3 \in DOMAIN Plan' /\ Plan'[3].type = "set_active" /\ Plan'[3].tid = n
      BY <1>7, <1>8
    <2>4. tstat'[First][n] = "active"
      BY <1>3, <1>4
    <2>5. tstat'[First][cur'[First]] = "active" /\ cur'[First] \in Threads
      BY <1>0, <1>1, <1>2, <1>3, <1>4 DEF c
    <2>6. \A i \in DOMAIN Plan' : Plan'[i].type = "set_active" =>
             (Plan'[i].b <=> tstat'[First][Plan'[i].tid] = "active")
      BY <2>2, <2>4
    <2>7. ASSUME NEW t \in Threads
          PROVE  \/ coreActive'[First][t] <=> tstat'[First][t] = "active"
                 \/ \E i \in DOMAIN Plan' : Plan'[i].type = "set_active" /\ Plan'[i].tid = t
      BY <1>2, <1>4, <2>1, <2>3
    <2>8. Plan'[Len(Plan')].type # "destructor"
      BY <1>7, <1>8
    <2> QED BY <2>5, <2>6, <2>7, <2>8 DEF ActiveInv
  <1>12. LoadInv'
    <2>1. ASSUME NEW t \in Threads
          PROVE  /\ slots'[First][t] <= Available(q'[First][t])
                 /\ Load(t)' <= QueueMax - Slack(t)'
      <3>1. /\ slots[First][t] <= Available(q[First][t])
            /\ Load(t) <= QueueMax - Slack(t)
        BY <1>5 DEF CoreInv, LoadInv
      <3> DEFINE x == q[First][t] + (IF Piled > 0 /\ batch[First].tid = t THEN Piled ELSE 0)
      <3>2. x \in Int /\ Load(t) = x + 0 /\ Load(t)' = x + (IF Owes(t)' THEN 1 ELSE 0)
        <4>1. ~Owes(t)
          BY <1>0 DEF Owes
        <4>2. q[First][t] \in Nat
          BY <1>1
        <4> QED BY <1>1, <1>2, <1>5, <4>1, <4>2 DEF Load
      <3>3. Owes(t)' => t = n
        BY <1>7, <1>8 DEF Owes
      <3>4. Slack(t) \in 1 .. 3 /\ Slack(t)' \in 1 .. 3
        BY SlackRange DEF Slack
      <3>5. ~Checking /\ ~Checking'
        BY <1>0, <1>7, <1>8 DEF Checking
      <3>6. t = n => Slack(t)' = 1 /\ Slack(t) = 3
        <4> SUFFICES ASSUME t = n PROVE Slack(t)' = 1 /\ Slack(t) = 3
          OBVIOUS
        <4>1. tstat'[First][t] = "active" /\ t # cur'[First] /\ tstat[First][t] = "none"
          BY <1>2, <1>3, <1>4 DEF c
        <4>2. t > created[First]
          BY <1>2, <1>4
        <4> QED BY <4>1, <4>2 DEF Slack
      <3>7. t # n => Slack(t)' <= Slack(t)
        <4> SUFFICES ASSUME t # n PROVE Slack(t)' <= Slack(t)
          OBVIOUS
        <4>1. tstat'[First][t] = tstat[First][t]
          BY <1>4
        <4>2. CASE t = c
          <5>1. Slack(t) = 3
            BY <1>0, <3>5, <4>2 DEF Slack, c
          <5> QED BY <3>4, <5>1
        <4>3. CASE t # c
          <5>1. fresh'[First][t] = fresh[First][t]
            BY <1>4, <4>3
          <5>2. t \in Int /\ (t > created'[First] => t > created[First])
            BY <1>4 DEF Threads
          <5>3. CASE tstat[First][t] = "none"
            BY <4>1, <5>2, <5>3 DEF Slack
          <5>4. CASE tstat[First][t] # "none"
            <6>1. Slack(t)' = Slack(t)
              BY <1>2, <3>5, <4>1, <5>1, <5>4 DEF Slack
            <6> HIDE DEF Slack
            <6> QED BY <3>4, <6>1
          <5> QED BY <5>3, <5>4
        <4> QED BY <4>2, <4>3
      <3> HIDE DEF Load, Slack, Owes, x
      <3>8. Load(t)' <= QueueMax - Slack(t)'
        BY <1>1, <3>1, <3>2, <3>3, <3>4, <3>6, <3>7
      <3> QED BY <1>2, <3>1, <3>8
    <2> QED BY <2>1 DEF LoadInv
  <1> QED BY <1>9, <1>10, <1>11, <1>12 DEF CoreInv

\* The application of the first process.
LEMMA CoreApp ==
    ASSUME TypeInv, TypeInv', NumberInv, CoreInv, App(First) PROVE CoreInv'
  BY CoreProcessIns, CoreWaits, CoreWakes, CoreCreate, CoreFini DEF App

\* A thread is numbered by the pthread_create call that made it; the handlers only
\* wake threads that exist.
LEMMA NumberApp ==
    ASSUME TypeInv, NumberInv, App(First) PROVE NumberInv'
  <1>1. /\ First \in Procs /\ cur[First] \in Threads /\ created[First] \in Nat
        /\ tstat \in [Procs -> [Threads -> {"none", "active", "blocked"}]]
        /\ created \in [Procs -> Nat] /\ ThreadsPer - 1 \in Int /\ 1 \in Int
    <2>1. /\ tstat \in [Procs -> [Threads -> {"none", "active", "blocked"}]]
          /\ created \in [Procs -> Nat]
      BY DEF TypeInv, TypeOK
    <2> QED BY <2>1, FirstTypes, HandshakeAssumption
  <1>2. ASSUME NEW r, NEW B, NEW W, NEW K, Handler(First, r, B, W, K),
               \A t \in B \cup W : tstat[First][t] # "none"
        PROVE  NumberInv'
    <2>1. tstat'[First] = Restate(First, B, W, K) /\ created' = created
      BY <1>1, <1>2 DEF Handler
    <2> SUFFICES ASSUME NEW t \in Threads, tstat'[First][t] # "none" PROVE t <= created[First]
      BY <2>1 DEF NumberInv
    <2>2. tstat'[First][t] = CASE t \in K -> "none" [] t \in B -> "blocked"
                               [] t \in W -> "active" [] OTHER -> tstat[First][t]
      BY <2>1 DEF Restate
    <2>3. tstat[First][t] # "none"
      <3>1. CASE t \in B \cup W
        BY <1>2, <3>1
      <3>2. CASE t \notin B \cup W
        BY <2>2, <3>2
      <3> QED BY <3>1, <3>2
    <2> QED BY <2>3 DEF NumberInv
  <1>3. \A n \in Int : \A ws \in Wakeable(First, n) : \A t \in Members(ws) :
           tstat[First][t] # "none"
    BY DEF Wakeable, Members
  <1>4. CASE ProcessIns(First)
    BY <1>4 DEF ProcessIns, NumberInv
  <1>5. CASE Create(First)
    <2>1. PICK n \in Threads : /\ n = created[First] + 1
                               /\ tstat' = [tstat EXCEPT ![First][n] = "active"]
                               /\ created' = [created EXCEPT ![First] = @ + 1]
      BY <1>5 DEF Create
    <2> SUFFICES ASSUME NEW t \in Threads, tstat'[First][t] # "none" PROVE t <= created'[First]
      BY DEF NumberInv
    <2>2. created'[First] = created[First] + 1 /\ t \in Int
      BY <1>1, <2>1 DEF Threads
    <2>3. t = n \/ tstat[First][t] # "none"
      BY <1>1, <2>1
    <2>4. t = n \/ t <= created[First]
      BY <2>3 DEF NumberInv
    <2> QED BY <1>1, <2>1, <2>2, <2>4
  <1>6. CASE ~ProcessIns(First) /\ ~Create(First)
    <2>1. tstat[First][cur[First]] # "none"
      BY <1>6 DEF App, MutexLock, MutexUnlock, CondWait, CondSignal, BarrierWait, Join,
                  Exit, Cancel, Fini, Calls
    <2>2. ASSUME NEW r, NEW B, NEW K, Handler(First, r, B, {}, K), B = {} \/ B = {cur[First]}
          PROVE  NumberInv'
      <3>1. \A t \in B \cup {} : tstat[First][t] # "none"
        BY <2>1, <2>2
      <3> QED BY <1>2, <2>2, <3>1
    <2>3. ASSUME NEW n \in Int, NEW ws \in Wakeable(First, n), NEW r, NEW B, NEW K,
                 Handler(First, r, B, Members(ws), K), B = {} \/ B = {cur[First]}
          PROVE  NumberInv'
      <3>1. \A t \in B \cup Members(ws) : tstat[First][t] # "none"
        BY <1>3, <2>1, <2>3
      <3> QED BY <1>2, <2>3, <3>1
    <2>4. CASE MutexLock(First) \/ Join(First) \/ Fini(First)
      BY <2>2, <2>4, Zenon DEF MutexLock, Join, Fini
    <2>5. CASE MutexUnlock(First) \/ CondWait(First)
      BY <1>1, <2>3, <2>5, Zenon DEF MutexUnlock, CondWait
    <2>6. CASE CondSignal(First) \/ BarrierWait(First)
      BY <1>1, <2>2, <2>3, <2>6, Zenon DEF CondSignal, BarrierWait
    <2>7. CASE Exit(First) \/ Cancel(First)
      BY <1>1, <2>3, <2>7, Zenon DEF Exit, Cancel
    <2> QED BY <1>6, <2>4, <2>5, <2>6, <2>7 DEF App
  <1> QED BY <1>4, <1>5, <1>6

\* Nobody else numbers or changes the threads of the first process.
LEMMA NumberStep ==
    ASSUME TypeInv, NumberInv, [Next]_vars PROVE NumberInv'
  <1>1. ASSUME NEW p \in Procs, p # First, App(p) PROVE NumberInv'
    <2>1. tstat'[First] = tstat[First] /\ created'[First] = created[First]
      BY <1>1, FirstTyped DEF TypeInv, TypeOK, App, ProcessIns, MutexLock, MutexUnlock, CondWait,
                 CondSignal, BarrierWait, Join, Create, Exit, Cancel, Fini, Handler
    <2> QED BY <2>1 DEF NumberInv
  <1>2. ASSUME NEW p \in Procs, Front(p) PROVE NumberInv'
    <2>1. UNCHANGED <<tstat, created>>
      BY <1>2, Zenon DEF Front, Pile, Flush, Request, LowerFlag0, SeeFlag1, RaiseFlag1
    <2> QED BY <2>1 DEF NumberInv
  <1>3. CASE Back \/ Terminated \/ UNCHANGED vars
    <2>1. UNCHANGED <<tstat, created>>
      BY <1>3, Zenon DEF Back, SeeFlag0, RaiseFlag0, CopyIn, Limit, Serve, ServeAdd,
                  ServeSetActive, ServeGet, ServeResume, ServeDestructor, CopyOut, LowerFlag1,
                  Terminated, vars, frontVars
    <2> QED BY <2>1 DEF NumberInv
  <1> QED BY <1>1, <1>2, <1>3, NumberApp DEF Next

-----------------------------------------------------------------------------
(* The theorems.                                                           *)

\* The invariant holds when the first process starts.
LEMMA CoreInit == Init => NumberInv /\ CoreInv
  <1> SUFFICES ASSUME Init PROVE NumberInv /\ CoreInv
    OBVIOUS
  <1>1. First \in Procs /\ 0 \in Threads /\ QueueMax \in Nat /\ QueueMax >= 5
    BY FirstTyped, HandshakeAssumption
  <1>2. /\ fpc[First] = "run" /\ Plan = Boot /\ Piled = 0 /\ cur[First] = 0
        /\ \A t \in Threads : /\ tstat[First][t] = IF t = 0 THEN "active" ELSE "none"
                              /\ slots[First][t] = 1 /\ q[First][t] = 0
                              /\ ~coreActive[First][t]
    BY <1>1 DEF Init, Plan, Piled
  <1>3. Alive /\ ~Sent /\ ~Counted
    BY <1>2 DEF Alive, Sent, Counted
  <1>4. /\ SetActive(0, TRUE).type = "set_active" /\ SetActive(0, TRUE).tid = 0
        /\ SetActive(0, TRUE).b /\ ~SetActive(0, TRUE).pile
        /\ Get.type = "get" /\ ~Get.pile
    BY DEF SetActive, Get
  <1>5. /\ Plan # <<>> /\ Len(Plan) = 6 /\ DOMAIN Plan = 1 .. 6 /\ Head(Plan) = Get
        /\ Plan[6] = Get /\ Plan[4] = SetActive(0, TRUE)
        /\ \A i \in 1 .. 6 : Plan[i] = Get \/ Plan[i] = SetActive(0, TRUE)
    BY <1>2 DEF Boot
  <1>6. PlanInv
    <2>1. \A i \in DOMAIN Plan : ~Plan[i].pile /\ Plan[i].type \in {"get", "set_active"}
      BY <1>4, <1>5
    <2>2. PlanShape(Plan, cur[First])
      BY <2>1 DEF PlanShape
    <2> QED BY <1>2, <2>2 DEF PlanInv
  <1>7. MessageInv /\ EndInv
    BY <1>2, <1>3 DEF MessageInv, EndInv, FirstNeverExits, Sent
  <1>8. ActiveInv
    <2>1. \A i \in DOMAIN Plan : Plan[i].type = "set_active" => Plan[i].b /\ Plan[i].tid = 0
      BY <1>4, <1>5
    <2>2. 4 \in DOMAIN Plan /\ Plan[4].type = "set_active" /\ Plan[4].tid = 0
      <3>1. 4 \in 1 .. 6
        OBVIOUS
      <3> QED BY <1>4, <1>5, <3>1, Zenon
    <2>3. Plan[Len(Plan)].type # "destructor"
      BY <1>4, <1>5
    <2> QED BY <1>1, <1>2, <2>1, <2>2, <2>3 DEF ActiveInv
  <1>9. LoadInv
    <2>1. ASSUME NEW t \in Threads
          PROVE  slots[First][t] <= Available(q[First][t]) /\ Load(t) <= QueueMax - Slack(t)
      <3>1. ~Owes(t)
        BY <1>4, <1>5 DEF Owes
      <3>2. Load(t) = 0
        BY <1>2, <3>1 DEF Load
      <3>3. Slack(t) \in 1 .. 3
        BY SlackRange
      <3>4. slots[First][t] = 1 /\ q[First][t] = 0 /\ Available(0) >= 1
        BY <1>1, <1>2 DEF Available
      <3> HIDE DEF Load, Slack
      <3> QED BY <1>1, <3>2, <3>3, <3>4
    <2> QED BY <2>1 DEF LoadInv
  <1>10. NumberInv
    <2>1. created[First] = 0
      BY <1>1 DEF Init
    <2>2. \A t \in Threads : tstat[First][t] # "none" => t = 0
      BY <1>2
    <2> QED BY <2>1, <2>2 DEF NumberInv
  <1> QED BY <1>6, <1>7, <1>8, <1>9, <1>10 DEF CoreInv

\* Every step keeps the four invariants.
LEMMA CoreStep ==
    TypeInv /\ ChannelInv /\ NumberInv /\ CoreInv /\ [Next]_vars =>
       TypeInv' /\ ChannelInv' /\ NumberInv' /\ CoreInv'
  <1> SUFFICES ASSUME TypeInv, ChannelInv, NumberInv, CoreInv, [Next]_vars
               PROVE  TypeInv' /\ ChannelInv' /\ CoreInv'
    BY NumberStep
  <1>1. ASSUME NEW p \in Procs, App(p) PROVE TypeInv' /\ ChannelInv' /\ CoreInv'
    <2>1. TypeInv' /\ ChannelInv'
      BY <1>1, AppTyped, ChannelApp
    <2> QED BY <1>1, <2>1, CoreApp, CoreOtherApp
  <1>2. ASSUME NEW p \in Procs, Front(p) PROVE TypeInv' /\ ChannelInv' /\ CoreInv'
    <2>1. TypeInv' /\ ChannelInv'
      BY <1>2, FrontTyped, ChannelFront
    <2> QED BY <1>2, <2>1, CoreFront, CoreOtherFront
  <1>3. CASE Back
    <2>1. TypeInv' /\ ChannelInv'
      BY <1>3, BackTyped, ChannelBack
    <2> QED BY <1>3, <2>1, CoreBack
  <1>4. CASE Terminated \/ UNCHANGED vars
    <2>1. TypeInv'
      BY <1>4, Zenon DEF Terminated, vars, frontVars, backVars, TypeInv, TypeOK, Pending
    <2>2. ChannelInv'
      BY <1>4, ChannelFrame, Zenon DEF Terminated, vars, frontVars, backVars
    <2>3. CoreInv'
      BY <1>4, CoreFrame, Zenon DEF Terminated, vars, frontVars, backVars
    <2> QED BY <2>1, <2>2, <2>3
  <1> QED BY <1>1, <1>2, <1>3, <1>4 DEF Next

\* The invariant holds in every behaviour, for any number of processes.
THEOREM CoreInvariant == Spec => [](TypeInv /\ ChannelInv /\ NumberInv /\ CoreInv)
  <1>1. Init => TypeInv /\ ChannelInv /\ NumberInv /\ CoreInv
    BY InitTyped, ChannelInit, CoreInit
  <1> QED BY <1>1, CoreStep, PTL DEF Spec

\* Between two handlers of the first process the active bits of its cores are
\* those of its threads, for the programs Create admits: those that create no
\* thread after another has ended.  (For the others it fails, and Ownership of
\* EEPthread with it, run EEPthread_reuse.)
THEOREM CoresCorrect == Spec => []CoresAgree
  <1>1. CoreInv => CoresAgree
    BY DEF CoreInv, ActiveInv, CoresAgree, Idle, Alive, Plan
  <1> QED BY <1>1, CoreInvariant, PTL

\* The thread the first process runs is active: resume_simulation never names a
\* blocked or a dead one.  For the same programs.
THEOREM RunsActive == Spec => []RunsActiveThread
  <1>1. CoreInv => RunsActiveThread
    BY DEF CoreInv, ActiveInv, RunsActiveThread, Idle, Alive, Plan
  <1> QED BY <1>1, CoreInvariant, PTL

\* The first process ends neither by add_instruction's exit(1) nor by an answer
\* that names no thread.
THEOREM NeverExits == Spec => []FirstNeverExits
  <1>1. CoreInv => FirstNeverExits
    BY DEF CoreInv, EndInv
  <1> QED BY <1>1, CoreInvariant, PTL

\* A resume request of the first process finds one of its cores active, unless it
\* is the request of a thread that ended as its process's last active one.
FirstResumeFinds ==
    bpc = "serve" /\ currPid = First /\ buf[First].type = "resume" =>
        \/ \E t \in Threads : coreActive[First][t]
        \/ buf[First].killed /\ \A t \in Threads : tstat[First][t] # "active"

\* The invariant says so: the plan is at its resume, and either another thread is
\* active and its bit is set, or the process ends and its last core is still on,
\* or the plan is that of pthread_exit.
LEMMA ResumeServed ==
    ASSUME TypeInv, ChannelInv, CoreInv PROVE FirstResumeFinds
  <1> SUFFICES ASSUME bpc = "serve", currPid = First, buf[First].type = "resume"
               PROVE  \/ \E t \in Threads : coreActive[First][t]
                      \/ buf[First].killed /\ \A t \in Threads : tstat[First][t] # "active"
    BY DEF FirstResumeFinds
  <1>1. fpc[First] = "spin"
    BY FirstTypes DEF FrontPc, ChannelInv, CoreInv, EndInv, FirstNeverExits
  <1>2. /\ Alive /\ Plan # <<>> /\ Head(Plan).type = "resume" /\ Head(Plan) = Plan[1]
        /\ 1 \in DOMAIN Plan /\ Plan \in Seq(Rpc) /\ cur[First] \in Threads
        /\ buf[First].killed = Plan[1].b
    BY <1>1, InHand, FirstTypes DEF Alive
  <1>3. CASE Plan[Len(Plan)].type = "destructor"
    BY <1>2, <1>3 DEF CoreInv, ActiveInv
  <1>4. CASE Plan[Len(Plan)].type # "destructor"
    <2>1. Len(Plan) = 1
      BY <1>2, <1>4 DEF CoreInv, PlanInv, PlanShape
    <2>2. \A i \in DOMAIN Plan : Plan[i].type # "set_active"
      BY <1>2, <2>1
    <2>3. CASE \E t \in Threads : tstat[First][t] = "active"
      BY <1>2, <2>2, <2>3 DEF CoreInv, ActiveInv
    <2>4. CASE \A t \in Threads : tstat[First][t] # "active"
      <3>1. Plan[1].b
        BY <1>2, <1>4, <2>1, <2>4 DEF CoreInv, ActiveInv
      <3> QED BY <1>2, <2>4, <3>1
    <2> QED BY <2>3, <2>4
  <1> QED BY <1>3, <1>4

\* A step that serves the first process drops no instruction.
FirstKept == currPid = First => dropped' = dropped

\* The batch in the message fits into the queue of its thread.
LEMMA BatchFits ==
    TypeInv /\ TypeInv' /\ ChannelInv /\ CoreInv /\ [Next]_vars => FirstKept
  <1> SUFFICES ASSUME TypeInv, TypeInv', ChannelInv, CoreInv, [Next]_vars, currPid = First
               PROVE  dropped' = dropped
    BY DEF FirstKept
  <1>1. CASE ServeAdd
    <2>1. Back /\ UNCHANGED frontVars
      BY <1>1 DEF Back, Serve, ServeAdd
    <2>2. fpc[First] \in {"spin", "gone"} /\ bpc = "serve" /\ buf[First].type = "add"
      BY <1>1, <2>1, BackWhen DEF ServeAdd
    <2>3. fpc[First] = "spin"
      BY <2>2 DEF CoreInv, EndInv
    <2>4. q[First][buf[First].tid] + buf[First].val <= QueueMax
      BY <1>1, <2>1, <2>3, CoreServeAdd
    <2>5. /\ q[First][buf[First].tid] \in Int /\ buf[First].val \in Int
          /\ QueueMax \in Int /\ dropped \in BOOLEAN
      <3>1. buf[First] \in Message /\ q[First] \in [Threads -> 0 .. QueueMax]
        BY FirstTypes
      <3>2. buf[First].tid \in Threads /\ buf[First].val \in Nat
        BY <3>1 DEF Message
      <3>3. dropped \in BOOLEAN
        BY DEF TypeInv, TypeOK
      <3>4. q[First][buf[First].tid] \in 0 .. QueueMax
        BY <3>1, <3>2
      <3> QED BY <3>2, <3>3, <3>4, HandshakeAssumption
    <2>6. ~(q[First][buf[First].tid] + buf[First].val > QueueMax)
      BY <2>4, <2>5
    <2> QED BY <1>1, <2>5, <2>6 DEF ServeAdd
  <1>2. CASE ~ServeAdd
    <2>1. ASSUME NEW p \in Procs, App(p) \/ Front(p) PROVE dropped' = dropped
      BY <2>1, Zenon DEF App, ProcessIns, MutexLock, MutexUnlock, CondWait, CondSignal,
                  BarrierWait, Join, Create, Exit, Cancel, Fini, Handler, Front, Pile, Flush, Request,
                  LowerFlag0, SeeFlag1, RaiseFlag1, backVars
    <2>2. CASE Back
      BY <1>2, <2>2, Zenon DEF Back, SeeFlag0, RaiseFlag0, CopyIn, Limit, Serve,
                  ServeSetActive, ServeGet, ServeResume, ServeDestructor, CopyOut, LowerFlag1
    <2>3. CASE Terminated \/ UNCHANGED vars
      BY <2>3, Zenon DEF Terminated, vars, backVars
    <2> QED BY <2>1, <2>2, <2>3 DEF Next
  <1> QED BY <1>1, <1>2

\* No instruction of the first process is lost in a full queue, however many
\* processes there are.
THEOREM FirstNothingLost == Spec => [][FirstKept]_vars
  <1>1. TypeInv /\ TypeInv' /\ ChannelInv /\ CoreInv /\ [Next]_vars => [FirstKept]_vars
    BY BatchFits
  <1> QED BY <1>1, CoreInvariant, PTL DEF Spec

\* McSim::resume_simulation finds an active core for every resume of the first
\* process but the one of a pthread_exit that leaves no active thread, however many
\* processes there are.
THEOREM FirstResume == Spec => []FirstResumeFinds
  <1>1. TypeInv /\ ChannelInv /\ CoreInv => FirstResumeFinds
    BY ResumeServed
  <1> QED BY <1>1, CoreInvariant, PTL

\* With one process these two are properties of the whole backend.  With several,
\* the others may read an answer that is not theirs (EveryReply fails), their slot
\* counts bound nothing, and NoDrop fails too.  With one, no queue is full when an
\* instruction arrives.
THEOREM NothingDropped == ASSUME NumProcs = 1 PROVE Spec => []NoDrop
  <1>1. Init => NoDrop
    BY DEF Init, NoDrop
  <1>2. TypeInv /\ TypeInv' /\ ChannelInv /\ CoreInv /\ [Next]_vars /\ NoDrop => NoDrop'
    <2> SUFFICES ASSUME TypeInv, TypeInv', ChannelInv, CoreInv, [Next]_vars, NoDrop
                 PROVE  NoDrop'
      OBVIOUS
    <2>1. currPid = First
      BY DEF TypeInv, TypeOK, Procs, First
    <2>2. dropped' = dropped
      BY <2>1, BatchFits DEF FirstKept
    <2> QED BY <2>2 DEF NoDrop
  <1> QED BY <1>1, <1>2, CoreInvariant, PTL DEF Spec

\* Some core is active whenever a resume request is served that is not the one of
\* a pthread_exit that leaves no active thread (one process).
THEOREM ResumeCorrect == ASSUME NumProcs = 1 PROVE Spec => []ResumeFindsCore
  <1>1. TypeInv /\ ChannelInv /\ CoreInv => ResumeFindsCore
    <2> SUFFICES ASSUME TypeInv, ChannelInv, CoreInv PROVE ResumeFindsCore
      OBVIOUS
    <2>1. currPid = First /\ First \in Procs
      BY FirstTyped DEF TypeInv, TypeOK, Procs, First
    <2>2. FirstResumeFinds
      BY ResumeServed
    <2> QED BY <2>1, <2>2 DEF FirstResumeFinds, ResumeFindsCore
  <1> QED BY <1>1, CoreInvariant, PTL

=============================================================================
