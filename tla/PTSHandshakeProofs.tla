------------------------- MODULE PTSHandshakeProofs -------------------------
(***************************************************************************)
(* Proofs about PTSHandshake for every number of processes and threads,    *)
(* every batch size and every queue length: type correctness, and the two  *)
(* facts that make the lock-free channel of the first process sound.       *)
(***************************************************************************)
EXTENDS PTSHandshake, SequenceTheorems, TLAPS

\* A frontend that waits for an answer is inside an RPC of its handler.
Pending ==
    \A p \in Procs : fpc[p] \in {"post", "spin", "got"} => todo[p] # <<>>

TypeInv == TypeOK /\ Pending

-----------------------------------------------------------------------------
(* What the handlers send.                                                 *)

\* Zero is a process and a thread.
LEMMA FirstTyped == First \in Procs /\ 0 \in Threads
  BY HandshakeAssumption DEF Procs, Threads, First

\* Every RPC constructor yields an RPC.
LEMMA RpcTyped ==
    /\ \A t \in Threads : \A b \in BOOLEAN : Add(t, b) \in Rpc /\ SetActive(t, b) \in Rpc
    /\ \A b \in BOOLEAN : Resume(b) \in Rpc
    /\ Get \in Rpc /\ Destructor \in Rpc
  BY FirstTyped DEF Add, SetActive, Resume, Get, Destructor, Rpc, ReqTypes

\* UnblockThread calls for a sequence of threads are a sequence of RPCs.
LEMMA UnblockTyped ==
    ASSUME NEW ws \in Seq(Threads) PROVE Unblock(ws) \in Seq(Rpc)
  <1>1. \A i \in 1 .. 2 * Len(ws) :
           (IF i % 2 = 1 THEN SetActive(ws[(i + 1) \div 2], TRUE)
                         ELSE Add(ws[i \div 2], FALSE)) \in Rpc
    <2> SUFFICES ASSUME NEW i \in 1 .. 2 * Len(ws)
                 PROVE  (IF i % 2 = 1 THEN SetActive(ws[(i + 1) \div 2], TRUE)
                                      ELSE Add(ws[i \div 2], FALSE)) \in Rpc
      OBVIOUS
    <2>1. Len(ws) \in Nat
      OBVIOUS
    <2>2. CASE i % 2 = 1
      <3>1. (i + 1) \div 2 \in 1 .. Len(ws)
        BY <2>1, <2>2
      <3>2. ws[(i + 1) \div 2] \in Threads
        BY <3>1
      <3> QED BY <2>2, <3>2, RpcTyped
    <2>3. CASE i % 2 # 1
      <3>1. i \div 2 \in 1 .. Len(ws)
        BY <2>1, <2>3
      <3>2. ws[i \div 2] \in Threads
        BY <3>1
      <3> QED BY <2>3, <3>2, RpcTyped
    <2> QED BY <2>2, <2>3
  <1>2. 2 * Len(ws) \in Nat
    OBVIOUS
  <1>3. Unblock(ws) \in [1 .. 2 * Len(ws) -> Rpc]
    BY <1>1, Zenon DEF Unblock
  <1> QED BY <1>2, <1>3, SeqDef

\* Updating one entry of a table keeps the table's type.
LEMMA TableUpdate ==
    ASSUME NEW P, NEW T, NEW S, NEW f \in [P -> [T -> S]],
           NEW p \in P, NEW t \in T, NEW v \in S
    PROVE  [f EXCEPT ![p][t] = v] \in [P -> [T -> S]]
  OBVIOUS

\* Short tuples over a set are sequences over it.
LEMMA ShortSeq ==
    ASSUME NEW S, NEW a \in S, NEW b \in S, NEW c \in S,
           NEW d \in S, NEW e \in S, NEW f \in S
    PROVE  /\ <<a>> \in Seq(S) /\ <<a, b>> \in Seq(S) /\ <<a, b, c>> \in Seq(S)
           /\ <<a, b, c, d, e>> \in Seq(S)
           /\ <<a, b, c, d, e, f>> \in Seq(S)
  OBVIOUS

\* The remaining RPC sequences.
LEMMA PlansTyped ==
    /\ Boot \in Seq(Rpc)
    /\ \A t \in Threads : /\ Kill(t) \in Seq(Rpc)
                          /\ Spawn(t) \in Seq(Rpc)
                          /\ \A b \in BOOLEAN : Block(t, b) \in Seq(Rpc)
                          /\ \A b \in BOOLEAN : <<Add(t, b)>> \in Seq(Rpc)
    /\ \A b \in BOOLEAN : <<Resume(b)>> \in Seq(Rpc)
    /\ <<Destructor>> \in Seq(Rpc)
  <1>1. ASSUME NEW t \in Threads
        PROVE  /\ Add(t, FALSE) \in Rpc /\ SetActive(t, TRUE) \in Rpc
               /\ SetActive(t, FALSE) \in Rpc
    BY RpcTyped
  <1>2. Resume(FALSE) \in Rpc /\ Get \in Rpc
    BY RpcTyped
  <1>3. Boot \in Seq(Rpc)
    BY <1>1, <1>2, FirstTyped, ShortSeq, Zenon DEF Boot
  <1>4. ASSUME NEW t \in Threads
        PROVE  Kill(t) \in Seq(Rpc) /\ Spawn(t) \in Seq(Rpc)
    BY <1>1, <1>2, ShortSeq, Zenon DEF Kill, Spawn
  <1>5. ASSUME NEW t \in Threads, NEW b \in BOOLEAN
        PROVE  <<Add(t, b)>> \in Seq(Rpc)
    BY RpcTyped, ShortSeq, Zenon
  <1>6. ASSUME NEW t \in Threads, NEW b \in BOOLEAN
        PROVE  Block(t, b) \in Seq(Rpc)
    <2> DEFINE head == IF b THEN <<Add(t, FALSE)>> ELSE <<>>
               tail == <<SetActive(t, FALSE), Resume(FALSE)>>
    <2>1. head \in Seq(Rpc)
      BY <1>5, EmptySeq, Zenon
    <2>2. tail \in Seq(Rpc)
      BY <1>1, <1>2, ShortSeq, Zenon
    <2>3. Block(t, b) = head \o tail
      BY DEF Block
    <2> HIDE DEF head, tail
    <2> QED BY <2>1, <2>2, <2>3, ConcatProperties, Zenon
  <1>7. ASSUME NEW b \in BOOLEAN PROVE <<Resume(b)>> \in Seq(Rpc)
    BY RpcTyped, ShortSeq, Zenon
  <1>8. <<Destructor>> \in Seq(Rpc)
    BY RpcTyped, ShortSeq, Zenon
  <1> QED BY <1>3, <1>4, <1>5, <1>6, <1>7, <1>8, Zenon

\* The sequences a handler wakes are sequences of threads.
LEMMA WakeableTyped ==
    ASSUME NEW p, NEW n \in Int, NEW ws \in Wakeable(p, n) PROVE ws \in Seq(Threads)
  <1>1. PICK k \in 0 .. n : ws \in [1 .. k -> Threads]
    BY DEF Wakeable
  <1>2. k \in Nat
    OBVIOUS
  <1> QED BY <1>1, <1>2, SeqDef

-----------------------------------------------------------------------------
(* Type correctness, one lemma per group of actions.                       *)

\* A handler whose RPC sequence is well typed keeps the types.
LEMMA HandlerTyped ==
    ASSUME TypeInv, NEW p \in Procs, Idle(p), NEW rpcs \in Seq(Rpc),
           NEW B, NEW W, NEW K, Handler(p, rpcs, B, W, K)
    PROVE  TypeInv'
  <1>1. Restate(p, B, W, K) \in [Threads -> {"none", "active", "blocked"}]
    BY DEF TypeInv, TypeOK, Restate
  <1>2. tstat' \in [Procs -> [Threads -> {"none", "active", "blocked"}]]
    BY <1>1 DEF Handler, TypeInv, TypeOK
  <1>3. fresh' \in [Procs -> [Threads -> BOOLEAN]]
    BY Zenon DEF Handler, TypeInv, TypeOK
  <1>4. todo' \in [Procs -> Seq(Rpc)]
    BY DEF Handler, TypeInv, TypeOK
  <1>5. Pending'
    BY DEF Handler, TypeInv, TypeOK, Pending, Idle
  <1> QED BY <1>2, <1>3, <1>4, <1>5, Zenon DEF Handler, TypeInv, TypeOK, backVars

\* The application's steps keep the types.
LEMMA AppTyped == ASSUME TypeInv, NEW p \in Procs, App(p) PROVE TypeInv'
  <1> USE DEF TypeInv
  <1>0. cur[p] \in Threads /\ ThreadsPer - 1 \in Int /\ 1 \in Int
    BY HandshakeAssumption DEF TypeOK
  <1>0a. \A b \in BOOLEAN : <<Add(cur[p], b)>> \in Seq(Rpc)
    BY <1>0, PlansTyped
  <1>0b. Block(cur[p], FALSE) \in Seq(Rpc) /\ Block(cur[p], TRUE) \in Seq(Rpc)
    BY <1>0, PlansTyped
  <1>1. CASE ProcessIns(p)
    <2>1. todo' \in [Procs -> Seq(Rpc)]
      BY <1>1, <1>0a, Zenon DEF ProcessIns, TypeOK
    <2>2. fresh' \in [Procs -> [Threads -> BOOLEAN]]
      BY <1>1, <1>0, Zenon DEF ProcessIns, TypeOK
    <2>3. Pending'
      BY <1>1 DEF ProcessIns, TypeOK, Pending, Idle
    <2> QED BY <1>1, <2>1, <2>2, <2>3, Zenon DEF ProcessIns, TypeOK, backVars
  <1>2. CASE MutexLock(p)
    <2>1. <<Add(cur[p], FALSE)>> \o Block(cur[p], FALSE) \in Seq(Rpc)
      BY <1>0a, <1>0b, ConcatProperties
    <2> QED BY <1>2, <1>0a, <2>1, HandlerTyped DEF MutexLock, Calls
  <1>3. CASE MutexUnlock(p)
    <2>1. PICK ws \in Wakeable(p, 1) :
             Handler(p, <<Add(cur[p], FALSE)>> \o Unblock(ws), {}, Members(ws), {})
      BY <1>3 DEF MutexUnlock
    <2>2. <<Add(cur[p], FALSE)>> \o Unblock(ws) \in Seq(Rpc)
      BY <1>0, <1>0a, WakeableTyped, UnblockTyped, ConcatProperties
    <2> QED BY <1>3, <2>1, <2>2, HandlerTyped DEF MutexUnlock, Calls
  <1>4. CASE CondWait(p)
    <2>1. PICK ws \in Wakeable(p, 1) :
             Handler(p, <<Add(cur[p], FALSE)>> \o Unblock(ws) \o Block(cur[p], FALSE),
                     {cur[p]}, Members(ws), {})
      BY <1>4 DEF CondWait
    <2>2. <<Add(cur[p], FALSE)>> \o Unblock(ws) \in Seq(Rpc)
      BY <1>0, <1>0a, WakeableTyped, UnblockTyped, ConcatProperties
    <2>3. <<Add(cur[p], FALSE)>> \o Unblock(ws) \o Block(cur[p], FALSE) \in Seq(Rpc)
      BY <2>2, <1>0b, ConcatProperties
    <2> QED BY <1>4, <2>1, <2>3, HandlerTyped DEF CondWait, Calls
  <1>5. CASE CondSignal(p)
    <2>1. PICK ws \in Wakeable(p, ThreadsPer - 1) :
             Handler(p, Unblock(ws), {}, Members(ws), {})
      BY <1>5 DEF CondSignal
    <2>2. Unblock(ws) \in Seq(Rpc)
      BY <1>0, WakeableTyped, UnblockTyped
    <2> QED BY <1>5, <2>1, <2>2, HandlerTyped DEF CondSignal, Calls
  <1>6. CASE BarrierWait(p)
    <2>1. CASE \E ws \in Wakeable(p, ThreadsPer - 1) :
             Handler(p, <<Add(cur[p], FALSE)>> \o Unblock(ws), {}, Members(ws), {})
      <3>1. PICK ws \in Wakeable(p, ThreadsPer - 1) :
             Handler(p, <<Add(cur[p], FALSE)>> \o Unblock(ws), {}, Members(ws), {})
        BY <2>1
      <3>2. <<Add(cur[p], FALSE)>> \o Unblock(ws) \in Seq(Rpc)
        BY <1>0, <1>0a, WakeableTyped, UnblockTyped, ConcatProperties
      <3> QED BY <1>6, <3>1, <3>2, HandlerTyped DEF BarrierWait, Calls
    <2>2. CASE Handler(p, Block(cur[p], TRUE), {cur[p]}, {}, {})
      BY <1>6, <2>2, <1>0b, HandlerTyped DEF BarrierWait, Calls
    <2> QED BY <1>6, <2>1, <2>2 DEF BarrierWait
  <1>7. CASE Join(p)
    BY <1>7, <1>0b, HandlerTyped DEF Join, Calls
  <1>8. CASE Create(p)
    <2> DEFINE live == {t \in Threads : tstat[p][t] # "none"}
               new  == Cardinality(live)
    <2>1. /\ Idle(p) /\ new \in Threads
          /\ todo'  = [todo EXCEPT ![p] = Spawn(new)]
          /\ tstat' = [tstat EXCEPT ![p][new] = "active"]
          /\ fresh' = [fresh EXCEPT ![p][cur[p]] = FALSE]
          /\ created' = [created EXCEPT ![p] = @ + 1]
          /\ UNCHANGED <<fpc, batch, slots, cur, seq, flag0, flag1, shm, backVars>>
      BY <1>8, Zenon DEF Create, Calls
    <2> HIDE DEF new
    <2>2. todo' \in [Procs -> Seq(Rpc)]
      BY <2>1, PlansTyped DEF TypeOK
    <2>3. tstat' \in [Procs -> [Threads -> {"none", "active", "blocked"}]]
      BY <2>1 DEF TypeOK
    <2>4. fresh' \in [Procs -> [Threads -> BOOLEAN]]
      BY <2>1, <1>0, Zenon DEF TypeOK
    <2>5. created' \in [Procs -> Nat]
      <3>0. created[p] \in Nat
        BY DEF TypeOK
      <3>1. created[p] + 1 \in Nat
        BY <3>0
      <3>2. created' = [created EXCEPT ![p] = created[p] + 1] /\ created \in [Procs -> Nat]
        BY <2>1 DEF TypeOK
      <3> QED BY <3>1, <3>2, Zenon
    <2>6. Pending'
      BY <2>1 DEF TypeOK, Pending, Idle
    <2> QED BY <2>1, <2>2, <2>3, <2>4, <2>5, <2>6, Zenon DEF TypeOK, backVars
  <1>9. CASE Exit(p)
    <2>1. PICK ws \in Wakeable(p, 1) :
             Handler(p, Unblock(ws) \o Kill(cur[p]) \o <<Resume(TRUE)>>,
                     {}, Members(ws), {cur[p]})
      BY <1>9 DEF Exit
    <2>2. Unblock(ws) \o Kill(cur[p]) \in Seq(Rpc)
      BY <1>0, PlansTyped, WakeableTyped, UnblockTyped, ConcatProperties
    <2>2a. <<Resume(TRUE)>> \in Seq(Rpc)
      BY PlansTyped
    <2>3. Unblock(ws) \o Kill(cur[p]) \o <<Resume(TRUE)>> \in Seq(Rpc)
      BY <2>2, <2>2a, ConcatProperties
    <2> QED BY <1>9, <2>1, <2>3, HandlerTyped DEF Exit, Calls
  <1>10. CASE Fini(p)
    <2>1. /\ <<Resume(TRUE)>> \in Seq(Rpc) /\ Kill(cur[p]) \in Seq(Rpc)
          /\ <<Destructor>> \in Seq(Rpc)
      BY <1>0, PlansTyped
    <2>2. <<Resume(TRUE)>> \o Kill(cur[p]) \in Seq(Rpc)
      BY <2>1, ConcatProperties
    <2>3. <<Resume(TRUE)>> \o Kill(cur[p]) \o <<Destructor>> \in Seq(Rpc)
      BY <2>1, <2>2, ConcatProperties
    <2> QED BY <1>10, <2>3, HandlerTyped DEF Fini, Calls
  <1>11. CASE Cancel(p)
    <2>1. PICK ws \in Wakeable(p, 1), k \in Threads \ {cur[p]} :
             Handler(p, Unblock(ws) \o Kill(k), {}, Members(ws), {k})
      BY <1>11 DEF Cancel
    <2>2. Unblock(ws) \o Kill(k) \in Seq(Rpc)
      BY <1>0, PlansTyped, WakeableTyped, UnblockTyped, ConcatProperties
    <2> QED BY <1>11, <2>1, <2>2, HandlerTyped DEF Cancel, Calls
  <1> QED BY <1>1, <1>2, <1>3, <1>4, <1>5, <1>6, <1>7, <1>8, <1>9, <1>10, <1>11 DEF App

\* Posting a well-typed message keeps the types of what it writes.
LEMMA PostTyped ==
    ASSUME TypeInv, NEW p \in Procs, NEW msg \in Message, Post(p, msg)
    PROVE  /\ shm' \in [Procs -> Message]
           /\ seq' \in [Procs -> {0, 1}]
           /\ fpc' \in [Procs -> FrontPc]
  <1>0. seq[p] \in {0, 1}
    BY DEF TypeInv, TypeOK
  <1>1. 1 - seq[p] \in {0, 1}
    BY <1>0
  <1>2. [msg EXCEPT !.id = 1 - seq[p], !.rep = FALSE] \in Message
    BY <1>1 DEF Message
  <1>3. seq' \in [Procs -> {0, 1}]
    BY <1>1 DEF Post, TypeInv, TypeOK
  <1>4. shm' \in [Procs -> Message]
    BY <1>2 DEF Post, TypeInv, TypeOK
  <1>5. fpc' \in [Procs -> FrontPc]
    BY DEF Post, TypeInv, TypeOK, FrontPc
  <1> QED BY <1>3, <1>4, <1>5

\* The cleared message is a message.
LEMMA NoMsgTyped == NoMsg \in Message
  BY FirstTyped DEF NoMsg, Message, MsgTypes

\* A batch message is a message.
LEMMA BatchTyped ==
    ASSUME NEW t \in Threads, NEW n \in Nat PROVE BatchMsg(t, n) \in Message
  BY NoMsgTyped DEF BatchMsg, Message, MsgTypes, ReqTypes

\* So is every other request.
LEMMA RequestTyped ==
    ASSUME NEW r \in Rpc PROVE RequestMsg(r) \in Message
  <1>1. r.tid \in Threads /\ r.tid \in Nat /\ r.b \in BOOLEAN /\ r.type \in MsgTypes
    BY HandshakeAssumption DEF Rpc, Threads, MsgTypes
  <1>2. [NoMsg EXCEPT !.type = "set_active", !.val = r.tid, !.bool_val = r.b] \in Message
    BY <1>1, NoMsgTyped DEF Message, MsgTypes, ReqTypes
  <1>3. [NoMsg EXCEPT !.type = "resume", !.killed = r.b] \in Message
    BY <1>1, NoMsgTyped DEF Message, MsgTypes, ReqTypes
  <1>4. [NoMsg EXCEPT !.type = r.type] \in Message
    BY <1>1, NoMsgTyped DEF Message
  <1> QED BY <1>2, <1>3, <1>4 DEF RequestMsg

\* The frontend's channel steps keep the types.
LEMMA FrontTyped == ASSUME TypeInv, NEW p \in Procs, Front(p) PROVE TypeInv'
  <1> USE DEF TypeInv
  <1>0. ASSUME todo[p] # <<>>
        PROVE  Head(todo[p]) \in Rpc /\ Tail(todo[p]) \in Seq(Rpc)
    <2>1. todo[p] \in Seq(Rpc)
      BY DEF TypeOK
    <2> QED BY <1>0, <2>1, HeadTailProperties
  <1>1. CASE Pile(p)
    <2> DEFINE r == Head(todo[p])
               n == batch[p].n + 1
    <2>1. r \in Rpc /\ Tail(todo[p]) \in Seq(Rpc) /\ fpc[p] = "run"
      BY <1>0, <1>1 DEF Pile
    <2>2. n \in Nat /\ r.tid \in Threads
      <3>1. batch[p].n \in Nat
        BY DEF TypeOK
      <3>2. r.tid \in Threads
        BY <2>1 DEF Rpc
      <3> QED BY <3>1, <3>2
    <2>3. UNCHANGED <<slots, cur, tstat, fresh, created, flag0, flag1, backVars>>
      BY <1>1 DEF Pile
    <2>4. CASE /\ fpc' = [fpc EXCEPT ![p] = "exited"]
               /\ UNCHANGED <<todo, batch, seq, shm>>
      <3>1. fpc' \in [Procs -> FrontPc]
        BY <2>4 DEF TypeOK, FrontPc
      <3>2. Pending'
        BY <2>4 DEF TypeOK, Pending
      <3> QED BY <2>3, <2>4, <3>1, <3>2, Zenon DEF TypeOK, backVars
    <2>5. CASE /\ batch' = [batch EXCEPT ![p] = [tid |-> r.tid, n |-> n]]
               /\ Post(p, BatchMsg(r.tid, n)) /\ UNCHANGED todo
      <3>1. batch' \in [Procs -> [tid : Threads, n : Nat]]
        BY <2>2, <2>5 DEF TypeOK
      <3>2. /\ shm' \in [Procs -> Message] /\ seq' \in [Procs -> {0, 1}]
            /\ fpc' \in [Procs -> FrontPc]
        BY <2>2, <2>5, BatchTyped, PostTyped
      <3>3. Pending'
        BY <1>1, <2>5 DEF TypeOK, Pending, Post, Pile
      <3> QED BY <2>3, <2>5, <3>1, <3>2, <3>3, Zenon DEF TypeOK, backVars
    <2>6. CASE /\ batch' = [batch EXCEPT ![p] = [tid |-> r.tid, n |-> n]]
               /\ todo' = [todo EXCEPT ![p] = Tail(@)]
               /\ UNCHANGED <<fpc, seq, shm>>
      <3>1. batch' \in [Procs -> [tid : Threads, n : Nat]]
        BY <2>2, <2>6 DEF TypeOK
      <3>2. todo' \in [Procs -> Seq(Rpc)]
        BY <2>1, <2>6 DEF TypeOK
      <3>3. Pending'
        BY <2>1, <2>6 DEF TypeOK, Pending
      <3> QED BY <2>3, <2>6, <3>1, <3>2, <3>3, Zenon DEF TypeOK, backVars
    <2> QED BY <1>1, <2>4, <2>5, <2>6, Zenon DEF Pile
  <1>2. CASE Flush(p)
    <2>1. batch[p].tid \in Threads /\ batch[p].n \in Nat
      BY DEF TypeOK
    <2>2. /\ shm' \in [Procs -> Message] /\ seq' \in [Procs -> {0, 1}]
          /\ fpc' \in [Procs -> FrontPc]
      BY <1>2, <2>1, BatchTyped, PostTyped DEF Flush
    <2>3. Pending'
      BY <1>2 DEF Flush, TypeOK, Pending, Post
    <2> QED BY <1>2, <2>2, <2>3, Zenon DEF Flush, TypeOK, backVars
  <1>3. CASE Request(p)
    <2>1. RequestMsg(Head(todo[p])) \in Message
      BY <1>0, <1>3, RequestTyped DEF Request
    <2>2. /\ shm' \in [Procs -> Message] /\ seq' \in [Procs -> {0, 1}]
          /\ fpc' \in [Procs -> FrontPc]
      BY <1>3, <2>1, PostTyped DEF Request
    <2>3. Pending'
      BY <1>3 DEF Request, TypeOK, Pending, Post
    <2> QED BY <1>3, <2>2, <2>3, Zenon DEF Request, TypeOK, backVars
  <1>4. CASE LowerFlag0(p)
    <2>1. fpc' \in [Procs -> FrontPc]
      BY <1>4 DEF LowerFlag0, TypeOK, FrontPc
    <2>2. flag0' \in [Procs -> BOOLEAN]
      BY <1>4, Zenon DEF LowerFlag0, TypeOK
    <2>3. Pending'
      BY <1>4 DEF LowerFlag0, TypeOK, Pending
    <2> QED BY <1>4, <2>1, <2>2, <2>3, Zenon DEF LowerFlag0, TypeOK, backVars
  <1>5. CASE SeeFlag1(p)
    <2>1. fpc' \in [Procs -> FrontPc]
      BY <1>5 DEF SeeFlag1, TypeOK, FrontPc
    <2>2. Pending'
      BY <1>5 DEF SeeFlag1, TypeOK, Pending
    <2> QED BY <1>5, <2>1, <2>2, Zenon DEF SeeFlag1, TypeOK, backVars
  <1>6. CASE RaiseFlag1(p)
    <2> DEFINE r == Head(todo[p])
               val == shm[p].val
               tail == IF r.type # "add" THEN todo[p]
                       ELSE (IF r.pile /\ val <= 1 THEN <<Resume(FALSE)>>
                                                   ELSE <<>>) \o Tail(todo[p])
    <2>1. todo[p] # <<>>
      BY <1>6 DEF RaiseFlag1, Pending
    <2>2. r \in Rpc /\ Tail(todo[p]) \in Seq(Rpc) /\ todo[p] \in Seq(Rpc)
      BY <2>1, <1>0 DEF TypeOK
    <2>3. val \in Nat /\ batch[p].tid \in Threads
      BY DEF TypeOK, Message
    <2>4. flag1' \in [Procs -> BOOLEAN]
      BY <1>6, Zenon DEF RaiseFlag1, TypeOK
    <2>5. tail \in Seq(Rpc)
      <3>1. <<Resume(FALSE)>> \in Seq(Rpc) /\ <<>> \in Seq(Rpc)
        BY PlansTyped, EmptySeq
      <3>2. /\ <<Resume(FALSE)>> \o Tail(todo[p]) \in Seq(Rpc)
            /\ <<>> \o Tail(todo[p]) \in Seq(Rpc)
        BY <2>2, <3>1, ConcatProperties
      <3> QED BY <2>2, <3>2, Zenon
    <2>6. CASE batch[p].n > 0
      <3>1. /\ slots' = [slots EXCEPT ![p][batch[p].tid] = val]
            /\ batch' = [batch EXCEPT ![p].n = 0]
            /\ todo'  = [todo EXCEPT ![p] = tail]
            /\ fpc'   = [fpc EXCEPT ![p] = "run"]
            /\ UNCHANGED cur
        BY <1>6, <2>6, Zenon DEF RaiseFlag1, UseReply
      <3> HIDE DEF tail
      <3>2. slots' \in [Procs -> [Threads -> Nat]]
        BY <2>3, <3>1 DEF TypeOK
      <3>3. batch' \in [Procs -> [tid : Threads, n : Nat]]
        BY <3>1 DEF TypeOK
      <3>4. todo' \in [Procs -> Seq(Rpc)]
        BY <2>5, <3>1 DEF TypeOK
      <3>5. fpc' \in [Procs -> FrontPc]
        BY <3>1 DEF TypeOK, FrontPc
      <3>6. Pending'
        BY <3>1 DEF TypeOK, Pending
      <3> QED BY <1>6, <2>4, <3>1, <3>2, <3>3, <3>4, <3>5, <3>6, Zenon
              DEF RaiseFlag1, TypeOK, backVars
    <2>7. CASE ~(batch[p].n > 0)
      <3>1. /\ todo' = [todo EXCEPT ![p] = Tail(todo[p])]
            /\ UNCHANGED <<slots, batch>>
            /\ \/ fpc' = [fpc EXCEPT ![p] = "exited"] /\ UNCHANGED cur
               \/ /\ fpc' = [fpc EXCEPT ![p] = "run"]
                  /\ \/ UNCHANGED cur
                     \/ val \in Threads /\ cur' = [cur EXCEPT ![p] = val]
        BY <1>6, <2>7, Zenon DEF RaiseFlag1, UseReply
      <3>2. todo' \in [Procs -> Seq(Rpc)]
        BY <2>2, <3>1 DEF TypeOK
      <3>3. fpc' \in [Procs -> FrontPc]
        BY <3>1 DEF TypeOK, FrontPc
      <3>4. cur' \in [Procs -> Threads]
        BY <3>1 DEF TypeOK
      <3>5. Pending'
        BY <3>1 DEF TypeOK, Pending
      <3> QED BY <1>6, <2>4, <3>1, <3>2, <3>3, <3>4, <3>5, Zenon
              DEF RaiseFlag1, TypeOK, backVars
    <2> QED BY <2>6, <2>7
  <1> QED BY <1>1, <1>2, <1>3, <1>4, <1>5, <1>6 DEF Front

\* The backend's steps keep the types.
LEMMA BackTyped == ASSUME TypeInv, Back PROVE TypeInv'
  <1> USE DEF TypeInv
  <1>0. /\ currPid \in Procs /\ buf[currPid] \in Message /\ shm[currPid] \in Message
        /\ buf \in [Procs -> Message] /\ shm \in [Procs -> Message]
    BY DEF TypeOK
  <1>1. CASE SeeFlag0
    BY <1>1, Zenon DEF SeeFlag0, TypeOK, BackPc, Pending, frontVars
  <1>2. CASE RaiseFlag0
    <2>1. flag0' \in [Procs -> BOOLEAN]
      BY <1>2, Zenon DEF RaiseFlag0, TypeOK
    <2> QED BY <1>2, <2>1, Zenon DEF RaiseFlag0, TypeOK, BackPc, Pending, frontVars
  <1>3. CASE CopyIn
    <2>1. buf' \in [Procs -> Message]
      BY <1>0, <1>3 DEF CopyIn
    <2> QED BY <1>3, <2>1, Zenon DEF CopyIn, TypeOK, BackPc, Pending, frontVars
  <1>4. CASE Limit
    <2>1. fpc' \in [Procs -> FrontPc] /\ Pending'
      BY <1>4 DEF Limit, FrontPc, Pending
    <2> QED BY <1>4, <2>1, Zenon DEF Limit, TypeOK, BackPc
  <1>5. ASSUME NEW p \in Procs, NEW t \in Threads, ResumeTo(p, t)
        PROVE  /\ buf' \in [Procs -> Message] /\ currPid' \in Procs
               /\ q' \in [Procs -> [Threads -> 0 .. QueueMax]]
    <2>1. buf[p] \in Message /\ t \in Nat
      BY <1>0, HandshakeAssumption DEF Threads
    <2>2. [buf[p] EXCEPT !.type = "resume", !.val = t, !.rep = TRUE] \in Message
      BY <2>1 DEF Message, MsgTypes, ReqTypes
    <2>3. buf' \in [Procs -> Message]
      BY <1>0, <1>5, <2>2 DEF ResumeTo
    <2> QED BY <1>5, <2>3, Zenon DEF ResumeTo, Drained
  <1>6. CASE ServeAdd
    <2> DEFINE m   == buf[currPid]
               len == q[currPid][m.tid] + m.val
               new == IF len > QueueMax THEN QueueMax ELSE len
    <2>1. m.tid \in Threads /\ m.val \in Nat
      BY <1>0 DEF Message
    <2>2. q[currPid][m.tid] \in 0 .. QueueMax
      BY <1>0, <2>1 DEF TypeOK
    <2>3. new \in 0 .. QueueMax /\ (len > QueueMax) \in BOOLEAN
      BY <2>1, <2>2, HandshakeAssumption
    <2>4. Available(new) \in Nat
      BY <2>3, HandshakeAssumption DEF Available
    <2>5. /\ q' = [q EXCEPT ![currPid][m.tid] = new]
          /\ dropped' = (dropped \/ len > QueueMax)
          /\ buf' = [buf EXCEPT ![currPid].val = Available(new), ![currPid].rep = TRUE]
      BY <1>6, Zenon DEF ServeAdd
    <2> HIDE DEF new, len
    <2>6. q' \in [Procs -> [Threads -> 0 .. QueueMax]]
      BY <1>0, <2>1, <2>3, <2>5 DEF TypeOK
    <2>7. buf' \in [Procs -> Message]
      <3>1. [m EXCEPT !.val = Available(new), !.rep = TRUE] \in Message
        BY <1>0, <2>4 DEF Message
      <3>2. buf' = [buf EXCEPT ![currPid] = [m EXCEPT !.val = Available(new), !.rep = TRUE]]
        BY <1>0, <2>5
      <3> QED BY <1>0, <3>1, <3>2
    <2>8. dropped' \in BOOLEAN
      BY <2>3, <2>5, Zenon DEF TypeOK
    <2> QED BY <1>6, <2>6, <2>7, <2>8, Zenon DEF ServeAdd, TypeOK, BackPc, Pending, frontVars
  <1>7. CASE ServeSetActive
    <2>1. buf' \in [Procs -> Message]
      <3>1. [buf[currPid] EXCEPT !.rep = TRUE] \in Message
        BY <1>0 DEF Message
      <3>2. buf' = [buf EXCEPT ![currPid] = [buf[currPid] EXCEPT !.rep = TRUE]]
        BY <1>0, <1>7 DEF ServeSetActive
      <3> QED BY <1>0, <3>1, <3>2
    <2>2. coreActive' \in [Procs -> [Threads -> BOOLEAN]]
      <3>1. buf[currPid].bool_val \in BOOLEAN
        BY <1>0 DEF Message
      <3>2. coreActive \in [Procs -> [Threads -> BOOLEAN]]
        BY DEF TypeOK
      <3>3. \/ coreActive' = coreActive
            \/ /\ buf[currPid].val \in Threads
               /\ coreActive' = [coreActive EXCEPT ![currPid][buf[currPid].val]
                                                     = buf[currPid].bool_val]
        BY <1>7, Zenon DEF ServeSetActive
      <3>4. ASSUME NEW f \in [Procs -> [Threads -> BOOLEAN]], NEW p \in Procs,
                   NEW t \in Threads, NEW v \in BOOLEAN
            PROVE  [f EXCEPT ![p][t] = v] \in [Procs -> [Threads -> BOOLEAN]]
        BY TableUpdate, Zenon
      <3>5. CASE coreActive' = coreActive
        BY <3>2, <3>5
      <3>6. CASE /\ buf[currPid].val \in Threads
                 /\ coreActive' = [coreActive EXCEPT ![currPid][buf[currPid].val]
                                                     = buf[currPid].bool_val]
        BY <1>0, <3>1, <3>2, <3>4, <3>6, Zenon
      <3> QED BY <3>3, <3>5, <3>6, Zenon
    <2> QED BY <1>7, <2>1, <2>2, Zenon DEF ServeSetActive, TypeOK, BackPc, Pending, frontVars
  <1>8. CASE ServeGet
    <2>1. buf' \in [Procs -> Message]
      <3>0. NumProcs * ThreadsPer \in Nat
        BY HandshakeAssumption
      <3>1. [buf[currPid] EXCEPT !.val = NumProcs * ThreadsPer, !.rep = TRUE] \in Message
        BY <1>0, <3>0 DEF Message
      <3>2. buf' = [buf EXCEPT ![currPid] =
                      [buf[currPid] EXCEPT !.val = NumProcs * ThreadsPer, !.rep = TRUE]]
        BY <1>0, <1>8 DEF ServeGet
      <3> QED BY <1>0, <3>1, <3>2, Zenon
    <2> QED BY <1>8, <2>1, Zenon DEF ServeGet, TypeOK, BackPc, Pending, frontVars
  <1>9. CASE ServeResume
    <2>1. /\ buf' \in [Procs -> Message] /\ currPid' \in Procs
          /\ q' \in [Procs -> [Threads -> 0 .. QueueMax]]
      BY <1>5, <1>9 DEF ServeResume, TypeOK
    <2>1a. bpc' \in BackPc
      BY <1>9 DEF ServeResume, BackPc
    <2>2. nactive' \in Int
      <3>1. nactive \in Int
        BY DEF TypeOK
      <3>2. nactive' = nactive - 1 \/ nactive' = nactive
        BY <1>9 DEF ServeResume
      <3> QED BY <3>1, <3>2
    <2>3. signalled' \in BOOLEAN
      BY <1>9, Zenon DEF ServeResume, TypeOK
    <2> QED BY <1>9, <2>1, <2>1a, <2>2, <2>3, Zenon DEF ServeResume, TypeOK, Pending, frontVars
  <1>10. CASE ServeDestructor
    <2>1. /\ buf' \in [Procs -> Message] /\ currPid' \in Procs
          /\ q' \in [Procs -> [Threads -> 0 .. QueueMax]]
      BY <1>5, <1>10 DEF ServeDestructor, TypeOK
    <2>2. bpc' \in BackPc
      BY <1>10 DEF ServeDestructor, BackPc
    <2> QED BY <1>10, <2>1, <2>2, Zenon DEF ServeDestructor, TypeOK, Pending, frontVars
  <1>11. CASE CopyOut
    <2>1. shm[currPid].tid \in Threads
      BY <1>0 DEF Message
    <2>2. [buf[currPid] EXCEPT !.tid = shm[currPid].tid] \in Message
      BY <1>0, <2>1 DEF Message
    <2>3. shm' \in [Procs -> Message]
      BY <1>0, <1>11, <2>2 DEF CopyOut
    <2>4. bpc' \in BackPc
      BY <1>11 DEF CopyOut, BackPc
    <2> QED BY <1>11, <2>3, <2>4, Zenon DEF CopyOut, TypeOK, Pending, frontVars
  <1>12. CASE LowerFlag1
    <2>1. flag1' \in [Procs -> BOOLEAN]
      BY <1>12, Zenon DEF LowerFlag1, TypeOK
    <2>2. bpc' \in BackPc
      BY <1>12 DEF LowerFlag1, BackPc
    <2> QED BY <1>12, <2>1, <2>2, Zenon DEF LowerFlag1, TypeOK, Pending, frontVars
  <1> QED BY <1>1, <1>2, <1>3, <1>4, <1>6, <1>7, <1>8, <1>9, <1>10, <1>11, <1>12
          DEF Back, Serve

\* The initial state is well typed.
LEMMA InitTyped == Init => TypeInv
  <1> SUFFICES ASSUME Init PROVE TypeInv
    OBVIOUS
  <1>1. NoMsg \in Message
    BY NoMsgTyped
  <1>2. Boot \in Seq(Rpc) /\ First \in Procs /\ 0 \in Threads
    BY PlansTyped, FirstTyped
  <1>3. NumProcs * ThreadsPer \in Int
    BY HandshakeAssumption
  <1>4. q \in [Procs -> [Threads -> 0 .. QueueMax]]
    <2>1. 0 \in 0 .. QueueMax /\ 1 \in 0 .. QueueMax
      BY HandshakeAssumption
    <2> QED BY <2>1 DEF Init
  <1>5. coreActive \in [Procs -> [Threads -> BOOLEAN]]
    BY Zenon DEF Init
  <1>6. /\ fpc \in [Procs -> FrontPc] /\ todo \in [Procs -> Seq(Rpc)]
        /\ batch \in [Procs -> [tid : Threads, n : Nat]]
        /\ slots \in [Procs -> [Threads -> Nat]] /\ cur \in [Procs -> Threads]
        /\ tstat \in [Procs -> [Threads -> {"none", "active", "blocked"}]]
        /\ created \in [Procs -> Nat] /\ seq \in [Procs -> {0, 1}]
    BY <1>2 DEF Init, FrontPc
  <1>7. /\ fresh \in [Procs -> [Threads -> BOOLEAN]]
        /\ flag0 \in [Procs -> BOOLEAN] /\ flag1 \in [Procs -> BOOLEAN]
        /\ shm \in [Procs -> Message] /\ buf \in [Procs -> Message]
        /\ bpc \in BackPc /\ currPid \in Procs /\ nactive \in Int
        /\ signalled \in BOOLEAN /\ dropped \in BOOLEAN
    BY <1>1, <1>2, <1>3, Zenon DEF Init, BackPc
  <1>8. Pending
    BY DEF Init, Pending
  <1> QED BY <1>4, <1>5, <1>6, <1>7, <1>8, Zenon DEF TypeInv, TypeOK

\* In every behaviour every variable keeps its type, for every number of
\* processes and threads.
THEOREM TypeCorrect == Spec => []TypeOK
  <1>1. TypeInv /\ [Next]_vars => TypeInv'
    <2> SUFFICES ASSUME TypeInv, [Next]_vars PROVE TypeInv'
      OBVIOUS
    <2>1. CASE \E p \in Procs : App(p) \/ Front(p)
      BY <2>1, AppTyped, FrontTyped
    <2>2. CASE Back
      BY <2>2, BackTyped
    <2>3. CASE Terminated \/ UNCHANGED vars
      BY <2>3, Zenon DEF Terminated, vars, frontVars, backVars, TypeInv, TypeOK, Pending
    <2> QED BY <2>1, <2>2, <2>3 DEF Next
  <1>2. TypeInv => TypeOK
    BY DEF TypeInv
  <1> QED BY <1>1, <1>2, InitTyped, PTL DEF Spec

-----------------------------------------------------------------------------
(* The channel of the first process.                                       *)

\* The channel invariant holds initially.
LEMMA ChannelInit == Init => ChannelInv
  BY FirstTyped DEF Init, ChannelInv

\* A step that leaves the backend alone and changes neither the channel state
\* nor the program counter of the first process keeps the invariant.
LEMMA ChannelFrame ==
    ASSUME ChannelInv, UNCHANGED <<bpc, currPid, buf>>,
           fpc'[First] = fpc[First], flag0'[First] = flag0[First],
           flag1'[First] = flag1[First], shm'[First] = shm[First],
           seq'[First] = seq[First]
    PROVE  ChannelInv'
  BY Zenon DEF ChannelInv, Posted, Received, Serving, Served, Copied, Parked,
               Replied, Stuck

\* The application only plans RPCs.
LEMMA ChannelApp == ASSUME ChannelInv, NEW p \in Procs, App(p) PROVE ChannelInv'
  <1>1. UNCHANGED <<fpc, seq, flag0, flag1, shm, backVars>>
    BY Zenon DEF App, ProcessIns, MutexLock, MutexUnlock, CondWait, CondSignal,
                 BarrierWait, Join, Create, Exit, Cancel, Fini, Handler
  <1> QED BY <1>1, ChannelFrame, Zenon DEF backVars

\* The frontend's channel steps, of the first process and of the others.
LEMMA ChannelFront ==
    ASSUME TypeInv, ChannelInv, NEW p \in Procs, Front(p) PROVE ChannelInv'
  <1>0. /\ fpc \in [Procs -> FrontPc] /\ flag0 \in [Procs -> BOOLEAN]
        /\ flag1 \in [Procs -> BOOLEAN] /\ shm \in [Procs -> Message]
        /\ seq \in [Procs -> {0, 1}] /\ First \in Procs
    BY FirstTyped DEF TypeInv, TypeOK
  <1>1. UNCHANGED <<bpc, currPid, buf>>
    BY Zenon DEF Front, Pile, Flush, Request, LowerFlag0, SeeFlag1, RaiseFlag1, backVars
  <1>2. CASE p # First
    <2>1. /\ fpc'[First] = fpc[First] /\ flag0'[First] = flag0[First]
          /\ flag1'[First] = flag1[First] /\ shm'[First] = shm[First]
          /\ seq'[First] = seq[First]
      BY <1>0, <1>2 DEF Front, Pile, Flush, Request, LowerFlag0, SeeFlag1,
                        RaiseFlag1, UseReply, Post
    <2> QED BY <1>1, <2>1, ChannelFrame, Zenon
  <1>3. CASE p = First
    <2>1. ASSUME NEW msg, Post(First, msg), fpc[First] = "run", UNCHANGED <<flag0, flag1>>,
                 msg \in Message
          PROVE  ChannelInv'
      <3>1. fpc'[First] = "post" /\ shm'[First].id = seq'[First]
        BY <1>0, <2>1 DEF Post, Message
      <3>2. currPid' = First /\ bpc' = "poll" /\ flag0'[First] /\ flag1'[First]
        BY <1>1, <2>1 DEF ChannelInv
      <3> QED BY <3>1, <3>2 DEF ChannelInv
    <2>2. CASE Pile(First)
      <3>1. CASE fpc' = [fpc EXCEPT ![First] = "exited"] /\ UNCHANGED <<seq, shm>>
        <4>1. fpc'[First] = "exited" /\ UNCHANGED flag0 /\ fpc[First] = "run"
          BY <1>0, <2>2, <3>1 DEF Pile
        <4> QED BY <1>1, <4>1 DEF ChannelInv
      <3>2. CASE UNCHANGED <<fpc, seq, shm>>
        BY <1>1, <2>2, <3>2, ChannelFrame, Zenon DEF Pile
      <3>3. CASE Post(First, BatchMsg(Head(todo[First]).tid, batch[First].n + 1))
        <4>1. batch[First] \in [tid : Threads, n : Nat] /\ todo[First] \in Seq(Rpc)
          BY <1>0 DEF TypeInv, TypeOK
        <4>2. batch[First].n + 1 \in Nat
          BY <4>1
        <4>3. Head(todo[First]) \in Rpc
          BY <2>2, <4>1, HeadTailProperties DEF Pile
        <4>4. Head(todo[First]).tid \in Threads
          BY <4>3 DEF Rpc
        <4>5. BatchMsg(Head(todo[First]).tid, batch[First].n + 1) \in Message
          BY <1>0, <4>2, <4>4, BatchTyped
        <4> QED BY <2>1, <2>2, <3>3, <4>5 DEF Pile
      <3> QED BY <2>2, <3>1, <3>2, <3>3, Zenon DEF Pile
    <2>3. CASE Flush(First)
      <3>1. batch[First].tid \in Threads /\ batch[First].n \in Nat
        BY <1>0 DEF TypeInv, TypeOK
      <3>2. BatchMsg(batch[First].tid, batch[First].n) \in Message
        BY <1>0, <3>1, BatchTyped
      <3> QED BY <2>1, <2>3, <3>2 DEF Flush
    <2>4. CASE Request(First)
      <3>1. todo[First] \in Seq(Rpc) /\ todo[First] # <<>>
        BY <1>0, <2>4 DEF TypeInv, TypeOK, Request
      <3>2. Head(todo[First]) \in Rpc
        BY <3>1, HeadTailProperties
      <3>3. RequestMsg(Head(todo[First])) \in Message
        BY <1>0, <3>2, RequestTyped
      <3> QED BY <2>1, <2>4, <3>3 DEF Request
    <2>5. CASE LowerFlag0(First)
      <3>1. /\ currPid' = First /\ bpc' = "poll" /\ flag1'[First] /\ ~flag0'[First]
            /\ shm'[First].id = seq'[First] /\ shm' = shm
        BY <1>0, <1>1, <2>5 DEF LowerFlag0, ChannelInv
      <3>2. CASE shm[First].type = "destructor"
        BY <1>0, <2>5, <3>2 DEF LowerFlag0, ChannelInv
      <3>3. CASE shm[First].type # "destructor"
        <4>1. fpc'[First] = "spin"
          BY <1>0, <2>5, <3>3 DEF LowerFlag0
        <4> QED BY <3>1, <3>3, <4>1 DEF ChannelInv, Posted
      <3> QED BY <3>2, <3>3
    <2>6. CASE SeeFlag1(First)
      <3>1. Replied
        BY <2>6 DEF SeeFlag1, ChannelInv, Posted, Received, Serving, Served, Copied, Parked, Stuck
      <3>2. fpc'[First] = "got" /\ UNCHANGED <<flag0, flag1, shm, seq>>
        BY <1>0, <2>6 DEF SeeFlag1
      <3> QED BY <1>1, <3>1, <3>2 DEF ChannelInv, Replied
    <2>7. CASE RaiseFlag1(First)
      <3>1. fpc'[First] \in {"run", "exited"} /\ flag1'[First] /\ UNCHANGED flag0
        BY <1>0, <2>7 DEF RaiseFlag1, UseReply
      <3>2. currPid = First /\ bpc = "poll" /\ flag0[First]
        BY <2>7 DEF RaiseFlag1, ChannelInv
      <3> QED BY <1>1, <3>1, <3>2 DEF ChannelInv
    <2> QED BY <1>3, <2>2, <2>3, <2>4, <2>5, <2>6, <2>7 DEF Front
  <1> QED BY <1>2, <1>3

\* The backend's steps.
LEMMA ChannelBack == ASSUME TypeInv, ChannelInv, Back PROVE ChannelInv'
  <1>0. /\ currPid \in Procs /\ First \in Procs
        /\ flag0 \in [Procs -> BOOLEAN] /\ flag1 \in [Procs -> BOOLEAN]
        /\ shm \in [Procs -> Message] /\ buf \in [Procs -> Message]
    BY FirstTyped DEF TypeInv, TypeOK
  <1> USE DEF ChannelInv, Posted, Received, Serving, Served, Copied, Parked, Replied, Stuck
  <1>1. CASE SeeFlag0
    BY <1>0, <1>1, SMT DEF SeeFlag0, frontVars
  <1>2. CASE RaiseFlag0
    BY <1>0, <1>2, SMT DEF RaiseFlag0, frontVars
  <1>3. CASE CopyIn
    BY <1>0, <1>3, SMT DEF CopyIn, frontVars
  <1>4. CASE Limit
    BY <1>0, <1>4, SMT DEF Limit
  <1>5. ASSUME NEW p \in Procs, NEW t \in Threads, ResumeTo(p, t), bpc = "serve",
               bpc' = "copyout", UNCHANGED <<frontVars, flag0, flag1, shm>>
        PROVE  ChannelInv'
    <2>1. currPid' = p /\ buf'[First].id = buf[First].id
          /\ (p = First => buf'[First].rep)
      BY <1>0, <1>5 DEF ResumeTo, Message
    <2> QED BY <1>5, <2>1 DEF frontVars
  <1>6. CASE ServeAdd
    <2>1. /\ buf'[First].id = buf[First].id
          /\ (currPid = First => buf'[First].rep)
      BY <1>0, <1>6 DEF ServeAdd, Message
    <2> QED BY <1>6, <2>1 DEF ServeAdd, frontVars
  <1>7. CASE ServeSetActive
    <2>1. /\ buf'[First].id = buf[First].id
          /\ (currPid = First => buf'[First].rep)
      BY <1>0, <1>7 DEF ServeSetActive, Message
    <2> QED BY <1>7, <2>1 DEF ServeSetActive, frontVars
  <1>8. CASE ServeGet
    <2>1. /\ buf'[First].id = buf[First].id
          /\ (currPid = First => buf'[First].rep)
      BY <1>0, <1>8 DEF ServeGet, Message
    <2> QED BY <1>8, <2>1 DEF ServeGet, frontVars
  <1>9. CASE ServeResume
    <2>1. CASE \E p \in Procs, t \in Threads : ResumeTo(p, t) /\ bpc' = "copyout"
      BY <1>5, <1>9, <2>1 DEF ServeResume
    <2>2. CASE bpc' = "wild" /\ UNCHANGED <<buf, currPid, q>>
      BY <1>9, <2>2 DEF ServeResume, frontVars
    <2> QED BY <1>9, <2>1, <2>2 DEF ServeResume
  <1>10. CASE ServeDestructor
    <2>1. CASE \E p \in Procs, t \in Threads : ResumeTo(p, t) /\ bpc' = "copyout"
      BY <1>5, <1>10, <2>1 DEF ServeDestructor
    <2>2. CASE bpc' = "last" /\ UNCHANGED <<buf, currPid, q>>
      BY <1>10, <2>2 DEF ServeDestructor, frontVars
    <2> QED BY <1>10, <2>1, <2>2 DEF ServeDestructor
  <1>11. CASE CopyOut
    <2>1. /\ currPid # First => shm'[First] = shm[First]
          /\ currPid = First => /\ shm'[First].id = buf[First].id
                                /\ shm'[First].rep = buf[First].rep
      BY <1>0, <1>11 DEF CopyOut, Message
    <2> QED BY <1>11, <2>1 DEF CopyOut, frontVars
  <1>12. CASE LowerFlag1
    <2>1. /\ currPid # First => flag1'[First] = flag1[First]
          /\ currPid = First => ~flag1'[First]
      BY <1>0, <1>12 DEF LowerFlag1
    <2> QED BY <1>12, <2>1 DEF LowerFlag1, frontVars
  <1> QED BY <1>1, <1>2, <1>3, <1>4, <1>6, <1>7, <1>8, <1>9, <1>10, <1>11, <1>12
          DEF Back, Serve

\* The channel invariant holds in every behaviour.
THEOREM ChannelInvariant == Spec => []ChannelInv
  <1>1. TypeInv /\ ChannelInv /\ [Next]_vars => TypeInv' /\ ChannelInv'
    <2> SUFFICES ASSUME TypeInv, ChannelInv, [Next]_vars PROVE TypeInv' /\ ChannelInv'
      OBVIOUS
    <2>1. CASE \E p \in Procs : App(p) \/ Front(p)
      BY <2>1, AppTyped, FrontTyped, ChannelApp, ChannelFront
    <2>2. CASE Back
      BY <2>2, BackTyped, ChannelBack
    <2>3. CASE Terminated \/ UNCHANGED vars
      <3>1. TypeInv'
        BY <2>3, Zenon DEF Terminated, vars, frontVars, backVars, TypeInv, TypeOK, Pending
      <3>2. ChannelInv'
        BY <2>3, ChannelFrame, Zenon DEF Terminated, vars, frontVars, backVars
      <3> QED BY <3>1, <3>2
    <2> QED BY <2>1, <2>2, <2>3 DEF Next
  <1> QED BY <1>1, InitTyped, ChannelInit, PTL DEF Spec

\* Mutual exclusion on the shared message of the first process, whatever the
\* other processes do and however many there are.
THEOREM Exclusion == Spec => []FirstExclusion
  <1>1. TypeOK /\ ChannelInv => FirstExclusion
    <2>1. TypeOK => fpc[First] \in FrontPc
      BY FirstTyped DEF TypeOK
    <2> QED BY <2>1 DEF ChannelInv, FirstExclusion, BufferExclusion, FrontPc
  <1> QED BY <1>1, TypeCorrect, ChannelInvariant, PTL

\* Every answer the first process reads is the answer to its last request.
THEOREM ReplyCorrect == Spec => []FirstReply
  <1>1. ChannelInv => FirstReply
    BY DEF ChannelInv, FirstReply, ReplyMatches
  <1> QED BY <1>1, ChannelInvariant, PTL

-----------------------------------------------------------------------------
(* The channel of the first process implements a procedure call.           *)

\* A step that leaves alone what CallStage looks at is a stutter.
LEMMA CallFrame ==
    ASSUME UNCHANGED <<bpc, currPid>>, fpc'[First] = fpc[First], flag1'[First] = flag1[First]
    PROVE  CallStage' = CallStage
  BY DEF CallStage

\* The frontend asks and returns; it sees an answer only after it was served.
LEMMA CallFront ==
    ASSUME TypeOK, ChannelInv, NEW p \in Procs, Front(p)
    PROVE  CallStage' = CallStage \/ Channel!Next
  <1>0. /\ fpc \in [Procs -> FrontPc] /\ flag1 \in [Procs -> BOOLEAN] /\ First \in Procs
    BY FirstTyped DEF TypeOK
  <1>1. UNCHANGED <<bpc, currPid>>
    BY Zenon DEF Front, Pile, Flush, Request, LowerFlag0, SeeFlag1, RaiseFlag1, backVars
  <1>2. CASE p # First
    <2>1. fpc'[First] = fpc[First] /\ flag1'[First] = flag1[First]
      BY <1>0, <1>2 DEF Front, Pile, Flush, Request, LowerFlag0, SeeFlag1, RaiseFlag1,
                        UseReply, Post
    <2> QED BY <1>1, <2>1, CallFrame
  <1>3. CASE p = First /\ (Pile(First) \/ Flush(First) \/ Request(First))
    <2>1. fpc[First] = "run" /\ fpc'[First] \in {"run", "post", "exited"}
      BY <1>0, <1>3 DEF Pile, Flush, Request, Post
    <2>2. bpc = "poll"
      BY <2>1 DEF ChannelInv
    <2> QED BY <1>1, <2>1, <2>2 DEF CallStage, Channel!Next, Channel!End
  <1>4. CASE p = First /\ LowerFlag0(First)
    <2>1. /\ fpc[First] = "post" /\ fpc'[First] \in {"gone", "spin"}
          /\ currPid' = First /\ bpc' = "poll" /\ flag1'[First]
      BY <1>0, <1>1, <1>4 DEF LowerFlag0, ChannelInv
    <2> QED BY <1>1, <2>1 DEF CallStage, Channel!Next, Channel!Ask, Channel!End
  <1>5. CASE p = First /\ SeeFlag1(First)
    <2>1. fpc[First] = "spin" /\ fpc'[First] = "got" /\ ~flag1[First]
      BY <1>0, <1>5 DEF SeeFlag1
    <2>2. Replied
      BY <2>1 DEF ChannelInv, Posted, Received, Serving, Served, Copied, Parked, Stuck
    <2> QED BY <1>1, <2>1, <2>2 DEF CallStage, Replied
  <1>6. CASE p = First /\ RaiseFlag1(First)
    <2>1. fpc[First] = "got" /\ fpc'[First] \in {"run", "exited"}
      BY <1>0, <1>6 DEF RaiseFlag1, UseReply
    <2>2. bpc = "poll"
      BY <2>1 DEF ChannelInv
    <2> QED BY <1>1, <2>1, <2>2 DEF CallStage, Channel!Next, Channel!Return, Channel!End
  <1> QED BY <1>2, <1>3, <1>4, <1>5, <1>6 DEF Front

\* The backend serves what was asked, once; all its other steps are stutters.
LEMMA CallBack ==
    ASSUME TypeOK, ChannelInv, Back PROVE CallStage' = CallStage \/ Channel!Next
  <1>0. /\ fpc \in [Procs -> FrontPc] /\ flag1 \in [Procs -> BOOLEAN]
        /\ First \in Procs /\ currPid \in Procs
    BY FirstTyped DEF TypeOK
  <1>1. CASE Limit
    <2>1. fpc'[First] = "killed"
      BY <1>0, <1>1 DEF Limit
    <2> QED BY <2>1 DEF CallStage, Channel!Next, Channel!End
  <1>2. CASE SeeFlag0
    BY <1>0, <1>2 DEF SeeFlag0, frontVars, CallStage, ChannelInv, Posted, Received, Serving,
                      Served, Copied, Parked, Replied, Stuck
  <1>3. CASE RaiseFlag0 \/ CopyIn
    BY <1>0, <1>3 DEF RaiseFlag0, CopyIn, frontVars, CallStage
  <1>4. CASE Serve
    <2>1. /\ bpc = "serve" /\ bpc' \in {"copyout", "last", "wild"} /\ UNCHANGED <<fpc, flag1>>
      BY <1>4 DEF Serve, ServeAdd, ServeSetActive, ServeGet, ServeResume, ServeDestructor,
                  frontVars
    <2> QED BY <2>1 DEF CallStage, Channel!Next, Channel!Serve, Channel!End
  <1>5. CASE CopyOut
    BY <1>0, <1>5 DEF CopyOut, frontVars, CallStage
  <1>6. CASE LowerFlag1
    BY <1>0, <1>6 DEF LowerFlag1, frontVars, CallStage
  <1> QED BY <1>1, <1>2, <1>3, <1>4, <1>5, <1>6 DEF Back

\* Every request of the first process is served exactly once before it returns,
\* for any number of processes and threads.
THEOREM ChannelIsCall == Spec => ImplementsCall
  <1>1. Init => Channel!Init
    BY FirstTyped DEF Init, Channel!Init, CallStage
  <1>2. TypeOK /\ ChannelInv /\ [Next]_vars => [Channel!Next]_CallStage
    <2> SUFFICES ASSUME TypeOK, ChannelInv, [Next]_vars
                 PROVE  CallStage' = CallStage \/ Channel!Next
      OBVIOUS
    <2>1. ASSUME NEW p \in Procs, App(p) PROVE CallStage' = CallStage
      <3>1. UNCHANGED <<fpc, flag1, backVars>>
        BY <2>1, Zenon DEF App, ProcessIns, MutexLock, MutexUnlock, CondWait, CondSignal,
                           BarrierWait, Join, Create, Exit, Cancel, Fini, Handler
      <3> QED BY <3>1, CallFrame DEF backVars
    <2>2. CASE \E p \in Procs : Front(p)
      BY <2>2, CallFront
    <2>3. CASE Back
      BY <2>3, CallBack
    <2>4. CASE Terminated \/ UNCHANGED vars
      BY <2>4, CallFrame DEF Terminated, vars, frontVars, backVars
    <2> QED BY <2>1, <2>2, <2>3, <2>4 DEF Next
  <1> QED BY <1>1, <1>2, TypeCorrect, ChannelInvariant, PTL DEF Spec, ImplementsCall, Channel!Spec

=============================================================================
