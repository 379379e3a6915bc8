------------------------ MODULE MemoryControllerProofs ------------------------
(***************************************************************************)
(* Proofs about MemoryController, for every set of banks, every timing and *)
(* every configuration: the bookkeeping of requests and batches is right,  *)
(* and the commands on the DRAM's pins obey the timing.                    *)
(*                                                                         *)
(* process_event is a composition of operators on the controller's state,  *)
(* so the proof has one lemma per operator: what it makes of the queue     *)
(* (Books), and what it makes of the banks, the data path and the history  *)
(* of commands (Timing).                                                   *)
(***************************************************************************)
EXTENDS MemoryController, FiniteSetTheorems, WellFoundedInduction, TLAPS

-----------------------------------------------------------------------------
(* Numbers and finite sets.                                                *)

\* A set of numbers that is not empty has a least element.
LEMMA NatMin ==
    ASSUME NEW S, S \subseteq Nat, S # {}
    PROVE  \E x \in S : \A y \in S : x <= y
<1>1. PICK x \in S : \A y \in S : ~ (<<y, x>> \in OpToRel(<, Nat))
  BY NatLessThanWellFounded, WFMin
<1>2. \A y \in S : x <= y
  <2> TAKE y \in S
  <2>1. x \in Nat /\ y \in Nat
    BY <1>1
  <2>2. y < x => <<y, x>> \in OpToRel(<, Nat)
    BY <2>1 DEF OpToRel
  <2>3. ~(y < x)
    BY <1>1, <2>2, Zenon
  <2> QED
    BY <2>1, <2>3
<1> QED
  BY <1>2

\* The minimum of FiniteSetsExt, for the sets it is used with here.
LEMMA MinOfNats ==
    ASSUME NEW S, S \subseteq Nat, S # {}
    PROVE  Min(S) \in S
<1>1. \E x \in S : \A y \in S : x <= y
  BY NatMin
<1> QED
  BY <1>1 DEF Min

LEMMA MinOfTwo ==
    ASSUME NEW a \in Int, NEW b \in Int
    PROVE  Min({a, b}) = IF a <= b THEN a ELSE b
<1>1. \E x \in {a, b} : \A y \in {a, b} : x <= y
  OBVIOUS
<1>2. Min({a, b}) \in {a, b} /\ \A y \in {a, b} : Min({a, b}) <= y
  BY <1>1 DEF Min
<1> QED
  BY <1>2

LEMMA MaxOfTwo ==
    ASSUME NEW a \in Int, NEW b \in Int
    PROVE  Max({a, b}) = IF a >= b THEN a ELSE b
<1>1. \E x \in {a, b} : \A y \in {a, b} : x >= y
  OBVIOUS
<1>2. Max({a, b}) \in {a, b} /\ \A y \in {a, b} : Max({a, b}) >= y
  BY <1>1 DEF Max
<1> QED
  BY <1>2

\* U are places of a queue: S of its first m, and T of the n that were appended.
Joins(m, n, S, T, U) ==
    /\ S \subseteq 1 .. m /\ T \subseteq 1 .. n /\ U \subseteq 1 .. m + n
    /\ \A i \in 1 .. m : i \in U <=> i \in S
    /\ \A i \in 1 .. n : i + m \in U <=> i \in T

\* T are the places S of a queue of n after place i was taken out.
Closes(n, i, S, T) ==
    /\ S \subseteq 1 .. n /\ T \subseteq 1 .. n - 1
    /\ \A k \in 1 .. n - 1 : k \in T <=> (IF k < i THEN k ELSE k + 1) \in S

\* A thread's requests add up when the queue is appended to ...
LEMMA CountJoined ==
    ASSUME NEW m \in Nat, NEW n \in Nat, NEW S, NEW T, NEW U, Joins(m, n, S, T, U)
    PROVE  Cardinality(U) = Cardinality(S) + Cardinality(T)
<1> USE DEF Joins
<1> DEFINE V == {i \in U : i > m}
           f == [i \in T |-> i + m]
<1>1. IsFiniteSet(S) /\ IsFiniteSet(T) /\ IsFiniteSet(V)
  <2>1. IsFiniteSet(1 .. m) /\ IsFiniteSet(1 .. n) /\ IsFiniteSet(1 .. m + n)
    BY FS_Interval
  <2>2. V \in SUBSET (1 .. m + n)
    OBVIOUS
  <2> QED
    BY <2>1, <2>2, FS_Subset
<1>2. f \in Bijection(T, V)
  <2>1. f \in [T -> V]
    OBVIOUS
  <2>2. \A i, j \in T : f[i] = f[j] => i = j
    OBVIOUS
  <2>3. \A v \in V : \E i \in T : f[i] = v
    <3> TAKE v \in V
    <3>1. v - m \in 1 .. n /\ v = (v - m) + m
      OBVIOUS
    <3>2. v - m \in T
      BY <3>1
    <3> QED
      BY <3>1, <3>2
  <2> QED
    BY <2>1, <2>2, <2>3 DEF Bijection, Injection, Surjection, IsInjective
<1>3. Cardinality(V) = Cardinality(T)
  BY <1>1, <1>2, FS_Bijection DEF ExistsBijection
<1>4. U = S \cup V /\ S \cap V = {}
  <2>1. \A i \in U : i \in 1 .. m \/ i > m
    OBVIOUS
  <2>2. \A i \in S : i \in U /\ ~(i > m)
    OBVIOUS
  <2> QED
    BY <2>1, <2>2
<1>5. Cardinality(S \cap V) = 0
  BY <1>4, FS_EmptySet
<1>6. Cardinality(S \cup V) = Cardinality(S) + Cardinality(V) - Cardinality(S \cap V)
  BY <1>1, FS_Union
<1>7. Cardinality(S) \in Nat /\ Cardinality(T) \in Nat
  BY <1>1, FS_CardinalityType
<1> QED
  BY <1>3, <1>4, <1>5, <1>6, <1>7

\* ... and one less when the one at i is taken out.
LEMMA CountClosed ==
    ASSUME NEW n \in Nat, NEW i \in 1 .. n, NEW S, NEW T, Closes(n, i, S, T)
    PROVE  Cardinality(T) = IF i \in S THEN Cardinality(S) - 1 ELSE Cardinality(S)
<1> USE DEF Closes
<1> DEFINE f == [k \in T |-> IF k < i THEN k ELSE k + 1]
<1>1. IsFiniteSet(S) /\ IsFiniteSet(T)
  <2>1. IsFiniteSet(1 .. n) /\ IsFiniteSet(1 .. n - 1)
    BY FS_Interval
  <2> QED
    BY <2>1, FS_Subset
<1>2. f \in Bijection(T, S \ {i})
  <2>1. f \in [T -> S \ {i}]
    OBVIOUS
  <2>2. \A k, j \in T : f[k] = f[j] => k = j
    OBVIOUS
  <2>3. \A v \in S \ {i} : \E k \in T : f[k] = v
    <3> TAKE v \in S \ {i}
    <3>1. CASE v < i
      <4>1. v \in 1 .. n - 1
        BY <3>1
      <4>2. v \in T
        BY <3>1, <4>1
      <4> QED
        BY <3>1, <4>2
    <3>2. CASE v > i
      <4>1. v - 1 \in 1 .. n - 1 /\ ~(v - 1 < i) /\ (v - 1) + 1 = v
        BY <3>2
      <4>2. v - 1 \in T
        BY <4>1
      <4> QED
        BY <4>1, <4>2
    <3> QED
      BY <3>1, <3>2
  <2> QED
    BY <2>1, <2>2, <2>3 DEF Bijection, Injection, Surjection, IsInjective
<1>3. Cardinality(T) = Cardinality(S \ {i})
  BY <1>1, <1>2, FS_Bijection DEF ExistsBijection
<1> QED
  BY <1>1, <1>3, FS_RemoveElement

-----------------------------------------------------------------------------
(* The controller's state: types, and the request that is chosen.          *)

Open  == {"activate", "read", "write"}
Entry == [bank : Banks, page : Nat, type : Reads \cup Writes, th : Threads, mark : BOOLEAN]
Bank  == [action_type : {"idle", "precharge"} \cup Open, action_time : Int, page_num : Nat,
          last_activate_time : Int]
Slot  == [at : Int, kind : Column]
Pin   == [cmd : {"activate", "precharge"} \cup Column, bank : Banks, page : Nat, at : Int]

States ==
    [q : Seq(Entry), last : Int, n : [Threads -> Int], bank : [Banks -> Bank], act : [Ranks -> Int],
     wr : [Ranks -> Int], rd : [rank : Ranks \cup {0}, at : Int], rdrank : [Ranks -> Int],
     dp : SUBSET Slot, owed : [Threads -> Int], log : Seq(Pin)]

LEMMA Numbers ==
    /\ tRCD \in Nat /\ tRR \in Nat /\ tRP \in Nat /\ tCL \in Nat /\ tBL \in Nat /\ tBBL \in Nat
    /\ tRAS \in Nat /\ tWRBUB \in Nat /\ tRWBUB \in Nat /\ tRRBUB \in Nat /\ tWTR \in Nat
    /\ tWRBUB <= tCL /\ tRWBUB <= tCL /\ tBL > 0 /\ Window \in Nat /\ Window > 0
BY ControllerAssumption

LEMMA RankOfBank ==
    ASSUME NEW b \in Banks
    PROVE  Rank[b] \in Ranks
BY DEF Ranks

\* What a state's components are.
LEMMA StateParts ==
    ASSUME NEW x \in States
    PROVE  /\ x.q \in Seq(Entry) /\ x.last \in Int /\ x.n \in [Threads -> Int]
           /\ x.bank \in [Banks -> Bank] /\ x.act \in [Ranks -> Int] /\ x.wr \in [Ranks -> Int]
           /\ x.rd \in [rank : Ranks \cup {0}, at : Int] /\ x.rdrank \in [Ranks -> Int]
           /\ x.dp \in SUBSET Slot /\ x.owed \in [Threads -> Int] /\ x.log \in Seq(Pin)
BY DEF States

\* The requests that compete are in the window and can move.
LEMMA CandidatesMove ==
    ASSUME NEW x \in States
    PROVE  \A i \in Candidates(x) : i \in DOMAIN x.q /\ Move(x, i) # "none"
<1> DEFINE can == {i \in DOMAIN x.q : i <= Window /\ Move(x, i) # "none"}
           batch == {i \in can : i - 1 <= x.last}
<1>1. can \subseteq Nat
  BY StateParts
<1>2. can # {} => Min(can) \in can
  BY <1>1, MinOfNats
<1>3. Candidates(x) = IF batch # {} THEN batch ELSE IF can # {} THEN {Min(can)} ELSE {}
  BY DEF Candidates
<1>4. Candidates(x) \subseteq can
  BY <1>2, <1>3
<1> QED
  BY <1>4

\* The comparison of requests always has a winner.
LEMMA ChoiceIsCandidate ==
    ASSUME NEW x \in States, \A h \in Threads : x.n[h] \in Nat, Candidates(x) # {}
    PROVE  Choice(x) \in Candidates(x)
<1> DEFINE hits == {i \in Candidates(x) : Move(x, i) = "column"}
           best == IF hits # {} THEN hits ELSE Candidates(x)
           n(i) == x.n[x.q[i].th]
           wins(i) == \A j \in best : n(i) < n(j) \/ (n(i) = n(j) /\ i <= j)
<1>1. best \subseteq Candidates(x) /\ best # {}
  OBVIOUS
<1>2. best \subseteq DOMAIN x.q
  BY <1>1, CandidatesMove
<1>3. \A i \in best : i \in Nat /\ n(i) \in Nat
  <2> TAKE i \in best
  <2>1. i \in DOMAIN x.q /\ x.q \in Seq(Entry)
    BY <1>2, StateParts
  <2>2. i \in Nat /\ x.q[i] \in Entry
    BY <2>1
  <2>3. x.q[i].th \in Threads
    BY <2>2 DEF Entry
  <2> QED
    BY <2>2, <2>3
<1> DEFINE N == {n(i) : i \in best}
<1>4. PICK m \in N : \A k \in N : m <= k
  <2>1. N \subseteq Nat /\ N # {}
    BY <1>1, <1>3
  <2> HIDE DEF N
  <2> QED
    BY <2>1, NatMin
<1> DEFINE F == {i \in best : n(i) = m}
<1>5. PICK i \in F : \A j \in F : i <= j
  <2>1. F \subseteq Nat /\ F # {}
    BY <1>3, <1>4
  <2> HIDE DEF F
  <2> QED
    BY <2>1, NatMin
<1>6. i \in best /\ wins(i)
  <2>1. i \in best /\ n(i) = m
    OBVIOUS
  <2> SUFFICES ASSUME NEW j \in best
               PROVE  n(i) < n(j) \/ (n(i) = n(j) /\ i <= j)
    BY <2>1
  <2>2. m <= n(j)
    BY <1>4
  <2>3. n(j) = m => i <= j
    BY <1>5
  <2>4. n(i) \in Nat /\ n(j) \in Nat
    BY <1>3, <2>1
  <2> HIDE DEF n
  <2> QED
    BY <2>1, <2>2, <2>3, <2>4
<1>7. Choice(x) = CHOOSE k \in best : wins(k)
  BY DEF Choice
<1> HIDE DEF best, wins
<1>8. Choice(x) \in best
  BY <1>6, <1>7
<1> QED
  BY <1>1, <1>8

-----------------------------------------------------------------------------
(* The books: the batch is what curr_batch_last says, the counters count.  *)

\* Exactly the requests up to last belong to the batch: PAR-BS has one whenever
\* there are requests, the others never have.
Batched(q, last) ==
    /\ last >= -1 /\ last < Len(q)
    /\ ~config.par_bs => last = -1
    /\ config.par_bs /\ last = -1 => Len(q) = 0
    /\ \A i \in DOMAIN q : q[i].mark <=> i - 1 <= last

\* ev are the requests that have arrived and are not in the queue yet.
Counted(q, n, owes, ev) ==
    \A h \in Threads :
        /\ n[h] = IF config.par_bs THEN Cardinality(From(q, h)) ELSE 0
        /\ owes[h] = Cardinality(Waited(q, h)) + Cardinality(Waited(ev, h))

Books(x, ev) == Batched(x.q, x.last) /\ Counted(x.q, x.n, x.owed, ev)

LEMMA CountsAreNumbers ==
    ASSUME NEW q, Len(q) \in Nat, DOMAIN q = 1 .. Len(q), NEW h
    PROVE  Cardinality(From(q, h)) \in Nat /\ Cardinality(Waited(q, h)) \in Nat
<1>1. IsFiniteSet(1 .. Len(q))
  BY FS_Interval
<1>2. From(q, h) \in SUBSET (1 .. Len(q)) /\ Waited(q, h) \in SUBSET (1 .. Len(q))
  BY DEF From, Waited
<1> HIDE DEF From, Waited
<1> QED
  BY <1>1, <1>2, FS_Subset, FS_CardinalityType

\* Nobody waits for an empty queue.
LEMMA NoneWaited ==
    ASSUME NEW h
    PROVE  Cardinality(Waited(<<>>, h)) = 0
<1>1. Waited(<<>>, h) = {}
  BY DEF Waited
<1> QED
  BY <1>1, FS_EmptySet

\* Marking the batch changes the marks only.
LEMMA MarkKeeps ==
    ASSUME NEW q \in Seq(Entry)
    PROVE  /\ Mark(q) \in Seq(Entry) /\ Len(Mark(q)) = Len(q)
           /\ \A i \in 1 .. Len(q) :
                /\ Mark(q)[i].th = q[i].th /\ Mark(q)[i].type = q[i].type
                /\ Mark(q)[i].bank = q[i].bank /\ Mark(q)[i].page = q[i].page
                /\ Mark(q)[i].mark = IF config.par_bs /\ \A j \in DOMAIN q : ~q[j].mark
                                     THEN i <= Window ELSE q[i].mark
<1>1. CASE config.par_bs /\ \A i \in DOMAIN q : ~q[i].mark
  <2> DEFINE m == [i \in DOMAIN q |-> [q[i] EXCEPT !.mark = i <= Window]]
  <2>1. Mark(q) = m
    BY <1>1 DEF Mark
  <2>2. DOMAIN q = 1 .. Len(q) /\ Len(q) \in Nat
    OBVIOUS
  <2>3. \A i \in DOMAIN q : m[i] \in Entry
    <3> TAKE i \in DOMAIN q
    <3>1. q[i] \in Entry /\ (i <= Window) \in BOOLEAN
      OBVIOUS
    <3> QED
      BY <3>1 DEF Entry
  <2>4. m \in Seq(Entry) /\ Len(m) = Len(q)
    <3>1. m \in [1 .. Len(q) -> Entry]
      BY <2>2, <2>3
    <3> HIDE DEF m
    <3> QED
      BY <2>2, <3>1
  <2>5. \A i \in 1 .. Len(q) :
                /\ m[i].th = q[i].th /\ m[i].type = q[i].type
                /\ m[i].bank = q[i].bank /\ m[i].page = q[i].page
                /\ m[i].mark = (i <= Window)
    <3> TAKE i \in 1 .. Len(q)
    <3>1. q[i] \in Entry /\ m[i] = [q[i] EXCEPT !.mark = i <= Window]
      BY <2>2
    <3> QED
      BY <3>1 DEF Entry
  <2> HIDE DEF m
  <2> QED
    BY <1>1, <2>1, <2>4, <2>5
<1>2. CASE ~(config.par_bs /\ \A i \in DOMAIN q : ~q[i].mark)
  BY <1>2 DEF Mark
<1> QED
  BY <1>1, <1>2

\* ... so the counts stay.
LEMMA MarkCounts ==
    ASSUME NEW q \in Seq(Entry), NEW h
    PROVE  From(Mark(q), h) = From(q, h) /\ Waited(Mark(q), h) = Waited(q, h)
<1>1. DOMAIN Mark(q) = 1 .. Len(q) /\ DOMAIN q = 1 .. Len(q)
  BY MarkKeeps
<1>2. \A i \in 1 .. Len(q) : Mark(q)[i].th = q[i].th /\ Mark(q)[i].type = q[i].type
  BY MarkKeeps
<1> QED
  BY <1>1, <1>2 DEF From, Waited, Answered

\* The requests that arrived, as they enter the queue.
Entered(ev) ==
    [i \in DOMAIN ev |-> [bank |-> ev[i].bank, page |-> ev[i].page, type |-> ev[i].type,
                          th |-> ev[i].th, mark |-> FALSE]]

LEMMA EnteredKeeps ==
    ASSUME NEW ev \in Seq(Reqs)
    PROVE  /\ Entered(ev) \in Seq(Entry) /\ Len(Entered(ev)) = Len(ev)
           /\ \A i \in 1 .. Len(ev) :
                /\ Entered(ev)[i].th = ev[i].th /\ Entered(ev)[i].type = ev[i].type
                /\ Entered(ev)[i].mark = FALSE
<1>1. DOMAIN ev = 1 .. Len(ev) /\ Len(ev) \in Nat
  OBVIOUS
<1>2. \A i \in 1 .. Len(ev) : Entered(ev)[i] \in Entry
  <2> TAKE i \in 1 .. Len(ev)
  <2>1. ev[i] \in [bank : Banks, page : Nat, type : Reads \cup Writes, th : Threads]
    BY <1>1, ControllerAssumption
  <2> QED
    BY <1>1, <2>1 DEF Entered, Entry
<1>3. Entered(ev) \in [1 .. Len(ev) -> Entry]
  <2>1. Entered(ev) = [i \in 1 .. Len(ev) |-> Entered(ev)[i]]
    BY <1>1 DEF Entered
  <2> HIDE DEF Entered
  <2> QED
    BY <1>2, <2>1
<1>4. \A i \in 1 .. Len(ev) :
                /\ Entered(ev)[i].th = ev[i].th /\ Entered(ev)[i].type = ev[i].type
                /\ Entered(ev)[i].mark = FALSE
  BY <1>1 DEF Entered
<1> HIDE DEF Entered
<1> QED
  BY <1>1, <1>3, <1>4

\* What pre_processing does to each component.
LEMMA PreProcessingParts ==
    ASSUME NEW x \in States, req_event \in Seq(Reqs)
    PROVE  LET y == PreProcessing(x)
               q == Mark(x.q \o Entered(req_event))
           IN  /\ y \in States
               /\ y.q = q
               /\ y.n = IF config.par_bs
                        THEN [h \in Threads |-> x.n[h] + Cardinality(From(req_event, h))] ELSE x.n
               /\ y.last = IF config.par_bs /\ x.last = -1 /\ q # <<>>
                           THEN Min({Len(q), Window}) - 1 ELSE x.last
               /\ y.bank = x.bank /\ y.act = x.act /\ y.wr = x.wr /\ y.rd = x.rd
               /\ y.rdrank = x.rdrank /\ y.dp = x.dp /\ y.owed = x.owed /\ y.log = x.log
<1> DEFINE y == PreProcessing(x)
           q == Mark(x.q \o Entered(req_event))
           n == IF config.par_bs
                THEN [h \in Threads |-> x.n[h] + Cardinality(From(req_event, h))] ELSE x.n
           last == IF config.par_bs /\ x.last = -1 /\ q # <<>>
                   THEN Min({Len(q), Window}) - 1 ELSE x.last
<1>1. q \in Seq(Entry)
  <2>1. x.q \in Seq(Entry) /\ Entered(req_event) \in Seq(Entry)
    BY StateParts, EnteredKeeps
  <2>2. x.q \o Entered(req_event) \in Seq(Entry)
    BY <2>1
  <2> QED
    BY <2>2, MarkKeeps
<1>2. n \in [Threads -> Int]
  <2>1. \A h \in Threads : Cardinality(From(req_event, h)) \in Nat
    BY CountsAreNumbers
  <2>2. x.n \in [Threads -> Int]
    BY StateParts
  <2> QED
    BY <2>1, <2>2
<1>3. last \in Int
  <2>1. Len(q) \in Int /\ Window \in Int /\ x.last \in Int
    BY <1>1, Numbers, StateParts
  <2> HIDE DEF q
  <2>2. Min({Len(q), Window}) \in Int
    BY <2>1, MinOfTwo
  <2> QED
    BY <2>1, <2>2
<1>4. y = [x EXCEPT !.q = q, !.n = n, !.last = last]
  <2>1. PreProcessing(x) =
          [x EXCEPT !.q = q,
                    !.n = IF config.par_bs
                          THEN [h \in Threads |-> x.n[h] + Cardinality(From(req_event, h))] ELSE @,
                    !.last = IF config.par_bs /\ @ = -1 /\ q # <<>> THEN Min({Len(q), Window}) - 1
                             ELSE @]
    BY Zenon DEF PreProcessing, Entered
  <2> QED
    BY <2>1 DEF States
<1> HIDE DEF y, q, n, last
<1>5. /\ y \in States /\ y.q = q /\ y.n = n /\ y.last = last
      /\ y.bank = x.bank /\ y.act = x.act /\ y.wr = x.wr /\ y.rd = x.rd
      /\ y.rdrank = x.rdrank /\ y.dp = x.dp /\ y.owed = x.owed /\ y.log = x.log
  BY <1>1, <1>2, <1>3, <1>4 DEF States
<1> QED
  BY <1>5 DEF y, q, n, last

\* Requests that join the queue behind the batch leave it as it is; if there was
\* none, the next one is begun.
LEMMA JoinedBatch ==
    ASSUME NEW q0 \in Seq(Entry), NEW new \in Seq(Entry), NEW last \in Int, Batched(q0, last),
           \A i \in 1 .. Len(new) : ~new[i].mark, config \in Configs
    PROVE  LET q == Mark(q0 \o new)
           IN  Batched(q, IF config.par_bs /\ last = -1 /\ q # <<>>
                          THEN Min({Len(q), Window}) - 1 ELSE last)
<1> DEFINE cat == q0 \o new
           q == Mark(cat)
           next == IF config.par_bs /\ last = -1 /\ q # <<>> THEN Min({Len(q), Window}) - 1 ELSE last
           m == Len(q0)
           k == Len(new)
           t == m + k
<1>1. /\ m \in Nat /\ k \in Nat /\ t \in Nat /\ m <= t /\ DOMAIN q0 = 1 .. m
      /\ cat \in Seq(Entry) /\ Len(cat) = t /\ DOMAIN cat = 1 .. t
      /\ \A i \in 1 .. m : cat[i] = q0[i]
      /\ \A i \in 1 .. t : i > m => i - m \in 1 .. k /\ cat[i] = new[i - m]
  OBVIOUS
<1>2. /\ last >= -1 /\ last < m /\ (~config.par_bs => last = -1)
      /\ \A i \in 1 .. m : q0[i].mark <=> i - 1 <= last
  BY <1>1 DEF Batched
<1> HIDE DEF cat, m, k, t
<1>3. q \in Seq(Entry) /\ Len(q) = t
  BY <1>1, MarkKeeps
<1>4. \A i \in 1 .. t : q[i].mark = IF config.par_bs /\ \A j \in DOMAIN cat : ~cat[j].mark
                                    THEN i <= Window ELSE cat[i].mark
  <2>1. \A i \in 1 .. Len(cat) : Mark(cat)[i].mark =
            IF config.par_bs /\ \A j \in DOMAIN cat : ~cat[j].mark THEN i <= Window ELSE cat[i].mark
    BY <1>1, MarkKeeps, Zenon
  <2>2. Len(cat) = t
    BY <1>1
  <2> QED
    BY <2>1, <2>2, Zenon
<1>5. \A i \in 1 .. t : cat[i].mark <=> i - 1 <= last
  <2> TAKE i \in 1 .. t
  <2>1. CASE i <= m
    <3>1. i \in 1 .. m
      BY <1>1, <2>1
    <3> QED
      BY <1>1, <1>2, <3>1
  <2>2. CASE i > m
    <3>1. ~cat[i].mark
      <4>1. i - m \in 1 .. Len(new) /\ cat[i] = new[i - m]
        BY <1>1, <2>2 DEF k
      <4> QED
        BY <4>1
    <3>2. ~(i - 1 <= last)
      BY <1>1, <1>2, <2>2
    <3> QED
      BY <3>1, <3>2
  <2> QED
    BY <1>1, <2>1, <2>2
<1>6. \A i \in 1 .. t : q[i].mark \in BOOLEAN /\ cat[i].mark \in BOOLEAN
  <2> HIDE DEF q
  <2> TAKE i \in 1 .. t
  <2>1. q[i] \in Entry /\ cat[i] \in Entry
    BY <1>1, <1>3
  <2> QED
    BY <2>1 DEF Entry
<1>7. config.par_bs \in BOOLEAN
  BY ControllerAssumption
<1> SUFFICES Batched(q, next)
  BY DEF q, cat
<1>8. DOMAIN q = 1 .. t
  BY <1>3
<1> HIDE DEF q
<1>9. CASE last >= 0
  <2>1. 1 \in 1 .. t /\ cat[1].mark
    <3>1. 1 \in 1 .. t
      BY <1>1, <1>2, <1>9
    <3> QED
      BY <1>5, <1>9, <3>1
  <2>2. \A i \in 1 .. t : q[i].mark = cat[i].mark
    BY <1>1, <1>4, <2>1
  <2>3. next = last
    BY <1>9
  <2>4. \A i \in 1 .. t : q[i].mark <=> i - 1 <= last
    BY <1>5, <2>2
  <2>5. last < t
    BY <1>1, <1>2
  <2> HIDE DEF next
  <2> QED
    BY <1>2, <1>3, <1>8, <1>9, <2>3, <2>4, <2>5 DEF Batched
<1>10. CASE last = -1
  <2>1. \A i \in 1 .. t : ~cat[i].mark
    BY <1>1, <1>5, <1>10
  <2>2. CASE config.par_bs /\ q # <<>>
    <3>1. t > 0
      BY <1>1, <1>3, <2>2
    <3>2. next = (IF t <= Window THEN t ELSE Window) - 1
      <4>1. next = Min({t, Window}) - 1
        BY <1>3, <1>10, <2>2
      <4>2. Min({t, Window}) = IF t <= Window THEN t ELSE Window
        BY <1>1, MinOfTwo, Numbers
      <4> QED
        BY <4>1, <4>2
    <3>3. \A i \in 1 .. t : q[i].mark <=> i <= Window
      BY <1>1, <1>4, <2>1, <2>2
    <3> HIDE DEF next
    <3>4. \A i \in 1 .. t : i <= Window <=> i - 1 <= next
      BY <1>1, <3>1, <3>2, Numbers
    <3>5. next >= 0 /\ next < t /\ next \in Int
      BY <1>1, <3>1, <3>2, Numbers
    <3> QED
      BY <1>3, <1>8, <2>2, <3>3, <3>4, <3>5 DEF Batched
  <2>3. CASE ~(config.par_bs /\ q # <<>>)
    <3>1. next = -1
      BY <1>10, <2>3
    <3>2. \A i \in 1 .. t : ~q[i].mark
      <4>1. CASE config.par_bs
        <5>1. t = 0
          BY <1>3, <2>3, <4>1
        <5> QED
          BY <5>1
      <4>2. CASE ~config.par_bs
        BY <1>4, <2>1, <4>2
      <4> QED
        BY <4>1, <4>2
    <3>3. -1 < t /\ -1 >= -1 /\ (config.par_bs => t = 0)
      BY <1>1, <1>3, <2>3
    <3>4. \A i \in 1 .. t : ~(i - 1 <= -1)
      BY <1>1
    <3> HIDE DEF next
    <3> QED
      BY <1>3, <1>8, <3>1, <3>2, <3>3, <3>4 DEF Batched
  <2> QED
    BY <2>2, <2>3
<1> QED
  BY <1>2, <1>9, <1>10

\* The requests of one queue and of the one appended to it.
LEMMA JoinedCounts ==
    ASSUME NEW q0 \in Seq(Entry), NEW ev \in Seq(Reqs), NEW h
    PROVE  LET q == Mark(q0 \o Entered(ev))
           IN  /\ Cardinality(From(q, h)) = Cardinality(From(q0, h)) + Cardinality(From(ev, h))
               /\ Cardinality(Waited(q, h)) = Cardinality(Waited(q0, h)) + Cardinality(Waited(ev, h))
<1> DEFINE new == Entered(ev)
           cat == q0 \o new
           m == Len(q0)
           k == Len(ev)
<1>1. /\ new \in Seq(Entry) /\ Len(new) = k
      /\ \A i \in 1 .. k : new[i].th = ev[i].th /\ new[i].type = ev[i].type
  BY EnteredKeeps
<1>2. DOMAIN ev = 1 .. k /\ DOMAIN q0 = 1 .. m /\ m \in Nat /\ k \in Nat
  OBVIOUS
<1> HIDE DEF new
<1>3. /\ cat \in Seq(Entry) /\ DOMAIN cat = 1 .. m + k
      /\ \A i \in 1 .. m : cat[i] = q0[i]
      /\ \A i \in 1 .. k : i + m \in 1 .. m + k /\ cat[i + m] = new[i]
  BY <1>1
<1> HIDE DEF cat, m, k
<1>4. From(Mark(cat), h) = From(cat, h) /\ Waited(Mark(cat), h) = Waited(cat, h)
  BY <1>3, MarkCounts
<1>5. \A i \in 1 .. m : i \in 1 .. m + k
  BY <1>2
<1>6. Cardinality(From(cat, h)) = Cardinality(From(q0, h)) + Cardinality(From(ev, h))
  <2>1. /\ From(q0, h) \subseteq 1 .. m /\ From(ev, h) \subseteq 1 .. k
        /\ From(cat, h) \subseteq 1 .. m + k
    BY <1>2, <1>3 DEF From
  <2>2. \A i \in 1 .. m : i \in From(cat, h) <=> i \in From(q0, h)
    BY <1>2, <1>3, <1>5 DEF From
  <2>3. \A i \in 1 .. k : i + m \in From(cat, h) <=> i \in From(ev, h)
    BY <1>1, <1>2, <1>3, Zenon DEF From
  <2>4. Joins(m, k, From(q0, h), From(ev, h), From(cat, h))
    BY <2>1, <2>2, <2>3, Zenon DEF Joins
  <2> QED
    BY <1>2, <2>4, CountJoined
<1>7. Cardinality(Waited(cat, h)) = Cardinality(Waited(q0, h)) + Cardinality(Waited(ev, h))
  <2>1. /\ Waited(q0, h) \subseteq 1 .. m /\ Waited(ev, h) \subseteq 1 .. k
        /\ Waited(cat, h) \subseteq 1 .. m + k
    BY <1>2, <1>3 DEF Waited
  <2>2. \A i \in 1 .. m : i \in Waited(cat, h) <=> i \in Waited(q0, h)
    BY <1>2, <1>3, <1>5 DEF Waited, Answered
  <2>3. \A i \in 1 .. k : i + m \in Waited(cat, h) <=> i \in Waited(ev, h)
    BY <1>1, <1>2, <1>3, Zenon DEF Waited, Answered
  <2>4. Joins(m, k, Waited(q0, h), Waited(ev, h), Waited(cat, h))
    BY <2>1, <2>2, <2>3, Zenon DEF Joins
  <2> QED
    BY <1>2, <2>4, CountJoined
<1> QED
  BY <1>4, <1>6, <1>7 DEF cat, new

\* Everything that arrived is in the queue and counted; a new batch is begun when
\* there is none.
LEMMA PreProcessingBooks ==
    ASSUME NEW x \in States, req_event \in Seq(Reqs), config \in Configs, Books(x, req_event)
    PROVE  Books(PreProcessing(x), <<>>)
<1> DEFINE y == PreProcessing(x)
           q == Mark(x.q \o Entered(req_event))
<1>1. /\ y.q = q /\ y.owed = x.owed
      /\ y.n = IF config.par_bs
                THEN [h \in Threads |-> x.n[h] + Cardinality(From(req_event, h))] ELSE x.n
      /\ y.last = IF config.par_bs /\ x.last = -1 /\ q # <<>>
                   THEN Min({Len(q), Window}) - 1 ELSE x.last
  BY PreProcessingParts
<1>2. Batched(y.q, y.last)
  <2>1. Batched(x.q, x.last) /\ x.q \in Seq(Entry) /\ x.last \in Int
    BY StateParts DEF Books
  <2>2. /\ Entered(req_event) \in Seq(Entry)
        /\ \A i \in 1 .. Len(Entered(req_event)) : ~Entered(req_event)[i].mark
    BY EnteredKeeps
  <2>3. Batched(q, IF config.par_bs /\ x.last = -1 /\ q # <<>>
                   THEN Min({Len(q), Window}) - 1 ELSE x.last)
    BY <2>1, <2>2, JoinedBatch
  <2> HIDE DEF q, y
  <2> QED
    BY <1>1, <2>3
<1>3. Counted(y.q, y.n, y.owed, <<>>)
  <2> SUFFICES ASSUME NEW h \in Threads
               PROVE  /\ y.n[h] = IF config.par_bs THEN Cardinality(From(q, h)) ELSE 0
                      /\ y.owed[h] = Cardinality(Waited(q, h)) + Cardinality(Waited(<<>>, h))
    BY <1>1 DEF Counted
  <2>1. /\ x.n[h] = IF config.par_bs THEN Cardinality(From(x.q, h)) ELSE 0
        /\ x.owed[h] = Cardinality(Waited(x.q, h)) + Cardinality(Waited(req_event, h))
    BY DEF Books, Counted
  <2>2. x.q \in Seq(Entry)
    BY StateParts
  <2>3. /\ Cardinality(From(q, h)) = Cardinality(From(x.q, h)) + Cardinality(From(req_event, h))
        /\ Cardinality(Waited(q, h)) = Cardinality(Waited(x.q, h)) + Cardinality(Waited(req_event, h))
    BY <2>2, JoinedCounts
  <2>4. Cardinality(Waited(x.q, h)) \in Nat /\ Cardinality(Waited(req_event, h)) \in Nat
    BY <2>2, CountsAreNumbers
  <2>5. Cardinality(Waited(<<>>, h)) = 0
    BY NoneWaited
  <2> HIDE DEF q, y
  <2> QED
    BY <1>1, <2>1, <2>3, <2>4, <2>5
<1> QED
  BY <1>2, <1>3 DEF Books

\* The queue without request i.
LEMMA RemoveAtParts ==
    ASSUME NEW q \in Seq(Entry), NEW i \in 1 .. Len(q)
    PROVE  /\ RemoveAt(q, i) \in Seq(Entry) /\ Len(RemoveAt(q, i)) = Len(q) - 1
           /\ \A k \in 1 .. Len(q) - 1 : RemoveAt(q, i)[k] = IF k < i THEN q[k] ELSE q[k + 1]
<1> DEFINE a == SubSeq(q, 1, i - 1)
           b == SubSeq(q, i + 1, Len(q))
<1>1. /\ a \in Seq(Entry) /\ Len(a) = i - 1 /\ \A k \in 1 .. i - 1 : a[k] = q[k]
  OBVIOUS
<1>2. /\ b \in Seq(Entry) /\ Len(b) = Len(q) - i
      /\ \A k \in 1 .. Len(q) - i : b[k] = q[k + i]
  OBVIOUS
<1>3. RemoveAt(q, i) = a \o b
  BY DEF RemoveAt
<1> HIDE DEF a, b
<1>4. Len(q) \in Nat /\ i \in Nat /\ 1 <= i /\ i <= Len(q)
  OBVIOUS
<1>5. a \o b \in Seq(Entry) /\ Len(a \o b) = Len(q) - 1
  <2>1. a \in Seq(Entry) /\ b \in Seq(Entry)
    BY <1>1, <1>2
  <2>2. a \o b \in Seq(Entry) /\ Len(a \o b) = Len(a) + Len(b)
    BY <2>1
  <2> QED
    BY <1>1, <1>2, <1>4, <2>2
<1>6. \A k \in 1 .. Len(q) - 1 : (a \o b)[k] = IF k < i THEN q[k] ELSE q[k + 1]
  <2> TAKE k \in 1 .. Len(q) - 1
  <2>1. CASE k < i
    <3>1. k \in 1 .. Len(a)
      BY <1>1, <1>4, <2>1
    <3>2. (a \o b)[k] = a[k]
      BY <1>1, <1>2, <3>1
    <3> QED
      BY <1>1, <1>4, <2>1, <3>2
  <2>2. CASE ~(k < i)
    <3>1. k - (i - 1) \in 1 .. Len(q) - i /\ (k - (i - 1)) + i = k + 1
      BY <1>4, <2>2
    <3>2. (a \o b)[k] = b[k - (i - 1)]
      BY <1>1, <1>2, <1>4, <2>2
    <3>3. b[k - (i - 1)] = q[k + 1]
      <4>1. b[k - (i - 1)] = q[(k - (i - 1)) + i]
        BY <1>2, <3>1
      <4> QED
        BY <3>1, <4>1
    <3> QED
      BY <2>2, <3>2, <3>3
  <2> QED
    BY <2>1, <2>2
<1> QED
  BY <1>3, <1>5, <1>6

\* Where curr_batch_last is when request i of a queue of n leaves.
LastAfter(last, i, n) ==
    CASE ~config.par_bs -> last
      [] config.par_bs /\ last = i - 1 /\ i = 1 -> Min({Window - 1, n - 2})
      [] config.par_bs /\ (last > i - 1 \/ (last = i - 1 /\ i > 1)) -> last - 1
      [] OTHER -> last

\* A request leaves the batch, from within or from behind, or was its last one.
LEMMA LeftBatch ==
    ASSUME NEW q0 \in Seq(Entry), NEW i \in 1 .. Len(q0), NEW last \in Int, Batched(q0, last),
           config \in Configs
    PROVE  /\ Batched(Mark(RemoveAt(q0, i)), LastAfter(last, i, Len(q0)))
           /\ LastAfter(last, i, Len(q0)) \in Int
<1> DEFINE cut == RemoveAt(q0, i)
           q == Mark(cut)
           n == Len(q0)
           t == n - 1
           next == LastAfter(last, i, n)
<1>1. n \in Nat /\ t \in Nat /\ t = n - 1 /\ i \in Nat /\ 1 <= i /\ i <= n /\ DOMAIN q0 = 1 .. n
  OBVIOUS
<1>2. /\ last >= -1 /\ last < n /\ (~config.par_bs => last = -1)
      /\ (config.par_bs => last >= 0)
      /\ \A k \in 1 .. n : q0[k].mark <=> k - 1 <= last
  BY <1>1 DEF Batched
<1>3. cut \in Seq(Entry) /\ Len(cut) = t /\ \A k \in 1 .. t : cut[k] = IF k < i THEN q0[k] ELSE q0[k + 1]
  BY RemoveAtParts
<1> HIDE DEF cut, n, t
<1>4. q \in Seq(Entry) /\ Len(q) = t
  BY <1>3, MarkKeeps
<1>5. \A k \in 1 .. t : q[k].mark = IF config.par_bs /\ \A j \in DOMAIN cut : ~cut[j].mark
                                    THEN k <= Window ELSE cut[k].mark
  <2>1. \A k \in 1 .. Len(cut) : Mark(cut)[k].mark =
            IF config.par_bs /\ \A j \in DOMAIN cut : ~cut[j].mark THEN k <= Window ELSE cut[k].mark
    BY <1>3, MarkKeeps, Zenon
  <2>2. Len(cut) = t
    BY <1>3
  <2> QED
    BY <2>1, <2>2, Zenon
<1>6. \A k \in 1 .. t : cut[k].mark <=> (IF k < i THEN k - 1 ELSE k) <= last
  <2> TAKE k \in 1 .. t
  <2>1. CASE k < i
    <3>1. k \in 1 .. n /\ cut[k] = q0[k]
      BY <1>1, <1>3, <2>1
    <3> QED
      BY <1>2, <2>1, <3>1
  <2>2. CASE ~(k < i)
    <3>1. k + 1 \in 1 .. n /\ cut[k] = q0[k + 1] /\ (k + 1) - 1 = k
      BY <1>1, <1>3, <2>2
    <3> QED
      BY <1>2, <2>2, <3>1
  <2> QED
    BY <2>1, <2>2
<1>7. \A k \in 1 .. t : q[k].mark \in BOOLEAN /\ cut[k].mark \in BOOLEAN
  <2> HIDE DEF q
  <2> TAKE k \in 1 .. t
  <2>1. q[k] \in Entry /\ cut[k] \in Entry
    BY <1>3, <1>4
  <2> QED
    BY <2>1 DEF Entry
<1>8. config.par_bs \in BOOLEAN
  BY ControllerAssumption
<1>9. DOMAIN q = 1 .. t /\ DOMAIN cut = 1 .. t
  BY <1>3, <1>4
<1> HIDE DEF q
<1>10. CASE ~config.par_bs
  <2>1. last = -1 /\ next = -1
    BY <1>2, <1>10 DEF LastAfter
  <2>2. \A k \in 1 .. t : ~q[k].mark /\ ~(k - 1 <= -1)
    <3> TAKE k \in 1 .. t
    <3>1. ~cut[k].mark
      BY <1>1, <1>6, <2>1
    <3> QED
      BY <1>1, <1>5, <1>10, <3>1
  <2>3. -1 >= -1 /\ -1 < t
    BY <1>1
  <2> HIDE DEF next
  <2>4. Batched(q, next) /\ next \in Int
    BY <1>4, <1>9, <1>10, <2>1, <2>2, <2>3 DEF Batched
  <2> QED
    BY <2>4 DEF next, q, cut, n
<1>11. CASE config.par_bs /\ last = i - 1 /\ i = 1
  <2>1. \A k \in 1 .. t : ~cut[k].mark
    BY <1>1, <1>6, <1>11
  <2>2. \A k \in 1 .. t : q[k].mark <=> k <= Window
    BY <1>5, <1>9, <1>11, <2>1
  <2>3. next = IF Window - 1 <= t - 1 THEN Window - 1 ELSE t - 1
    <3>1. next = Min({Window - 1, n - 2})
      BY <1>11 DEF LastAfter
    <3>2. n - 2 = t - 1 /\ n - 2 \in Int /\ Window - 1 \in Int
      BY <1>1, Numbers
    <3> HIDE DEF next
    <3> QED
      BY <3>1, <3>2, MinOfTwo
  <2> HIDE DEF next
  <2>4. \A k \in 1 .. t : k <= Window <=> k - 1 <= next
    BY <1>1, <2>3, Numbers
  <2>5. next >= -1 /\ next < t /\ next \in Int /\ (next = -1 => t = 0)
    BY <1>1, <2>3, Numbers
  <2>6. Batched(q, next)
    BY <1>4, <1>9, <1>11, <2>2, <2>4, <2>5 DEF Batched
  <2> QED
    BY <2>5, <2>6 DEF next, q, cut, n
<1>12. CASE config.par_bs /\ (last > i - 1 \/ (last = i - 1 /\ i > 1))
  <2>1. next = last - 1
    BY <1>1, <1>12 DEF LastAfter
  <2>2. \A k \in 1 .. t : cut[k].mark <=> k - 1 <= last - 1
    BY <1>1, <1>6, <1>12
  <2>3. last - 1 >= 0 /\ last - 1 < t /\ 1 \in 1 .. t /\ cut[1].mark
    <3>1. last - 1 >= 0 /\ last - 1 < t /\ 1 \in 1 .. t
      BY <1>1, <1>2, <1>12
    <3> QED
      BY <2>2, <3>1
  <2>4. \A k \in 1 .. t : q[k].mark = cut[k].mark
    BY <1>5, <1>9, <2>3
  <2>5. \A k \in 1 .. t : q[k].mark <=> k - 1 <= last - 1
    BY <2>2, <2>4
  <2> HIDE DEF next
  <2>6. next \in Int /\ next >= 0 /\ next < t
    BY <2>1, <2>3
  <2>7. Batched(q, next)
    BY <1>4, <1>9, <1>12, <2>1, <2>5, <2>6 DEF Batched
  <2> QED
    BY <2>6, <2>7 DEF next, q, cut, n
<1>13. CASE config.par_bs /\ last < i - 1
  <2>1. next = last
    BY <1>1, <1>13 DEF LastAfter
  <2>2. \A k \in 1 .. t : cut[k].mark <=> k - 1 <= last
    BY <1>1, <1>6, <1>13
  <2>3. last < t /\ 1 \in 1 .. t /\ last >= 0
    BY <1>1, <1>2, <1>13
  <2>4. cut[1].mark
    BY <2>2, <2>3
  <2>5. \A k \in 1 .. t : q[k].mark = cut[k].mark
    BY <1>5, <1>9, <2>3, <2>4
  <2>6. \A k \in 1 .. t : q[k].mark <=> k - 1 <= last
    BY <2>2, <2>5
  <2> HIDE DEF next
  <2>7. Batched(q, next) /\ next \in Int
    BY <1>4, <1>9, <1>13, <2>1, <2>3, <2>6 DEF Batched
  <2> QED
    BY <2>7 DEF next, q, cut, n
<1> QED
  BY <1>1, <1>10, <1>11, <1>12, <1>13

\* One request fewer, for the thread it was of.
LEMMA LeftCounts ==
    ASSUME NEW q0 \in Seq(Entry), NEW i \in 1 .. Len(q0), NEW h
    PROVE  LET q == Mark(RemoveAt(q0, i))
           IN  /\ Cardinality(From(q, h)) =
                    Cardinality(From(q0, h)) - (IF q0[i].th = h THEN 1 ELSE 0)
               /\ Cardinality(Waited(q, h)) =
                    Cardinality(Waited(q0, h)) - (IF q0[i].th = h /\ Answered(q0[i]) THEN 1 ELSE 0)
<1> DEFINE cut == RemoveAt(q0, i)
           n == Len(q0)
<1>1. n \in Nat /\ i \in 1 .. n /\ DOMAIN q0 = 1 .. n
  OBVIOUS
<1>2. cut \in Seq(Entry) /\ Len(cut) = n - 1
  BY RemoveAtParts
<1>3. \A k \in 1 .. n - 1 : cut[k] = q0[IF k < i THEN k ELSE k + 1]
  BY RemoveAtParts
<1>4. DOMAIN cut = 1 .. n - 1
  BY <1>2
<1>5. From(Mark(cut), h) = From(cut, h) /\ Waited(Mark(cut), h) = Waited(cut, h)
  BY <1>2, MarkCounts
<1> HIDE DEF cut, n
<1>6. \A k \in 1 .. n - 1 : (IF k < i THEN k ELSE k + 1) \in 1 .. n
  BY <1>1
<1>7. /\ Cardinality(From(q0, h)) \in Nat
      /\ Cardinality(Waited(q0, h)) \in Nat
  <2>1. Len(q0) \in Nat /\ DOMAIN q0 = 1 .. Len(q0)
    OBVIOUS
  <2> QED
    BY <2>1, CountsAreNumbers
<1>8. Closes(n, i, From(q0, h), From(cut, h))
  <2>1. From(q0, h) \subseteq 1 .. n /\ From(cut, h) \subseteq 1 .. n - 1
    BY <1>1, <1>4 DEF From
  <2>2. \A k \in 1 .. n - 1 : k \in From(cut, h) <=> (IF k < i THEN k ELSE k + 1) \in From(q0, h)
    BY <1>1, <1>3, <1>4, <1>6, Zenon DEF From
  <2> QED
    BY <2>1, <2>2, Zenon DEF Closes
<1>9. Closes(n, i, Waited(q0, h), Waited(cut, h))
  <2>1. Waited(q0, h) \subseteq 1 .. n /\ Waited(cut, h) \subseteq 1 .. n - 1
    BY <1>1, <1>4 DEF Waited
  <2>2. \A k \in 1 .. n - 1 : k \in Waited(cut, h) <=> (IF k < i THEN k ELSE k + 1) \in Waited(q0, h)
    BY <1>1, <1>3, <1>4, <1>6, Zenon DEF Waited
  <2> QED
    BY <2>1, <2>2, Zenon DEF Closes
<1>10. i \in From(q0, h) <=> q0[i].th = h
  BY <1>1 DEF From
<1>11. i \in Waited(q0, h) <=> q0[i].th = h /\ Answered(q0[i])
  BY <1>1 DEF Waited
<1>12. Cardinality(From(cut, h)) = Cardinality(From(q0, h)) - (IF q0[i].th = h THEN 1 ELSE 0)
  <2>1. Cardinality(From(cut, h)) = IF i \in From(q0, h) THEN Cardinality(From(q0, h)) - 1
                                    ELSE Cardinality(From(q0, h))
    BY <1>1, <1>8, CountClosed
  <2> QED
    BY <1>7, <1>10, <2>1
<1>13. Cardinality(Waited(cut, h)) =
         Cardinality(Waited(q0, h)) - (IF q0[i].th = h /\ Answered(q0[i]) THEN 1 ELSE 0)
  <2>1. Cardinality(Waited(cut, h)) = IF i \in Waited(q0, h) THEN Cardinality(Waited(q0, h)) - 1
                                      ELSE Cardinality(Waited(q0, h))
    BY <1>1, <1>9, CountClosed
  <2> QED
    BY <1>7, <1>11, <2>1
<1> QED
  BY <1>5, <1>12, <1>13 DEF cut

-----------------------------------------------------------------------------
(* The components after each step of process_event.                        *)

\* Only bank b is another.
OtherBanksSame(bank, bank2, b) == \A c \in Banks \ {b} : bank2[c] = bank[c]

LEMMA RowEndValue ==
    ASSUME NEW x \in States, NEW b \in Banks
    PROVE  /\ RowEnd(x, b) \in Nat
           /\ RowEnd(x, b) >= tRAS + x.bank[b].last_activate_time
<1>1. x.bank[b].last_activate_time \in Int
  <2>1. x.bank[b] \in Bank
    BY StateParts
  <2> QED
    BY <2>1 DEF Bank
<1>2. tRAS + x.bank[b].last_activate_time \in Int
  BY <1>1, Numbers
<1> DEFINE e == tRAS + x.bank[b].last_activate_time
<1> HIDE DEF e
<1>3. Max({0, e}) = IF 0 >= e THEN 0 ELSE e
  BY <1>2, MaxOfTwo DEF e
<1>4. RowEnd(x, b) = Max({0, e})
  BY DEF RowEnd, e
<1>5. e \in Int
  BY <1>2 DEF e
<1>6. RowEnd(x, b) \in Nat /\ RowEnd(x, b) >= e
  BY <1>3, <1>4, <1>5
<1> QED
  BY <1>6 DEF e

LEMMA CommandParts ==
    ASSUME NEW x \in States, NEW cmd \in {"activate", "precharge"} \cup Column, NEW b \in Banks,
           NEW page \in Nat, NEW at \in Int
    PROVE  LET y == Command(x, cmd, b, page, at)
           IN  /\ y \in States
               /\ y.log = Append(x.log, [cmd |-> cmd, bank |-> b, page |-> page, at |-> at])
               /\ y.q = x.q /\ y.last = x.last /\ y.n = x.n /\ y.bank = x.bank /\ y.act = x.act
               /\ y.wr = x.wr /\ y.rd = x.rd /\ y.rdrank = x.rdrank /\ y.dp = x.dp
               /\ y.owed = x.owed
<1> DEFINE c == [cmd |-> cmd, bank |-> b, page |-> page, at |-> at]
           l == Append(x.log, c)
<1>1. c \in Pin
  BY DEF Pin
<1> HIDE DEF c
<1>2. l \in Seq(Pin)
  BY <1>1, StateParts
<1>3. Command(x, cmd, b, page, at) = [x EXCEPT !.log = l]
  BY DEF Command, c
<1> HIDE DEF l
<1> DEFINE y == [x EXCEPT !.log = l]
<1>4. /\ y \in States /\ y.log = l
      /\ y.q = x.q /\ y.last = x.last /\ y.n = x.n /\ y.bank = x.bank /\ y.act = x.act
      /\ y.wr = x.wr /\ y.rd = x.rd /\ y.rdrank = x.rdrank /\ y.dp = x.dp
      /\ y.owed = x.owed
  BY <1>2 DEF States
<1> QED
  BY <1>3, <1>4 DEF l, c

LEMMA ActivateParts ==
    ASSUME NEW x \in States, NEW r \in Entry
    PROVE  LET y == Activate(x, r)
           IN  /\ y \in States
               /\ OtherBanksSame(x.bank, y.bank, r.bank)
               /\ y.bank[r.bank] = [action_type |-> "activate", action_time |-> 0,
                                    page_num |-> r.page, last_activate_time |-> 0]
               /\ y.act = [x.act EXCEPT ![Rank[r.bank]] = 0]
               /\ y.log = Append(x.log, [cmd |-> "activate", bank |-> r.bank, page |-> r.page, at |-> 0])
               /\ y.q = x.q /\ y.last = x.last /\ y.n = x.n
               /\ y.wr = x.wr /\ y.rd = x.rd /\ y.rdrank = x.rdrank /\ y.dp = x.dp
               /\ y.owed = x.owed
<1> DEFINE k == [action_type |-> "activate", action_time |-> 0,
                 page_num |-> r.page, last_activate_time |-> 0]
           bank == [x.bank EXCEPT ![r.bank] = k]
           act == [x.act EXCEPT ![Rank[r.bank]] = 0]
           z == [x EXCEPT !.bank = bank, !.act = act]
<1>1. r.bank \in Banks /\ r.page \in Nat /\ Rank[r.bank] \in Ranks
  BY RankOfBank DEF Entry
<1>2. k \in Bank
  BY <1>1 DEF Bank, Open
<1> HIDE DEF k
<1>3. /\ bank \in [Banks -> Bank] /\ act \in [Ranks -> Int]
      /\ OtherBanksSame(x.bank, bank, r.bank) /\ bank[r.bank] = k
  BY <1>1, <1>2, StateParts DEF OtherBanksSame
<1>4. [x EXCEPT !.bank[r.bank] = k, !.act[Rank[r.bank]] = 0] = z
  BY DEF States
<1>5. Activate(x, r) = Command(z, "activate", r.bank, r.page, 0)
  BY <1>4 DEF Activate, k
<1> HIDE DEF bank, act
<1>6. /\ z \in States /\ z.bank = bank /\ z.act = act /\ z.log = x.log
      /\ z.q = x.q /\ z.last = x.last /\ z.n = x.n
      /\ z.wr = x.wr /\ z.rd = x.rd /\ z.rdrank = x.rdrank /\ z.dp = x.dp
      /\ z.owed = x.owed
  BY <1>3 DEF States
<1> HIDE DEF z
<1> DEFINE y == Command(z, "activate", r.bank, r.page, 0)
<1>7. /\ y \in States
      /\ y.log = Append(z.log, [cmd |-> "activate", bank |-> r.bank, page |-> r.page, at |-> 0])
      /\ y.q = z.q /\ y.last = z.last /\ y.n = z.n /\ y.bank = z.bank /\ y.act = z.act
      /\ y.wr = z.wr /\ y.rd = z.rd /\ y.rdrank = z.rdrank /\ y.dp = z.dp
      /\ y.owed = z.owed
  <2>1. "activate" \in {"activate", "precharge"} \cup Column /\ 0 \in Int
    OBVIOUS
  <2> QED
    BY <1>1, <1>6, <2>1, CommandParts, Zenon
<1> HIDE DEF y
<1> QED
  BY <1>3, <1>5, <1>6, <1>7 DEF y, k, act

LEMMA PrechargeParts ==
    ASSUME NEW x \in States, NEW b \in Banks
    PROVE  LET y == Precharge(x, b)
               end == RowEnd(x, b)
           IN  /\ y \in States
               /\ OtherBanksSame(x.bank, y.bank, b)
               /\ y.bank[b].action_type = "precharge" /\ y.bank[b].action_time = tRP + end
               /\ y.bank[b].page_num = x.bank[b].page_num
               /\ y.bank[b].last_activate_time = x.bank[b].last_activate_time
               /\ y.log = Append(x.log, [cmd |-> "precharge", bank |-> b,
                                         page |-> x.bank[b].page_num, at |-> end])
               /\ y.q = x.q /\ y.last = x.last /\ y.n = x.n /\ y.act = x.act
               /\ y.wr = x.wr /\ y.rd = x.rd /\ y.rdrank = x.rdrank /\ y.dp = x.dp
               /\ y.owed = x.owed
<1> DEFINE end == RowEnd(x, b)
           k == [x.bank[b] EXCEPT !.action_time = tRP + end, !.action_type = "precharge"]
           bank == [x.bank EXCEPT ![b] = k]
           z == [x EXCEPT !.bank = bank]
           page == x.bank[b].page_num
<1>1. end \in Nat
  BY RowEndValue
<1>2. x.bank \in [Banks -> Bank]
  BY StateParts
<1> HIDE DEF end
<1>3. x.bank[b] \in Bank /\ tRP + end \in Int
  BY <1>1, <1>2, Numbers
<1>4. /\ k \in Bank /\ k.action_type = "precharge" /\ k.action_time = tRP + end
      /\ k.page_num = x.bank[b].page_num
      /\ k.last_activate_time = x.bank[b].last_activate_time
      /\ page \in Nat
  BY <1>3 DEF Bank
<1>5. [x EXCEPT !.bank[b].action_time = tRP + end, !.bank[b].action_type = "precharge"] = z
  BY <1>2, <1>3 DEF States, Bank
<1>6. Precharge(x, b) = Command(z, "precharge", b, page, end)
  BY <1>5 DEF Precharge, end
<1> HIDE DEF k
<1>7. bank \in [Banks -> Bank] /\ OtherBanksSame(x.bank, bank, b) /\ bank[b] = k
  BY <1>2, <1>4 DEF OtherBanksSame
<1> HIDE DEF bank
<1>8. /\ z \in States /\ z.bank = bank /\ z.act = x.act /\ z.log = x.log
      /\ z.q = x.q /\ z.last = x.last /\ z.n = x.n
      /\ z.wr = x.wr /\ z.rd = x.rd /\ z.rdrank = x.rdrank /\ z.dp = x.dp
      /\ z.owed = x.owed
  BY <1>7 DEF States
<1> HIDE DEF z, page
<1> DEFINE y == Command(z, "precharge", b, page, end)
<1>9. /\ y \in States
      /\ y.log = Append(z.log, [cmd |-> "precharge", bank |-> b, page |-> page, at |-> end])
      /\ y.q = z.q /\ y.last = z.last /\ y.n = z.n /\ y.bank = z.bank /\ y.act = z.act
      /\ y.wr = z.wr /\ y.rd = z.rd /\ y.rdrank = z.rdrank /\ y.dp = z.dp
      /\ y.owed = z.owed
  <2>1. "precharge" \in {"activate", "precharge"} \cup Column /\ end \in Int /\ page \in Nat
    BY <1>1, <1>4 DEF page
  <2> QED
    BY <1>8, <2>1, CommandParts, Zenon
<1> HIDE DEF y
<1> QED
  BY <1>4, <1>6, <1>7, <1>8, <1>9 DEF y, end, page

KindOf(r) == IF r.type \in Reads THEN "read" ELSE "write"

LEMMA BurstParts ==
    ASSUME NEW x \in States, NEW r \in Entry
    PROVE  LET y == Burst(x, r)
               b == r.bank
           IN  /\ y \in States
               /\ OtherBanksSame(x.bank, y.bank, b)
               /\ y.bank[b].action_type = x.bank[b].action_type /\ y.bank[b].action_time = 0
               /\ y.bank[b].page_num = x.bank[b].page_num
               /\ y.bank[b].last_activate_time = x.bank[b].last_activate_time
               /\ y.log = Append(x.log, [cmd |-> KindOf(r), bank |-> b, page |-> r.page, at |-> 0])
               /\ y.dp = x.dp \cup {[at |-> tCL + j, kind |-> KindOf(r)] : j \in 0 .. tBL - 1}
               /\ y.n = [x.n EXCEPT ![r.th] = IF config.par_bs THEN @ - 1 ELSE @]
               /\ y.owed = [x.owed EXCEPT ![r.th] = IF Answered(r) THEN @ - 1 ELSE @]
               /\ y.wr = IF KindOf(r) = "write" THEN [x.wr EXCEPT ![Rank[b]] = tCL + tBL] ELSE x.wr
               /\ y.q = x.q /\ y.last = x.last /\ y.act = x.act
<1> DEFINE b == r.bank
           kind == KindOf(r)
           dp == x.dp \cup {[at |-> tCL + j, kind |-> kind] : j \in 0 .. tBL - 1}
           k == [x.bank[b] EXCEPT !.action_time = 0]
           bank == [x.bank EXCEPT ![b] = k]
           n == [x.n EXCEPT ![r.th] = IF config.par_bs THEN @ - 1 ELSE @]
           owes == [x.owed EXCEPT ![r.th] = IF Answered(r) THEN @ - 1 ELSE @]
           u == [x EXCEPT !.dp = dp, !.bank = bank, !.n = n, !.owed = owes]
           rd == [rank |-> Rank[b], at |-> 0]
           rdrank == [x.rdrank EXCEPT ![Rank[b]] = tCL + tBL]
           wr == [x.wr EXCEPT ![Rank[b]] = tCL + tBL]
           z == IF kind = "read" THEN [u EXCEPT !.rd = rd, !.rdrank = rdrank]
                ELSE [u EXCEPT !.wr = wr]
<1>1. b \in Banks /\ r.page \in Nat /\ r.th \in Threads /\ Rank[b] \in Ranks
  BY RankOfBank DEF Entry
<1>2. kind \in Column
  BY DEF KindOf, Column
<1>3. tCL + tBL \in Int
  BY Numbers
<1>4. x.bank \in [Banks -> Bank] /\ x.bank[b] \in Bank
  BY <1>1, StateParts
<1>5. /\ k \in Bank /\ k.action_time = 0 /\ k.action_type = x.bank[b].action_type
      /\ k.page_num = x.bank[b].page_num
      /\ k.last_activate_time = x.bank[b].last_activate_time
  BY <1>4 DEF Bank
<1>6. dp \in SUBSET Slot
  <2>1. \A j \in 0 .. tBL - 1 : [at |-> tCL + j, kind |-> kind] \in Slot
    <3> HIDE DEF kind
    <3> QED
      BY <1>2, Numbers DEF Slot
  <2>2. x.dp \in SUBSET Slot
    BY StateParts
  <2> HIDE DEF kind
  <2> QED
    BY <2>1, <2>2
<1>7. n \in [Threads -> Int] /\ owes \in [Threads -> Int]
  BY <1>1, StateParts
<1>8. rd \in [rank : Ranks \cup {0}, at : Int] /\ rdrank \in [Ranks -> Int] /\ wr \in [Ranks -> Int]
  BY <1>1, <1>3, StateParts
<1>9. [x EXCEPT !.dp = @ \cup {[at |-> tCL + j, kind |-> kind] : j \in 0 .. tBL - 1},
                !.bank[b].action_time = 0,
                !.n[r.th] = IF config.par_bs THEN @ - 1 ELSE @,
                !.owed[r.th] = IF Answered(r) THEN @ - 1 ELSE @] = u
  <2> HIDE DEF kind
  <2> QED
    BY DEF States
<1> DEFINE xx == [x EXCEPT !.dp = @ \cup {[at |-> tCL + j, kind |-> kind] : j \in 0 .. tBL - 1},
                !.bank[b].action_time = 0,
                !.n[r.th] = IF config.par_bs THEN @ - 1 ELSE @,
                !.owed[r.th] = IF Answered(r) THEN @ - 1 ELSE @]
<1>10. Burst(x, r) = Command(IF kind = "read"
                             THEN [xx EXCEPT !.rd = [rank |-> Rank[b], at |-> 0],
                                             !.rdrank[Rank[b]] = tCL + tBL]
                             ELSE [xx EXCEPT !.wr[Rank[b]] = tCL + tBL],
                             kind, b, r.page, 0)
  BY Zenon DEF Burst, KindOf
<1> HIDE DEF k
<1>11. bank \in [Banks -> Bank] /\ OtherBanksSame(x.bank, bank, b) /\ bank[b] = k
  BY <1>1, <1>4, <1>5 DEF OtherBanksSame
<1>12. xx = u
  BY <1>9
<1> HIDE DEF xx, bank, dp, n, owes
<1>13. /\ u \in States /\ u.bank = bank /\ u.dp = dp /\ u.n = n /\ u.owed = owes
       /\ u.q = x.q /\ u.last = x.last /\ u.act = x.act /\ u.wr = x.wr /\ u.rd = x.rd
       /\ u.rdrank = x.rdrank /\ u.log = x.log
  BY <1>6, <1>7, <1>11 DEF States
<1> HIDE DEF u, rd, kind
<1>14. /\ [u EXCEPT !.rd = rd, !.rdrank[Rank[b]] = tCL + tBL] = [u EXCEPT !.rd = rd, !.rdrank = rdrank]
       /\ [u EXCEPT !.wr[Rank[b]] = tCL + tBL] = [u EXCEPT !.wr = wr]
  BY <1>13 DEF States
<1>15. Burst(x, r) = Command(z, kind, b, r.page, 0)
  BY <1>10, <1>12, <1>14, Zenon DEF rd
<1> HIDE DEF wr, rdrank
<1>16. /\ z \in States /\ z.bank = bank /\ z.dp = dp /\ z.n = n /\ z.owed = owes
       /\ z.q = x.q /\ z.last = x.last /\ z.act = x.act /\ z.log = x.log
       /\ z.wr = IF kind = "write" THEN wr ELSE x.wr
  <2>1. CASE kind = "read"
    <3>1. z = [u EXCEPT !.rd = rd, !.rdrank = rdrank] /\ kind # "write"
      BY <2>1
    <3> HIDE DEF z
    <3> QED
      BY <1>8, <1>13, <3>1 DEF States
  <2>2. CASE kind = "write"
    <3>1. z = [u EXCEPT !.wr = wr]
      BY <2>2
    <3> HIDE DEF z
    <3> QED
      BY <1>8, <1>13, <2>2, <3>1 DEF States
  <2> QED
    BY <1>2, <2>1, <2>2 DEF Column
<1> HIDE DEF z, b
<1> DEFINE y == Command(z, kind, b, r.page, 0)
<1>17. /\ y \in States
       /\ y.log = Append(z.log, [cmd |-> kind, bank |-> b, page |-> r.page, at |-> 0])
       /\ y.q = z.q /\ y.last = z.last /\ y.n = z.n /\ y.bank = z.bank /\ y.act = z.act
       /\ y.wr = z.wr /\ y.rd = z.rd /\ y.rdrank = z.rdrank /\ y.dp = z.dp
       /\ y.owed = z.owed
  <2>1. kind \in {"activate", "precharge"} \cup Column /\ 0 \in Int
    BY <1>2
  <2> QED
    BY <1>1, <1>16, <2>1, CommandParts, Zenon
<1> HIDE DEF y
<1>18. /\ y \in States
       /\ OtherBanksSame(x.bank, y.bank, b)
       /\ y.bank[b].action_type = x.bank[b].action_type /\ y.bank[b].action_time = 0
       /\ y.bank[b].page_num = x.bank[b].page_num
       /\ y.bank[b].last_activate_time = x.bank[b].last_activate_time
       /\ y.log = Append(x.log, [cmd |-> kind, bank |-> b, page |-> r.page, at |-> 0])
       /\ y.dp = dp /\ y.n = n /\ y.owed = owes
       /\ y.wr = IF kind = "write" THEN wr ELSE x.wr
       /\ y.q = x.q /\ y.last = x.last /\ y.act = x.act
  BY <1>5, <1>11, <1>16, <1>17
<1>19. y = Burst(x, r)
  BY <1>15 DEF y
<1> QED
  BY <1>18, <1>19 DEF b, kind, dp, n, owes, wr

\* The row stays open, or is closed.
LEMMA CloseOrKeepParts ==
    ASSUME NEW x \in States, NEW i \in DOMAIN x.q
    PROVE  LET y == CloseOrKeep(x, i)
               b == x.q[i].bank
           IN  \/ y = Precharge(x, b)
               \/ /\ y \in States
                  /\ OtherBanksSame(x.bank, y.bank, b)
                  /\ y.bank[b].action_type = KindOf(x.q[i])
                  /\ y.bank[b].page_num = x.bank[b].page_num
                  /\ y.bank[b].last_activate_time = x.bank[b].last_activate_time
                  /\ y.q = x.q /\ y.last = x.last /\ y.n = x.n /\ y.act = x.act
                  /\ y.wr = x.wr /\ y.rd = x.rd /\ y.rdrank = x.rdrank /\ y.dp = x.dp
                  /\ y.owed = x.owed /\ y.log = x.log
<1> DEFINE r == x.q[i]
           b == r.bank
           kind == KindOf(r)
           wanted == \E j \in DOMAIN x.q : i < j /\ j <= Window /\ RowOf(x.q[j]) = RowOf(r)
           end == RowEnd(x, b)
           k1 == [x.bank[b] EXCEPT !.action_type = kind]
           k2 == [x.bank[b] EXCEPT !.action_type = kind, !.action_time = end]
           y1 == [x EXCEPT !.bank = [x.bank EXCEPT ![b] = k1]]
           y2 == [x EXCEPT !.bank = [x.bank EXCEPT ![b] = k2]]
           Kept(y) == /\ y \in States
                      /\ OtherBanksSame(x.bank, y.bank, b)
                      /\ y.bank[b].action_type = kind
                      /\ y.bank[b].page_num = x.bank[b].page_num
                      /\ y.bank[b].last_activate_time = x.bank[b].last_activate_time
                      /\ y.q = x.q /\ y.last = x.last /\ y.n = x.n /\ y.act = x.act
                      /\ y.wr = x.wr /\ y.rd = x.rd /\ y.rdrank = x.rdrank /\ y.dp = x.dp
                      /\ y.owed = x.owed /\ y.log = x.log
<1>1. r \in Entry /\ b \in Banks
  <2>1. r \in Entry
    BY StateParts
  <2> QED
    BY <2>1 DEF Entry
<1>2. kind \in Open
  BY DEF KindOf, Open
<1>3. x.bank \in [Banks -> Bank] /\ x.bank[b] \in Bank /\ end \in Int
  BY <1>1, StateParts, RowEndValue
<1>4. CloseOrKeep(x, i) =
        IF config.policy = "open" THEN [x EXCEPT !.bank[b].action_type = kind]
        ELSE IF wanted THEN [x EXCEPT !.bank[b].action_type = kind, !.bank[b].action_time = end]
        ELSE Precharge(x, b)
  BY Zenon DEF CloseOrKeep, KindOf
<1> HIDE DEF kind, end, b, wanted, Kept
<1>5. /\ [x EXCEPT !.bank[b].action_type = kind] = y1
      /\ [x EXCEPT !.bank[b].action_type = kind, !.bank[b].action_time = end] = y2
  <2>1. [x EXCEPT !.bank[b].action_type = kind] = y1
    BY <1>1, <1>3 DEF States
  <2>2. [x EXCEPT !.bank[b].action_type = kind, !.bank[b].action_time = end] = y2
    BY <1>1, <1>3 DEF States, Bank
  <2> QED
    BY <2>1, <2>2
<1>6. /\ k1 \in Bank /\ k1.action_type = kind /\ k1.page_num = x.bank[b].page_num
      /\ k1.last_activate_time = x.bank[b].last_activate_time
      /\ k2 \in Bank /\ k2.action_type = kind /\ k2.page_num = x.bank[b].page_num
      /\ k2.last_activate_time = x.bank[b].last_activate_time
  BY <1>2, <1>3 DEF Bank
<1> HIDE DEF k1, k2
<1> USE DEF Kept
<1>7. Kept(y1)
  <2> DEFINE bank == [x.bank EXCEPT ![b] = k1]
  <2>1. bank \in [Banks -> Bank] /\ OtherBanksSame(x.bank, bank, b) /\ bank[b] = k1
    BY <1>1, <1>3, <1>6 DEF OtherBanksSame
  <2> HIDE DEF bank
  <2>2. y1 = [x EXCEPT !.bank = bank]
    BY DEF bank
  <2> HIDE DEF y1
  <2>3. y1 \in States /\ y1.bank = bank
    BY <2>1, <2>2 DEF States
  <2>4. /\ y1.q = x.q /\ y1.last = x.last /\ y1.n = x.n /\ y1.act = x.act
        /\ y1.wr = x.wr /\ y1.rd = x.rd /\ y1.rdrank = x.rdrank /\ y1.dp = x.dp
        /\ y1.owed = x.owed /\ y1.log = x.log
    BY <2>2 DEF States
  <2> QED
    BY <1>6, <2>1, <2>3, <2>4
<1>8. Kept(y2)
  <2> DEFINE bank == [x.bank EXCEPT ![b] = k2]
  <2>1. bank \in [Banks -> Bank] /\ OtherBanksSame(x.bank, bank, b) /\ bank[b] = k2
    BY <1>1, <1>3, <1>6 DEF OtherBanksSame
  <2> HIDE DEF bank
  <2>2. y2 = [x EXCEPT !.bank = bank]
    BY DEF bank
  <2> HIDE DEF y2
  <2>3. y2 \in States /\ y2.bank = bank
    BY <2>1, <2>2 DEF States
  <2>4. /\ y2.q = x.q /\ y2.last = x.last /\ y2.n = x.n /\ y2.act = x.act
        /\ y2.wr = x.wr /\ y2.rd = x.rd /\ y2.rdrank = x.rdrank /\ y2.dp = x.dp
        /\ y2.owed = x.owed /\ y2.log = x.log
    BY <2>2 DEF States
  <2> QED
    BY <1>6, <2>1, <2>3, <2>4
<1> HIDE DEF Kept, y1, y2
<1>9. CloseOrKeep(x, i) = Precharge(x, b) \/ Kept(CloseOrKeep(x, i))
  BY <1>4, <1>5, <1>7, <1>8
<1> QED
  BY <1>9 DEF Kept, b, kind

LEMMA LeaveParts ==
    ASSUME NEW x \in States, NEW i \in 1 .. Len(x.q), Batched(x.q, x.last), config \in Configs
    PROVE  LET y == Leave(x, i)
           IN  /\ y \in States
               /\ y.q = Mark(RemoveAt(x.q, i)) /\ y.last = LastAfter(x.last, i, Len(x.q))
               /\ y.n = x.n /\ y.bank = x.bank /\ y.act = x.act
               /\ y.wr = x.wr /\ y.rd = x.rd /\ y.rdrank = x.rdrank /\ y.dp = x.dp
               /\ y.owed = x.owed /\ y.log = x.log
<1> DEFINE q == Mark(RemoveAt(x.q, i))
           last == LastAfter(x.last, i, Len(x.q))
           y == [x EXCEPT !.q = q, !.last = last]
<1>1. x.q \in Seq(Entry) /\ x.last \in Int
  BY StateParts
<1>2. q \in Seq(Entry)
  BY <1>1, RemoveAtParts, MarkKeeps
<1>3. last \in Int
  BY <1>1, LeftBatch
<1>4. Leave(x, i) = y
  <2>1. Leave(x, i) =
         [x EXCEPT !.q = Mark(RemoveAt(@, i)),
              !.last = CASE ~config.par_bs -> @
                         [] config.par_bs /\ @ = i - 1 /\ i = 1 -> Min({Window - 1, Len(x.q) - 2})
                         [] config.par_bs /\ (@ > i - 1 \/ (@ = i - 1 /\ i > 1)) -> @ - 1
                         [] OTHER -> @]
    BY Zenon DEF Leave
  <2> QED
    BY <2>1 DEF States, LastAfter
<1> HIDE DEF q, last
<1>5. /\ y \in States /\ y.q = q /\ y.last = last
      /\ y.n = x.n /\ y.bank = x.bank /\ y.act = x.act
      /\ y.wr = x.wr /\ y.rd = x.rd /\ y.rdrank = x.rdrank /\ y.dp = x.dp
      /\ y.owed = x.owed /\ y.log = x.log
  BY <1>2, <1>3 DEF States
<1> HIDE DEF y
<1> QED
  BY <1>4, <1>5 DEF q, last

\* Serving request i: the queue, the batch and the counters afterwards.
Served(x, i) == Leave(CloseOrKeep(Burst(x, x.q[i]), i), i)

LEMMA ServedBooks ==
    ASSUME NEW x \in States, NEW i \in 1 .. Len(x.q), config \in Configs, Books(x, <<>>)
    PROVE  Served(x, i) \in States /\ Books(Served(x, i), <<>>)
<1> DEFINE r == x.q[i]
           u == Burst(x, r)
           v == CloseOrKeep(u, i)
           w == Leave(v, i)
<1>1. x.q \in Seq(Entry) /\ r \in Entry /\ x.last \in Int /\ x.n \in [Threads -> Int]
      /\ x.owed \in [Threads -> Int] /\ DOMAIN x.q = 1 .. Len(x.q)
  BY StateParts
<1>2. r.th \in Threads /\ r.bank \in Banks
  BY <1>1 DEF Entry
<1>3. /\ u \in States /\ u.q = x.q /\ u.last = x.last
      /\ u.n = [x.n EXCEPT ![r.th] = IF config.par_bs THEN @ - 1 ELSE @]
      /\ u.owed = [x.owed EXCEPT ![r.th] = IF Answered(r) THEN @ - 1 ELSE @]
  BY <1>1, BurstParts
<1> HIDE DEF u
<1>4. /\ v \in States /\ v.q = x.q /\ v.last = x.last /\ v.n = u.n /\ v.owed = u.owed
  <2>1. i \in DOMAIN u.q /\ u.q[i].bank \in Banks
    BY <1>1, <1>2, <1>3
  <2>2. CASE v = Precharge(u, u.q[i].bank)
    <3> DEFINE p == Precharge(u, u.q[i].bank)
    <3>1. /\ p \in States /\ p.q = u.q /\ p.last = u.last /\ p.n = u.n /\ p.owed = u.owed
      BY <1>3, <2>1, PrechargeParts, Zenon
    <3> HIDE DEF p
    <3>2. v = p
      BY <2>2 DEF p
    <3> QED
      BY <1>3, <3>1, <3>2
  <2>3. CASE /\ v \in States /\ v.q = u.q /\ v.last = u.last /\ v.n = u.n /\ v.owed = u.owed
    BY <1>3, <2>3
  <2> QED
    BY <1>3, <2>1, <2>2, <2>3, CloseOrKeepParts
<1> HIDE DEF v
<1>5. Batched(x.q, x.last)
  BY DEF Books
<1>6. /\ w \in States /\ w.q = Mark(RemoveAt(x.q, i)) /\ w.last = LastAfter(x.last, i, Len(x.q))
      /\ w.n = u.n /\ w.owed = u.owed
  BY <1>4, <1>5, LeaveParts
<1> HIDE DEF w
<1>7. Batched(w.q, w.last)
  BY <1>1, <1>5, <1>6, LeftBatch
<1>8. Counted(w.q, w.n, w.owed, <<>>)
  <2> SUFFICES ASSUME NEW h \in Threads
               PROVE  /\ w.n[h] = IF config.par_bs THEN Cardinality(From(w.q, h)) ELSE 0
                      /\ w.owed[h] = Cardinality(Waited(w.q, h)) + Cardinality(Waited(<<>>, h))
    BY DEF Counted
  <2>1. /\ x.n[h] = IF config.par_bs THEN Cardinality(From(x.q, h)) ELSE 0
        /\ x.owed[h] = Cardinality(Waited(x.q, h)) + Cardinality(Waited(<<>>, h))
    BY DEF Books, Counted
  <2>2. /\ Cardinality(From(w.q, h)) = Cardinality(From(x.q, h)) - (IF r.th = h THEN 1 ELSE 0)
        /\ Cardinality(Waited(w.q, h)) =
             Cardinality(Waited(x.q, h)) - (IF r.th = h /\ Answered(r) THEN 1 ELSE 0)
    BY <1>1, <1>6, LeftCounts
  <2>3. /\ w.n[h] = IF r.th = h /\ config.par_bs THEN x.n[h] - 1 ELSE x.n[h]
        /\ w.owed[h] = IF r.th = h /\ Answered(r) THEN x.owed[h] - 1 ELSE x.owed[h]
    BY <1>1, <1>2, <1>3, <1>6
  <2>4. Cardinality(From(x.q, h)) \in Nat /\ Cardinality(Waited(x.q, h)) \in Nat
    <3>1. Len(x.q) \in Nat
      BY <1>1
    <3> QED
      BY <1>1, <3>1, CountsAreNumbers, Zenon
  <2>5. Cardinality(Waited(<<>>, h)) = 0
    BY NoneWaited
  <2> HIDE DEF r
  <2> QED
    BY <2>1, <2>2, <2>3, <2>4, <2>5
<1>9. w = Served(x, i)
  BY DEF Served, w, v, u
<1> QED
  BY <1>6, <1>7, <1>8, <1>9 DEF Books

\* What process_event may do for the request it has chosen.
LEMMA StepCases ==
    ASSUME NEW x \in States, \A h \in Threads : x.n[h] \in Nat
    PROVE  \/ Step(x) = x
           \/ \E i \in 1 .. Len(x.q) :
                LET r == x.q[i]
                    b == r.bank
                IN  \/ Closed(x, b) /\ RankFree(x, b) /\ Step(x) = Activate(x, r)
                    \/ Opened(x, b) /\ Step(x) = Precharge(x, b)
                    \/ /\ Opened(x, b) /\ RowOf(r) = OpenRow(x, b)
                       /\ IF r.type \in Reads THEN ReadMayGo(x, Rank[b]) ELSE WriteMayGo(x, Rank[b])
                       /\ Step(x) = Served(x, i)
<1>1. CASE Candidates(x) = {}
  BY <1>1, Zenon DEF Step
<1>2. CASE Candidates(x) # {}
  <2> DEFINE i == Choice(x)
             r == x.q[i]
             b == r.bank
             go == IF r.type \in Reads THEN ReadMayGo(x, Rank[b]) ELSE WriteMayGo(x, Rank[b])
  <2>1. i \in Candidates(x)
    BY <1>2, ChoiceIsCandidate
  <2>2. i \in DOMAIN x.q /\ Move(x, i) # "none"
    BY <2>1, CandidatesMove
  <2>3. i \in 1 .. Len(x.q)
    BY <2>2, StateParts
  <2> HIDE DEF i
  <2>4. Step(x) = CASE Move(x, i) = "activate"  -> Activate(x, r)
                    [] Move(x, i) = "precharge" -> Precharge(x, b)
                    [] Move(x, i) = "column"    -> Served(x, i)
    BY <1>2, Zenon DEF Step, Served, i
  <2> HIDE DEF b, r, go
  <2>5. Move(x, i) = CASE Closed(x, b) /\ RankFree(x, b) -> "activate"
                       [] Opened(x, b) /\ RowOf(r) # OpenRow(x, b) /\ config.policy = "open"
                          /\ RowUnwanted(x, i) /\ RankFree(x, b) -> "precharge"
                       [] Opened(x, b) /\ RowOf(r) = OpenRow(x, b) /\ go -> "column"
                       [] OTHER -> "none"
    BY Zenon DEF Move, r, b, go
  <2> DEFINE A == Closed(x, b) /\ RankFree(x, b)
             P == Opened(x, b) /\ RowOf(r) # OpenRow(x, b) /\ config.policy = "open"
                  /\ RowUnwanted(x, i) /\ RankFree(x, b)
             C == Opened(x, b) /\ RowOf(r) = OpenRow(x, b) /\ go
  <2>6. A => ~Opened(x, b)
    BY DEF Closed, Opened
  <2>7. /\ (A => Move(x, i) = "activate") /\ (P => Move(x, i) = "precharge")
        /\ (C => Move(x, i) = "column") /\ (~A /\ ~P /\ ~C => Move(x, i) = "none")
    <3> DEFINE m == Move(x, i)
    <3>1. m = CASE A -> "activate" [] P -> "precharge" [] C -> "column" [] OTHER -> "none"
      BY <2>5, Zenon
    <3>2. ~(A /\ P) /\ ~(A /\ C) /\ ~(P /\ C)
      BY <2>6
    <3> HIDE DEF m, A, P, C
    <3>3. /\ (A => m = "activate") /\ (P => m = "precharge")
          /\ (C => m = "column") /\ (~A /\ ~P /\ ~C => m = "none")
      BY <3>1, <3>2
    <3> QED
      BY <3>3 DEF m
  <2>8. (A /\ Step(x) = Activate(x, r)) \/ (P /\ Step(x) = Precharge(x, b))
        \/ (C /\ Step(x) = Served(x, i))
    <3> HIDE DEF A, P, C
    <3> QED
      BY <2>2, <2>4, <2>7
  <2> QED
    BY <2>3, <2>8 DEF r, b, go
<1> QED
  BY <1>1, <1>2

LEMMA StepBooks ==
    ASSUME NEW x \in States, config \in Configs, Books(x, <<>>)
    PROVE  Step(x) \in States /\ Books(Step(x), <<>>)
<1>1. x.q \in Seq(Entry) /\ Len(x.q) \in Nat /\ DOMAIN x.q = 1 .. Len(x.q)
  BY StateParts
<1>2. \A h \in Threads : x.n[h] \in Nat
  <2> TAKE h \in Threads
  <2>1. Cardinality(From(x.q, h)) \in Nat
    BY <1>1, CountsAreNumbers, Zenon
  <2> QED
    BY <2>1 DEF Books, Counted
<1>3. CASE Step(x) = x
  BY <1>3
<1>4. ASSUME NEW i \in 1 .. Len(x.q)
      PROVE  /\ Activate(x, x.q[i]) \in States /\ Books(Activate(x, x.q[i]), <<>>)
             /\ Precharge(x, x.q[i].bank) \in States /\ Books(Precharge(x, x.q[i].bank), <<>>)
             /\ Served(x, i) \in States /\ Books(Served(x, i), <<>>)
  <2> DEFINE r == x.q[i]
             a == Activate(x, r)
             p == Precharge(x, r.bank)
  <2>1. r \in Entry /\ r.bank \in Banks
    <3>1. r \in Entry
      BY <1>1
    <3> QED
      BY <3>1 DEF Entry
  <2> HIDE DEF r
  <2>2. a \in States /\ a.q = x.q /\ a.last = x.last /\ a.n = x.n /\ a.owed = x.owed
    BY <2>1, ActivateParts, Zenon
  <2>3. p \in States /\ p.q = x.q /\ p.last = x.last /\ p.n = x.n /\ p.owed = x.owed
    BY <2>1, PrechargeParts, Zenon
  <2> HIDE DEF a, p
  <2>4. Books(a, <<>>) /\ Books(p, <<>>)
    BY <2>2, <2>3 DEF Books
  <2>5. Served(x, i) \in States /\ Books(Served(x, i), <<>>)
    BY ServedBooks
  <2> QED
    BY <2>2, <2>3, <2>4, <2>5 DEF a, p, r
<1> QED
  BY <1>2, <1>3, <1>4, StepCases

\* Older times are the same or one less.
LEMMA OlderValue ==
    ASSUME NEW t \in Int, NEW limit
    PROVE  Older(t, limit) \in Int /\ Older(t, limit) >= t - 1 /\ Older(t, limit) <= t
BY DEF Older

\* One cycle later: times are relative to the current cycle, and the oldest
\* commands are forgotten.
Aged(l, l2, k) ==
    /\ k \in 0 .. Len(l) /\ Len(l2) = Len(l) - k
    /\ \A i \in 1 .. Len(l) - k :
         /\ l2[i].cmd = l[i + k].cmd /\ l2[i].bank = l[i + k].bank /\ l2[i].page = l[i + k].page
         /\ l2[i].at = l[i + k].at - 1

LEMMA NextCycleParts ==
    ASSUME NEW x \in States
    PROVE  LET y == NextCycle(x)
           IN  /\ y \in States
               /\ y.q = x.q /\ y.last = x.last /\ y.n = x.n /\ y.owed = x.owed
               /\ \A b \in Banks :
                    /\ y.bank[b].action_type = x.bank[b].action_type
                    /\ y.bank[b].page_num = x.bank[b].page_num
                    /\ y.bank[b].action_time >= x.bank[b].action_time - 1
                    /\ y.bank[b].last_activate_time >= x.bank[b].last_activate_time - 1
               /\ \A r \in Ranks : y.act[r] >= x.act[r] - 1 /\ y.wr[r] >= x.wr[r] - 1
               /\ y.dp = {[s EXCEPT !.at = @ - 1] : s \in {u \in x.dp : u.at > 0}}
               /\ \E k \in 0 .. Len(x.log) : Aged(x.log, y.log, k)
<1> DEFINE limit == Max({tRCD, tRP, tBBL})
           old == {i \in DOMAIN x.log : \A j \in 1 .. i : x.log[j].at <= -Horizon}
           k == Cardinality(old)
           recent == SubSeq(x.log, k + 1, Len(x.log))
           bank == [b \in Banks |-> [x.bank[b] EXCEPT !.action_time = Older(@, limit),
                                                      !.last_activate_time = Older(@, tRAS)]]
           act == [r \in Ranks |-> Older(x.act[r], tRR)]
           wr == [r \in Ranks |-> Older(x.wr[r], tWTR)]
           rd == [x.rd EXCEPT !.at = Older(@, tRRBUB)]
           rdrank == [r \in Ranks |-> Older(x.rdrank[r], tRWBUB)]
           dp == {[s EXCEPT !.at = @ - 1] : s \in {u \in x.dp : u.at > 0}}
           l == [i \in DOMAIN recent |-> [recent[i] EXCEPT !.at = @ - 1]]
           y == [x EXCEPT !.bank = bank, !.act = act, !.wr = wr, !.rd = rd, !.rdrank = rdrank,
                          !.dp = dp, !.log = l]
<1>1. /\ x.bank \in [Banks -> Bank] /\ x.act \in [Ranks -> Int] /\ x.wr \in [Ranks -> Int]
      /\ x.rd \in [rank : Ranks \cup {0}, at : Int] /\ x.rdrank \in [Ranks -> Int]
      /\ x.dp \in SUBSET Slot /\ x.log \in Seq(Pin)
  BY StateParts
<1>2. NextCycle(x) = y
  BY Zenon DEF NextCycle
<1>3. /\ bank \in [Banks -> Bank]
      /\ \A b \in Banks :
           /\ bank[b].action_type = x.bank[b].action_type
           /\ bank[b].page_num = x.bank[b].page_num
           /\ bank[b].action_time >= x.bank[b].action_time - 1
           /\ bank[b].last_activate_time >= x.bank[b].last_activate_time - 1
  <2> HIDE DEF limit
  <2>1. ASSUME NEW b \in Banks
        PROVE  /\ bank[b] \in Bank /\ bank[b].action_type = x.bank[b].action_type
               /\ bank[b].page_num = x.bank[b].page_num
               /\ bank[b].action_time >= x.bank[b].action_time - 1
               /\ bank[b].last_activate_time >= x.bank[b].last_activate_time - 1
    <3> DEFINE o == x.bank[b]
               t == Older(o.action_time, limit)
               a == Older(o.last_activate_time, tRAS)
    <3>1. o \in Bank
      BY <1>1
    <3>2. bank[b] = [o EXCEPT !.action_time = t, !.last_activate_time = a]
      BY <3>1 DEF Bank
    <3> HIDE DEF bank, o
    <3>3. /\ t \in Int /\ t >= o.action_time - 1
          /\ a \in Int /\ a >= o.last_activate_time - 1
      BY <3>1, OlderValue DEF Bank
    <3> HIDE DEF t, a
    <3>4. /\ bank[b] \in Bank /\ bank[b].action_type = o.action_type
          /\ bank[b].page_num = o.page_num
          /\ bank[b].action_time = t /\ bank[b].last_activate_time = a
      BY <3>1, <3>2, <3>3 DEF Bank
    <3> QED
      BY <3>3, <3>4 DEF o
  <2> QED
    BY <2>1
<1>4. /\ act \in [Ranks -> Int] /\ wr \in [Ranks -> Int] /\ rdrank \in [Ranks -> Int]
      /\ \A r \in Ranks : act[r] >= x.act[r] - 1 /\ wr[r] >= x.wr[r] - 1
  BY <1>1, OlderValue
<1>5. rd \in [rank : Ranks \cup {0}, at : Int]
  BY <1>1, OlderValue
<1>6. dp \in SUBSET Slot
  <2>1. \A s \in Slot : [s EXCEPT !.at = @ - 1] \in Slot
    BY DEF Slot
  <2> QED
    BY <1>1, <2>1
<1>7. l \in Seq(Pin) /\ k \in 0 .. Len(x.log) /\ Aged(x.log, l, k)
  <2>1. k \in Nat /\ k <= Len(x.log)
    <3>1. Len(x.log) \in Nat /\ IsFiniteSet(1 .. Len(x.log)) /\ Cardinality(1 .. Len(x.log)) = Len(x.log)
      BY <1>1, FS_Interval
    <3>2. old \in SUBSET (1 .. Len(x.log))
      BY <1>1
    <3> HIDE DEF old
    <3> QED
      BY <3>1, <3>2, FS_Subset, FS_CardinalityType
  <2> HIDE DEF k
  <2> DEFINE n == Len(x.log) - k
  <2>2. /\ recent \in Seq(Pin) /\ Len(recent) = n /\ n \in Nat /\ DOMAIN recent = 1 .. n
        /\ \A i \in 1 .. n : recent[i] = x.log[i + k]
    BY <1>1, <2>1
  <2> HIDE DEF recent
  <2>3. \A i \in 1 .. n : /\ l[i] \in Pin /\ l[i].cmd = recent[i].cmd /\ l[i].bank = recent[i].bank
                          /\ l[i].page = recent[i].page /\ l[i].at = recent[i].at - 1
    <3> TAKE i \in 1 .. n
    <3>1. recent[i] \in Pin /\ l[i] = [recent[i] EXCEPT !.at = @ - 1]
      BY <2>2
    <3> HIDE DEF l
    <3> QED
      BY <3>1 DEF Pin
  <2>4. l \in [1 .. n -> Pin]
    <3>1. DOMAIN l = 1 .. n /\ l = [i \in 1 .. n |-> l[i]]
      BY <2>2
    <3> HIDE DEF l
    <3> QED
      BY <2>3, <3>1
  <2> HIDE DEF l
  <2>5. l \in Seq(Pin) /\ Len(l) = n
    BY <2>2, <2>4
  <2> QED
    BY <2>1, <2>2, <2>3, <2>5 DEF Aged
<1> HIDE DEF bank, act, wr, rd, rdrank, dp, l, k
<1>8. /\ y \in States
      /\ y.q = x.q /\ y.last = x.last /\ y.n = x.n /\ y.owed = x.owed
      /\ y.bank = bank /\ y.act = act /\ y.wr = wr /\ y.dp = dp /\ y.log = l
  BY <1>3, <1>4, <1>5, <1>6, <1>7 DEF States
<1> HIDE DEF y
<1> QED
  BY <1>2, <1>3, <1>4, <1>7, <1>8 DEF dp

-----------------------------------------------------------------------------
(* The bookkeeping is an invariant.                                        *)

BooksInv ==
    /\ config \in Configs /\ req_event \in Seq(Reqs)
    /\ State \in States /\ Books(State, req_event)

LEMMA StateIs ==
    /\ State.q = req_l /\ State.last = curr_batch_last /\ State.n = num_req_from_a_th
    /\ State.bank = bank_status /\ State.act = last_activate_time /\ State.wr = last_write_time
    /\ State.rd = last_read_time /\ State.rdrank = last_read_time_rank /\ State.dp = dp_status
    /\ State.owed = owed /\ State.log = log
BY DEF State

\* The variables after a step are the components of the state it computed.
LEMMA BecomesParts ==
    ASSUME NEW z \in States, Becomes(z)
    PROVE  /\ State' \in States
           /\ req_l' = z.q /\ curr_batch_last' = z.last /\ num_req_from_a_th' = z.n
           /\ owed' = z.owed /\ bank_status' = z.bank /\ last_activate_time' = z.act
           /\ last_write_time' = z.wr /\ dp_status' = z.dp /\ log' = z.log
<1>1. State' = [q |-> z.q, last |-> z.last, n |-> z.n, bank |-> z.bank, act |-> z.act, wr |-> z.wr,
                rd |-> z.rd, rdrank |-> z.rdrank, dp |-> z.dp, owed |-> z.owed, log |-> z.log]
  BY DEF Becomes, State
<1>2. State' \in States
  BY <1>1, StateParts DEF States
<1> QED
  BY <1>2 DEF Becomes

\* Books in terms of the variables.
LEMMA BooksOfState ==
    ASSUME NEW ev
    PROVE  Books(State, ev) <=> /\ Batched(req_l, curr_batch_last)
                                /\ Counted(req_l, num_req_from_a_th, owed, ev)
BY StateIs DEF Books

LEMMA BooksAfter ==
    ASSUME NEW z \in States, Becomes(z), config' = config, Books(z, req_event')
    PROVE  Books(State, req_event)'
<1>1. /\ req_l' = z.q /\ curr_batch_last' = z.last /\ num_req_from_a_th' = z.n /\ owed' = z.owed
  BY BecomesParts
<1>2. Batched(req_l, curr_batch_last)'
  <2>1. Batched(z.q, z.last)
    BY DEF Books
  <2> QED
    BY <1>1, <2>1 DEF Batched
<1>3. Counted(req_l, num_req_from_a_th, owed, req_event)'
  <2>1. Counted(z.q, z.n, z.owed, req_event')
    BY DEF Books
  <2> QED
    BY <1>1, <2>1 DEF Counted, From, Waited, Answered
<1> QED
  BY <1>2, <1>3 DEF Books, State

LEMMA BooksInit ==
    ASSUME Init
    PROVE  BooksInv
<1> USE DEF Init
<1>1. config \in Configs /\ req_event \in Seq(Reqs)
  OBVIOUS
<1>2. State \in States
  <2>1. \A b \in Banks : bank_status[b] \in Bank
    BY DEF Bank
  <2>2. bank_status \in [Banks -> Bank]
    <3>1. bank_status = [b \in Banks |-> bank_status[b]]
      OBVIOUS
    <3> QED
      BY <2>1, <3>1
  <2>3. last_activate_time \in [Ranks -> Int] /\ last_write_time \in [Ranks -> Int]
        /\ last_read_time_rank \in [Ranks -> Int]
    OBVIOUS
  <2>4. num_req_from_a_th \in [Threads -> Int] /\ owed \in [Threads -> Int]
        /\ last_read_time \in [rank : Ranks \cup {0}, at : Int]
    OBVIOUS
  <2>5. req_l \in Seq(Entry) /\ log \in Seq(Pin) /\ curr_batch_last \in Int /\ dp_status \in SUBSET Slot
    OBVIOUS
  <2> HIDE DEF Init
  <2> QED
    BY <2>2, <2>3, <2>4, <2>5 DEF State, States
<1>3. Batched(req_l, curr_batch_last)
  BY DEF Batched
<1>4. Counted(req_l, num_req_from_a_th, owed, req_event)
  <2> SUFFICES ASSUME NEW h \in Threads
               PROVE  /\ num_req_from_a_th[h] = IF config.par_bs THEN Cardinality(From(req_l, h)) ELSE 0
                      /\ owed[h] = Cardinality(Waited(req_l, h)) + Cardinality(Waited(req_event, h))
    BY DEF Counted
  <2>1. From(<<>>, h) = {} /\ Waited(<<>>, h) = {}
    BY DEF From, Waited
  <2>2. Cardinality(From(<<>>, h)) = 0 /\ Cardinality(Waited(<<>>, h)) = 0
    BY <2>1, FS_EmptySet
  <2> QED
    BY <2>2
<1> QED
  BY <1>1, <1>2, <1>3, <1>4, BooksOfState DEF BooksInv

LEMMA ArriveBooks ==
    ASSUME BooksInv, NEW r \in Reqs, Arrive(r)
    PROVE  BooksInv'
<1> USE DEF BooksInv, Arrive
<1>1. r.th \in Threads
  BY ControllerAssumption
<1>2. config' \in Configs /\ req_event' \in Seq(Reqs)
  OBVIOUS
<1>3. owed \in [Threads -> Int]
  BY StateIs, StateParts
<1>4. owed' \in [Threads -> Int]
  BY <1>1, <1>3
<1>5. State' \in States
  <2>1. /\ req_l \in Seq(Entry) /\ curr_batch_last \in Int /\ num_req_from_a_th \in [Threads -> Int]
        /\ bank_status \in [Banks -> Bank] /\ last_activate_time \in [Ranks -> Int]
        /\ last_write_time \in [Ranks -> Int]
        /\ last_read_time \in [rank : Ranks \cup {0}, at : Int]
        /\ last_read_time_rank \in [Ranks -> Int] /\ dp_status \in SUBSET Slot /\ log \in Seq(Pin)
    BY StateIs, StateParts
  <2>2. State' = [q |-> req_l, last |-> curr_batch_last, n |-> num_req_from_a_th, bank |-> bank_status,
                  act |-> last_activate_time, wr |-> last_write_time, rd |-> last_read_time,
                  rdrank |-> last_read_time_rank, dp |-> dp_status, owed |-> owed', log |-> log]
    BY DEF State
  <2> HIDE DEF BooksInv, Arrive
  <2> QED
    BY <1>4, <2>1, <2>2 DEF States
<1>6. Batched(req_l, curr_batch_last)'
  BY BooksOfState DEF Batched
<1>7. Counted(req_l, num_req_from_a_th, owed, req_event)'
  <2> SUFFICES ASSUME NEW h \in Threads
               PROVE  /\ num_req_from_a_th[h] = IF config.par_bs THEN Cardinality(From(req_l, h)) ELSE 0
                      /\ owed'[h] = Cardinality(Waited(req_l, h)) + Cardinality(Waited(req_event', h))
    BY DEF Counted, From, Waited
  <2>1. /\ num_req_from_a_th[h] = IF config.par_bs THEN Cardinality(From(req_l, h)) ELSE 0
        /\ owed[h] = Cardinality(Waited(req_l, h)) + Cardinality(Waited(req_event, h))
    BY BooksOfState DEF Counted
  <2> DEFINE n == Len(req_event)
             new == IF r.th = h /\ Answered(r) THEN {n + 1} ELSE {}
  <2>2. Waited(req_event', h) = Waited(req_event, h) \cup new
    BY DEF Waited
  <2>3. n + 1 \notin Waited(req_event, h)
    BY DEF Waited
  <2>4. IsFiniteSet(Waited(req_event, h)) /\ Cardinality(Waited(req_event, h)) \in Nat
        /\ Cardinality(Waited(req_l, h)) \in Nat
    <3>1. IsFiniteSet(1 .. n)
      BY FS_Interval
    <3>2. Waited(req_event, h) \in SUBSET (1 .. n)
      BY DEF Waited
    <3>3. IsFiniteSet(Waited(req_event, h))
      BY <3>1, <3>2, FS_Subset
    <3>4. req_l \in Seq(Entry)
      BY StateIs, StateParts
    <3>5. Len(req_l) \in Nat /\ DOMAIN req_l = 1 .. Len(req_l)
      BY <3>4
    <3> QED
      BY <3>3, <3>5, FS_CardinalityType, CountsAreNumbers, Zenon
  <2>5. Cardinality(Waited(req_event', h)) =
          Cardinality(Waited(req_event, h)) + (IF r.th = h /\ Answered(r) THEN 1 ELSE 0)
    <3>1. CASE r.th = h /\ Answered(r)
      <4>1. Waited(req_event', h) = Waited(req_event, h) \cup {n + 1}
        BY <2>2, <3>1
      <4> QED
        BY <2>3, <2>4, <3>1, <4>1, FS_AddElement
    <3>2. CASE ~(r.th = h /\ Answered(r))
      <4>1. Waited(req_event', h) = Waited(req_event, h)
        BY <2>2, <3>2
      <4> QED
        BY <2>4, <3>2, <4>1
    <3> QED
      BY <3>1, <3>2
  <2>6. owed'[h] = owed[h] + (IF r.th = h /\ Answered(r) THEN 1 ELSE 0)
    BY <1>1, <1>3
  <2> QED
    BY <2>1, <2>4, <2>5, <2>6
<1>8. Books(State, req_event)'
  BY <1>6, <1>7 DEF Books, State
<1> QED
  BY <1>2, <1>5, <1>8

LEMMA NextCycleBooks ==
    ASSUME NEW x \in States, NEW ev, Books(x, ev)
    PROVE  NextCycle(x) \in States /\ Books(NextCycle(x), ev)
<1> DEFINE y == NextCycle(x)
<1>1. y \in States /\ y.q = x.q /\ y.last = x.last /\ y.n = x.n /\ y.owed = x.owed
  BY NextCycleParts, Zenon
<1> HIDE DEF y
<1>2. Books(y, ev)
  BY <1>1 DEF Books
<1> QED
  BY <1>1, <1>2 DEF y

\* The states process_event goes through.
LEMMA ProcessedBooks ==
    ASSUME BooksInv
    PROVE  /\ PreProcessing(State) \in States /\ Books(PreProcessing(State), <<>>)
           /\ Step(PreProcessing(State)) \in States /\ Books(Step(PreProcessing(State)), <<>>)
           /\ Processed \in States /\ Books(Processed, <<>>)
<1>1. PreProcessing(State) \in States
  BY PreProcessingParts DEF BooksInv
<1>2. Books(PreProcessing(State), <<>>)
  BY PreProcessingBooks DEF BooksInv
<1>3. Step(PreProcessing(State)) \in States /\ Books(Step(PreProcessing(State)), <<>>)
  BY <1>1, <1>2, StepBooks DEF BooksInv
<1> QED
  BY <1>1, <1>2, <1>3, NextCycleBooks DEF Processed

LEMMA BooksStep ==
    ASSUME BooksInv, [Next]_vars
    PROVE  BooksInv'
<1>1. CASE ProcessEvent
  <2>1. Processed \in States /\ Books(Processed, <<>>)
    BY ProcessedBooks
  <2>2. Becomes(Processed) /\ config' = config /\ req_event' = <<>>
    BY <1>1 DEF ProcessEvent
  <2>3. State' \in States /\ Books(State, req_event)'
    BY <2>1, <2>2, BecomesParts, BooksAfter
  <2> QED
    BY <2>2, <2>3 DEF BooksInv
<1>2. CASE Idle
  <2>1. NextCycle(State) \in States /\ Books(NextCycle(State), req_event)
    BY NextCycleBooks DEF BooksInv
  <2>2. Becomes(NextCycle(State)) /\ config' = config /\ req_event' = req_event
    BY <1>2 DEF Idle
  <2>3. State' \in States /\ Books(State, req_event)'
    BY <2>1, <2>2, BecomesParts, BooksAfter
  <2> QED
    BY <2>2, <2>3 DEF BooksInv
<1>3. ASSUME NEW r \in Reqs, Arrive(r)
      PROVE  BooksInv'
  BY <1>3, ArriveBooks
<1>4. CASE UNCHANGED vars
  BY <1>4 DEF vars, BooksInv, Books, Batched, Counted, State, From, Waited, Answered
<1> QED
  BY <1>1, <1>2, <1>3, <1>4 DEF Next

\* For every set of requests and every configuration: the batch is exactly what
\* curr_batch_last says although any request of the list may be erased, PAR-BS
\* knows how many requests each thread has, and a thread waits for the answers of
\* its requests that are here.
THEOREM BookkeepingCorrect == Spec => []Bookkeeping
<1>1. Init => BooksInv
  BY BooksInit
<1>2. BooksInv /\ [Next]_vars => BooksInv'
  BY BooksStep
<1>3. BooksInv => Bookkeeping
  <2> SUFFICES ASSUME BooksInv
               PROVE  Bookkeeping
    OBVIOUS
  <2>1. Batched(req_l, curr_batch_last) /\ Counted(req_l, num_req_from_a_th, owed, req_event)
    BY BooksOfState DEF BooksInv
  <2> QED
    BY <2>1 DEF Batched, Counted, Bookkeeping
<1> QED
  BY <1>1, <1>2, <1>3, PTL DEF Spec

-----------------------------------------------------------------------------
(* The history of commands and the rows: what the bank states remember.    *)

\* A command of this kind on the bank of command i, after it, or before command j.
After(l, i, cmd) == \E m \in i + 1 .. Len(l) : l[m].bank = l[i].bank /\ l[m].cmd = cmd
Between(l, i, j, cmd) == \E m \in i + 1 .. j - 1 : l[m].bank = l[i].bank /\ l[m].cmd = cmd

\* Two commands on one bank, i before j.
RowPair(l, i, j) ==
    l[i].bank = l[j].bank =>
        /\ l[i].cmd = "activate" /\ l[j].cmd \in Column =>
             /\ l[i].at + tRCD <= l[j].at
             /\ l[j].page = l[i].page \/ Between(l, i, j, "precharge")
        /\ l[i].cmd = "activate" /\ l[j].cmd = "precharge" => l[i].at + tRAS <= l[j].at
        /\ l[i].cmd = "precharge" /\ l[j].cmd = "activate" => l[i].at + tRP <= l[j].at
        /\ l[i].cmd # "precharge" /\ l[j].cmd = "activate" => Between(l, i, j, "precharge")
        /\ l[i].cmd = "precharge" /\ l[j].cmd \in Column => Between(l, i, j, "activate")
RankPair(l, i, j) ==
    /\ l[i].cmd = "activate" /\ l[j].cmd = "activate" /\ Rank[l[i].bank] = Rank[l[j].bank]
    => l[i].at + tRR <= l[j].at

\* What the state of a bank and of its rank says about a command of the past.
RowEntry(bank, act, l, i) ==
    LET c == l[i]
        k == bank[c.bank]
    IN  /\ k.action_type # "idle"
        /\ c.cmd # "precharge" => c.at <= 0
        /\ c.cmd # "precharge" => After(l, i, "precharge") \/ k.action_type \in Open
        /\ c.cmd = "activate" =>
             /\ c.at <= k.last_activate_time /\ c.at <= act[Rank[c.bank]]
             /\ k.action_type = "activate" => c.at <= k.action_time
             /\ k.action_type \in Column => c.at + tRCD <= 0
             /\ After(l, i, "precharge") \/ k.page_num = c.page
        /\ c.cmd = "precharge" =>
             /\ k.action_type = "precharge" => c.at + tRP <= k.action_time
             /\ k.action_type \in Open => c.at + tRP <= 0
             /\ After(l, i, "activate") \/ k.action_type = "precharge"

RowPairs(l) == \A i, j \in 1 .. Len(l) : i < j => RowPair(l, i, j) /\ RankPair(l, i, j)
Rows(bank, act, l) == RowPairs(l) /\ \A i \in 1 .. Len(l) : RowEntry(bank, act, l, i)

\* The history after one more command.
LEMMA Appended ==
    ASSUME NEW l \in Seq(Pin), NEW c \in Pin
    PROVE  LET l2 == Append(l, c)
               n == Len(l)
           IN  /\ l2 \in Seq(Pin) /\ Len(l2) = n + 1 /\ l2[n + 1] = c
               /\ \A i \in 1 .. n : l2[i] = l[i]
               /\ \A i \in 1 .. n, cmd \in {"precharge", "activate"} :
                    /\ After(l, i, cmd) => After(l2, i, cmd) /\ Between(l2, i, n + 1, cmd)
                    /\ l[i].bank = c.bank /\ cmd = c.cmd => After(l2, i, cmd)
               /\ \A i, j \in 1 .. n, cmd \in {"precharge", "activate"} : Between(l, i, j, cmd) => Between(l2, i, j, cmd)
<1> DEFINE l2 == Append(l, c)
           n == Len(l)
<1>1. n \in Nat /\ l2 \in Seq(Pin) /\ Len(l2) = n + 1 /\ l2[n + 1] = c /\ \A i \in 1 .. n : l2[i] = l[i]
  OBVIOUS
<1> HIDE DEF l2
<1>2. ASSUME NEW i \in 1 .. n, NEW cmd \in {"precharge", "activate"}
      PROVE  /\ After(l, i, cmd) => After(l2, i, cmd) /\ Between(l2, i, n + 1, cmd)
             /\ l[i].bank = c.bank /\ cmd = c.cmd => After(l2, i, cmd)
  <2>1. ASSUME After(l, i, cmd)
        PROVE  After(l2, i, cmd) /\ Between(l2, i, n + 1, cmd)
    <3>1. PICK m \in i + 1 .. n : l[m].bank = l[i].bank /\ l[m].cmd = cmd
      BY <2>1 DEF After
    <3> HIDE DEF n
    <3>2. m \in i + 1 .. n + 1 /\ m \in i + 1 .. (n + 1) - 1 /\ m \in 1 .. n
      BY <1>1
    <3>3. l2[m] = l[m] /\ l2[i] = l[i]
      BY <1>1, <3>2
    <3> QED
      BY <1>1, <3>1, <3>2, <3>3 DEF After, Between
  <2>2. ASSUME l[i].bank = c.bank, cmd = c.cmd
        PROVE  After(l2, i, cmd)
    <3> HIDE DEF n
    <3>1. n + 1 \in i + 1 .. n + 1 /\ l2[i] = l[i]
      BY <1>1
    <3> QED
      BY <1>1, <2>2, <3>1 DEF After
  <2> QED
    BY <2>1, <2>2
<1>3. ASSUME NEW i \in 1 .. n, NEW j \in 1 .. n, NEW cmd \in {"precharge", "activate"}, Between(l, i, j, cmd)
      PROVE  Between(l2, i, j, cmd)
  <2>1. PICK m \in i + 1 .. j - 1 : l[m].bank = l[i].bank /\ l[m].cmd = cmd
    BY <1>3 DEF Between
  <2> HIDE DEF n
  <2>2. m \in 1 .. n
    BY <1>1
  <2>3. l2[m] = l[m] /\ l2[i] = l[i]
    BY <1>1, <2>2
  <2> QED
    BY <2>1, <2>3 DEF Between
<1>4. l2 = Append(l, c)
  BY DEF l2
<1> QED
  BY <1>1, <1>2, <1>3, <1>4

\* Only the new pairs are to be looked at.
LEMMA AppendedPairs ==
    ASSUME NEW l \in Seq(Pin), NEW c \in Pin, RowPairs(l),
           \A i \in 1 .. Len(l) : /\ RowPair(Append(l, c), i, Len(l) + 1)
                                  /\ RankPair(Append(l, c), i, Len(l) + 1)
    PROVE  RowPairs(Append(l, c))
<1> DEFINE l2 == Append(l, c)
           n == Len(l)
<1>1. /\ n \in Nat /\ Len(l2) = n + 1
  OBVIOUS
<1>2. /\ \A i \in 1 .. n : l2[i] = l[i]
      /\ \A i, j \in 1 .. n, cmd \in {"precharge", "activate"} : Between(l, i, j, cmd) => Between(l2, i, j, cmd)
  BY Appended
<1>3. \A i \in 1 .. n : RowPair(l2, i, n + 1) /\ RankPair(l2, i, n + 1)
  OBVIOUS
<1>4. \A i, j \in 1 .. n : i < j => RowPair(l, i, j) /\ RankPair(l, i, j)
  BY DEF RowPairs
<1> HIDE DEF l2, n
<1> SUFFICES ASSUME NEW i \in 1 .. n + 1, NEW j \in 1 .. n + 1, i < j
             PROVE  RowPair(l2, i, j) /\ RankPair(l2, i, j)
  BY <1>1 DEF RowPairs, l2
<1>5. CASE j = n + 1
  <2>1. i \in 1 .. n
    BY <1>1, <1>5
  <2> QED
    BY <1>3, <1>5, <2>1
<1>6. CASE j # n + 1
  <2>1. i \in 1 .. n /\ j \in 1 .. n
    BY <1>1, <1>6
  <2>2. l2[i] = l[i] /\ l2[j] = l[j]
    BY <1>2, <2>1
  <2>3. /\ Between(l, i, j, "precharge") => Between(l2, i, j, "precharge")
        /\ Between(l, i, j, "activate") => Between(l2, i, j, "activate")
    <3>1. "precharge" \in {"precharge", "activate"} /\ "activate" \in {"precharge", "activate"}
      OBVIOUS
    <3> QED
      BY <1>2, <2>1, <3>1, Zenon
  <2>4. RowPair(l, i, j) /\ RankPair(l, i, j)
    BY <1>4, <2>1
  <2>5. RankPair(l2, i, j)
    BY <2>2, <2>4 DEF RankPair
  <2>6. RowPair(l2, i, j)
    BY <2>2, <2>3, <2>4, Zenon DEF RowPair
  <2> QED
    BY <2>5, <2>6
<1> QED
  BY <1>5, <1>6

\* The same for the two kinds of commands that the others are about.
LEMMA AppendedRows ==
    ASSUME NEW l \in Seq(Pin), NEW c \in Pin, NEW i \in 1 .. Len(l)
    PROVE  LET l2 == Append(l, c)
               n == Len(l)
           IN  /\ l2[i] = l[i] /\ l2[n + 1] = c
               /\ After(l, i, "precharge") => After(l2, i, "precharge") /\ Between(l2, i, n + 1, "precharge")
               /\ After(l, i, "activate") => After(l2, i, "activate") /\ Between(l2, i, n + 1, "activate")
               /\ l[i].bank = c.bank /\ c.cmd = "precharge" => After(l2, i, "precharge")
               /\ l[i].bank = c.bank /\ c.cmd = "activate" => After(l2, i, "activate")
<1>1. "precharge" \in {"precharge", "activate"} /\ "activate" \in {"precharge", "activate"}
  OBVIOUS
<1> QED
  BY <1>1, Appended, Zenon

LEMMA EntryTypes ==
    ASSUME NEW l \in Seq(Pin), NEW bank \in [Banks -> Bank], NEW act \in [Ranks -> Int],
           NEW i \in 1 .. Len(l)
    PROVE  /\ l[i] \in Pin /\ l[i].bank \in Banks /\ l[i].at \in Int
           /\ l[i].cmd \in {"activate", "precharge", "read", "write"}
           /\ bank[l[i].bank] \in Bank /\ bank[l[i].bank].action_time \in Int
           /\ bank[l[i].bank].last_activate_time \in Int
           /\ bank[l[i].bank].action_type \in {"idle", "precharge", "activate", "read", "write"}
           /\ act[Rank[l[i].bank]] \in Int
<1>1. l[i] \in Pin
  OBVIOUS
<1>2. l[i].bank \in Banks /\ l[i].at \in Int /\ l[i].cmd \in {"activate", "precharge", "read", "write"}
  BY <1>1 DEF Pin, Column
<1>3. bank[l[i].bank] \in Bank /\ Rank[l[i].bank] \in Ranks
  BY <1>2, RankOfBank
<1> QED
  BY <1>1, <1>2, <1>3 DEF Bank, Open

\* What a bank's state says of a command stays true as long as it is the same.
LEMMA SameRow ==
    ASSUME NEW bank, NEW bank2, NEW act, NEW act2, NEW l, NEW l2, NEW i, RowEntry(bank, act, l, i),
           l2[i] = l[i], bank2[l[i].bank] = bank[l[i].bank],
           l[i].cmd = "activate" => l[i].at <= act2[Rank[l[i].bank]],
           After(l, i, "precharge") => After(l2, i, "precharge"),
           After(l, i, "activate") => After(l2, i, "activate")
    PROVE  RowEntry(bank2, act2, l2, i)
<1> DEFINE c == l[i]
           k == bank[c.bank]
<1>1. /\ k.action_type # "idle"
      /\ c.cmd # "precharge" => c.at <= 0
      /\ c.cmd # "precharge" => After(l2, i, "precharge") \/ k.action_type \in Open
  BY Zenon DEF RowEntry
<1>2. c.cmd = "activate" =>
             /\ c.at <= k.last_activate_time /\ c.at <= act2[Rank[c.bank]]
             /\ k.action_type = "activate" => c.at <= k.action_time
             /\ k.action_type \in Column => c.at + tRCD <= 0
             /\ After(l2, i, "precharge") \/ k.page_num = c.page
  BY Zenon DEF RowEntry
<1>3. c.cmd = "precharge" =>
             /\ k.action_type = "precharge" => c.at + tRP <= k.action_time
             /\ k.action_type \in Open => c.at + tRP <= 0
             /\ After(l2, i, "activate") \/ k.action_type = "precharge"
  BY Zenon DEF RowEntry
<1>4. l2[i] = c /\ bank2[c.bank] = k
  OBVIOUS
<1> HIDE DEF c, k
<1> QED
  BY <1>1, <1>2, <1>3, <1>4, Zenon DEF RowEntry

\* Opening a row.
LEMMA ActivateRows ==
    ASSUME NEW l \in Seq(Pin), NEW bank \in [Banks -> Bank], NEW act \in [Ranks -> Int],
           NEW bank2 \in [Banks -> Bank], NEW b \in Banks, NEW page \in Nat,
           Rows(bank, act, l), OtherBanksSame(bank, bank2, b),
           bank2[b] = [action_type |-> "activate", action_time |-> 0, page_num |-> page,
                       last_activate_time |-> 0],
           bank[b].action_time <= 0, bank[b].action_type \in {"idle", "precharge"},
           act[Rank[b]] + tRR <= 0
    PROVE  Rows(bank2, [act EXCEPT ![Rank[b]] = 0],
                Append(l, [cmd |-> "activate", bank |-> b, page |-> page, at |-> 0]))
<1> DEFINE c == [cmd |-> "activate", bank |-> b, page |-> page, at |-> 0]
           l2 == Append(l, c)
           n == Len(l)
           act2 == [act EXCEPT ![Rank[b]] = 0]
<1>1. c \in Pin /\ c.cmd = "activate" /\ c.bank = b /\ c.page = page /\ c.at = 0
  BY DEF Pin
<1> HIDE DEF c
<1>2. n \in Nat /\ Len(l2) = n + 1 /\ l2 \in Seq(Pin) /\ l2[n + 1] = c
  BY <1>1
<1>3. /\ bank2[b].action_type = "activate" /\ bank2[b].action_time = 0 /\ bank2[b].page_num = page
      /\ bank2[b].last_activate_time = 0
  OBVIOUS
<1>4. /\ act2 \in [Ranks -> Int] /\ act2[Rank[b]] = 0
      /\ \A r \in Ranks : r # Rank[b] => act2[r] = act[r]
  BY RankOfBank
<1>5. \A i \in 1 .. n : RowEntry(bank, act, l, i)
  BY DEF Rows
<1> HIDE DEF l2, n, act2
<1>6. ASSUME NEW i \in 1 .. n
      PROVE  /\ RowEntry(bank2, act2, l2, i) /\ RowPair(l2, i, n + 1) /\ RankPair(l2, i, n + 1)
  <2> DEFINE d == l[i]
             k == bank[d.bank]
  <2>1. i \in 1 .. Len(l)
    BY DEF n
  <2>2. /\ d \in Pin /\ d.bank \in Banks /\ d.at \in Int
        /\ d.cmd \in {"activate", "precharge", "read", "write"}
        /\ k.action_time \in Int /\ k.last_activate_time \in Int /\ act[Rank[d.bank]] \in Int
        /\ k.action_type \in {"idle", "precharge", "activate", "read", "write"}
        /\ Rank[d.bank] \in Ranks
    BY <2>1, EntryTypes, RankOfBank
  <2>3. /\ l2[i] = d /\ l2[n + 1] = c
        /\ After(l, i, "precharge") => After(l2, i, "precharge") /\ Between(l2, i, n + 1, "precharge")
        /\ After(l, i, "activate") => After(l2, i, "activate") /\ Between(l2, i, n + 1, "activate")
        /\ d.bank = b => After(l2, i, "activate")
    BY <1>1, <2>1, AppendedRows, Zenon DEF l2, n
  <2>4. RowEntry(bank, act, l, i)
    BY <1>5
  <2>5. CASE d.bank = b
    <3>1. k.action_type = "precharge"
      BY <2>4, <2>5 DEF RowEntry
    <3>2. d.cmd # "precharge" => d.at <= 0 /\ After(l, i, "precharge")
      BY <2>4, <3>1 DEF RowEntry, Open
    <3>3. d.cmd = "precharge" => d.at + tRP <= 0
      <4>1. d.cmd = "precharge" => d.at + tRP <= k.action_time
        BY <2>4, <3>1 DEF RowEntry
      <4>2. k.action_time <= 0
        BY <2>5
      <4> HIDE DEF d, k
      <4> QED
        BY <2>2, <4>1, <4>2, Numbers
    <3>4. d.cmd = "activate" => d.at + tRR <= 0
      <4>1. d.cmd = "activate" => d.at <= act[Rank[b]]
        BY <2>4, <2>5 DEF RowEntry
      <4> HIDE DEF d, k
      <4> QED
        BY <2>2, <2>5, <4>1, Numbers
    <3> HIDE DEF d, k
    <3>5. RowPair(l2, i, n + 1)
      BY <1>1, <2>2, <2>3, <3>2, <3>3 DEF RowPair, Column
    <3>6. RankPair(l2, i, n + 1)
      BY <1>1, <2>2, <2>3, <3>4 DEF RankPair
    <3>7. RowEntry(bank2, act2, l2, i)
      BY <1>3, <1>4, <2>2, <2>3, <2>5, <3>2, <3>3 DEF RowEntry, Column, Open
    <3> QED
      BY <3>5, <3>6, <3>7
  <2>6. CASE d.bank # b
    <3>1. bank2[d.bank] = k
      BY <2>2, <2>6 DEF OtherBanksSame
    <3>2. d.cmd = "activate" /\ Rank[d.bank] = Rank[b] => d.at + tRR <= 0
      <4>1. d.cmd = "activate" => d.at <= act[Rank[d.bank]]
        BY <2>4 DEF RowEntry
      <4> HIDE DEF d, k
      <4> QED
        BY <2>2, <4>1, Numbers
    <3>3. d.cmd = "activate" => d.at <= act2[Rank[d.bank]]
      <4>1. d.cmd = "activate" => d.at <= act[Rank[d.bank]] /\ d.at <= 0
        BY <2>4 DEF RowEntry
      <4> QED
        BY <1>4, <2>2, <4>1
    <3>4. RowPair(l2, i, n + 1)
      BY <1>1, <2>3, <2>6 DEF RowPair
    <3>5. RankPair(l2, i, n + 1)
      BY <1>1, <2>3, <3>2 DEF RankPair
    <3>6. RowEntry(bank2, act2, l2, i)
      BY <2>3, <2>4, <3>1, <3>3, SameRow
    <3> QED
      BY <3>4, <3>5, <3>6
  <2> QED
    BY <2>5, <2>6
<1>7. RowEntry(bank2, act2, l2, n + 1)
  BY <1>1, <1>2, <1>3, <1>4 DEF RowEntry, Column, Open
<1>8. RowPairs(l2)
  <2>1. \A i \in 1 .. Len(l) : RowPair(Append(l, c), i, Len(l) + 1) /\ RankPair(Append(l, c), i, Len(l) + 1)
    BY <1>6 DEF l2, n
  <2> QED
    BY <1>1, <2>1, AppendedPairs DEF Rows, l2
<1>9. \A i \in 1 .. Len(l2) : RowEntry(bank2, act2, l2, i)
  <2> TAKE i \in 1 .. Len(l2)
  <2>1. i \in 1 .. n \/ i = n + 1
    BY <1>2
  <2> QED
    BY <1>6, <1>7, <2>1
<1> QED
  BY <1>8, <1>9 DEF Rows, l2, act2, c

\* Closing a row.
LEMMA PrechargeRows ==
    ASSUME NEW l \in Seq(Pin), NEW bank \in [Banks -> Bank], NEW act \in [Ranks -> Int],
           NEW bank2 \in [Banks -> Bank], NEW b \in Banks, NEW page \in Nat, NEW end \in Nat,
           Rows(bank, act, l), OtherBanksSame(bank, bank2, b),
           bank2[b].action_type = "precharge", bank2[b].action_time = tRP + end,
           bank2[b].last_activate_time = bank[b].last_activate_time,
           bank[b].action_type \in Open, end >= tRAS + bank[b].last_activate_time
    PROVE  Rows(bank2, act, Append(l, [cmd |-> "precharge", bank |-> b, page |-> page, at |-> end]))
<1> DEFINE c == [cmd |-> "precharge", bank |-> b, page |-> page, at |-> end]
           l2 == Append(l, c)
           n == Len(l)
<1>1. c \in Pin /\ c.cmd = "precharge" /\ c.bank = b /\ c.at = end
  BY DEF Pin
<1> HIDE DEF c
<1>2. n \in Nat /\ Len(l2) = n + 1 /\ l2 \in Seq(Pin) /\ l2[n + 1] = c
  BY <1>1
<1>3. \A i \in 1 .. n : RowEntry(bank, act, l, i)
  BY DEF Rows
<1> HIDE DEF l2, n
<1>4. ASSUME NEW i \in 1 .. n
      PROVE  /\ RowEntry(bank2, act, l2, i) /\ RowPair(l2, i, n + 1) /\ RankPair(l2, i, n + 1)
  <2> DEFINE d == l[i]
             k == bank[d.bank]
  <2>1. i \in 1 .. Len(l)
    BY DEF n
  <2>2. /\ d \in Pin /\ d.bank \in Banks /\ d.at \in Int
        /\ d.cmd \in {"activate", "precharge", "read", "write"}
        /\ k.action_time \in Int /\ k.last_activate_time \in Int /\ act[Rank[d.bank]] \in Int
        /\ k.action_type \in {"idle", "precharge", "activate", "read", "write"}
    BY <2>1, EntryTypes
  <2>3. /\ l2[i] = d /\ l2[n + 1] = c
        /\ After(l, i, "precharge") => After(l2, i, "precharge")
        /\ After(l, i, "activate") => After(l2, i, "activate")
        /\ d.bank = b => After(l2, i, "precharge")
    BY <1>1, <2>1, AppendedRows, Zenon DEF l2, n
  <2>4. RowEntry(bank, act, l, i)
    BY <1>3
  <2>5. RankPair(l2, i, n + 1)
    BY <1>1, <2>3 DEF RankPair
  <2>6. CASE d.bank = b
    <3>1. k.action_type \in Open
      BY <2>6
    <3>2. /\ d.cmd # "precharge" => d.at <= 0
          /\ d.cmd = "activate" => d.at <= k.last_activate_time /\ d.at <= act[Rank[d.bank]]
          /\ d.cmd = "precharge" => d.at + tRP <= 0
      BY <2>4, <3>1 DEF RowEntry
    <3>3. d.cmd = "activate" => d.at + tRAS <= end
      <4>1. end >= tRAS + k.last_activate_time
        BY <2>6
      <4> HIDE DEF d, k
      <4> QED
        BY <2>2, <3>2, <4>1, Numbers
    <3>4. d.cmd = "precharge" => d.at + tRP <= tRP + end
      BY <2>2, <3>2, Numbers
    <3>5. k.last_activate_time = bank2[b].last_activate_time
      BY <2>6
    <3> HIDE DEF d, k
    <3>6. RowPair(l2, i, n + 1)
      BY <1>1, <2>2, <2>3, <3>3 DEF RowPair, Column
    <3>7. RowEntry(bank2, act, l2, i)
      BY <2>2, <2>3, <2>6, <3>2, <3>4, <3>5 DEF RowEntry, Column, Open
    <3> QED
      BY <2>5, <3>6, <3>7
  <2>7. CASE d.bank # b
    <3>1. bank2[d.bank] = k
      BY <2>2, <2>7 DEF OtherBanksSame
    <3>2. RowPair(l2, i, n + 1)
      BY <1>1, <2>3, <2>7 DEF RowPair
    <3>3. RowEntry(bank2, act, l2, i)
      <4>1. d.cmd = "activate" => d.at <= act[Rank[d.bank]]
        BY <2>4 DEF RowEntry
      <4> QED
        BY <2>3, <2>4, <3>1, <4>1, SameRow
    <3> QED
      BY <2>5, <3>2, <3>3
  <2> QED
    BY <2>6, <2>7
<1>5. RowEntry(bank2, act, l2, n + 1)
  <2>1. end + tRP <= tRP + end
    BY Numbers
  <2> QED
    BY <1>1, <1>2, <2>1 DEF RowEntry, Column, Open
<1>6. RowPairs(l2)
  <2>1. \A i \in 1 .. Len(l) : RowPair(Append(l, c), i, Len(l) + 1) /\ RankPair(Append(l, c), i, Len(l) + 1)
    BY <1>4 DEF l2, n
  <2> QED
    BY <1>1, <2>1, AppendedPairs DEF Rows, l2
<1>7. \A i \in 1 .. Len(l2) : RowEntry(bank2, act, l2, i)
  <2> TAKE i \in 1 .. Len(l2)
  <2>1. i \in 1 .. n \/ i = n + 1
    BY <1>2
  <2> QED
    BY <1>4, <1>5, <2>1
<1> QED
  BY <1>6, <1>7 DEF Rows, l2, c

\* The rows of bank b have been open long enough for data to move.
Ready(l, b) == \A i \in 1 .. Len(l) : l[i].cmd = "activate" /\ l[i].bank = b => l[i].at + tRCD <= 0

\* Moving data.
LEMMA BurstRows ==
    ASSUME NEW l \in Seq(Pin), NEW bank \in [Banks -> Bank], NEW act \in [Ranks -> Int],
           NEW bank2 \in [Banks -> Bank], NEW b \in Banks, NEW page \in Nat, NEW kind \in Column,
           Rows(bank, act, l), OtherBanksSame(bank, bank2, b),
           bank2[b].action_type = bank[b].action_type, bank2[b].action_time = 0,
           bank2[b].page_num = bank[b].page_num,
           bank2[b].last_activate_time = bank[b].last_activate_time,
           bank[b].action_type \in Open, bank[b].page_num = page,
           bank[b].action_type = "activate" => bank[b].action_time + tRCD <= 0
    PROVE  LET l2 == Append(l, [cmd |-> kind, bank |-> b, page |-> page, at |-> 0])
           IN  Rows(bank2, act, l2) /\ Ready(l2, b)
<1> DEFINE c == [cmd |-> kind, bank |-> b, page |-> page, at |-> 0]
           l2 == Append(l, c)
           n == Len(l)
<1>1. c \in Pin /\ c.cmd \in {"read", "write"} /\ c.bank = b /\ c.at = 0 /\ c.page = page
  BY DEF Pin, Column
<1> HIDE DEF c
<1>2. n \in Nat /\ Len(l2) = n + 1 /\ l2 \in Seq(Pin) /\ l2[n + 1] = c
  BY <1>1
<1>3. \A i \in 1 .. n : RowEntry(bank, act, l, i)
  BY DEF Rows
<1> HIDE DEF l2, n
<1>4. ASSUME NEW i \in 1 .. n
      PROVE  /\ RowEntry(bank2, act, l2, i) /\ RowPair(l2, i, n + 1) /\ RankPair(l2, i, n + 1)
             /\ l2[i].cmd = "activate" /\ l2[i].bank = b => l2[i].at + tRCD <= 0
  <2> DEFINE d == l[i]
             k == bank[d.bank]
  <2>1. i \in 1 .. Len(l)
    BY DEF n
  <2>2. /\ d \in Pin /\ d.bank \in Banks /\ d.at \in Int
        /\ d.cmd \in {"activate", "precharge", "read", "write"}
        /\ k.action_time \in Int /\ k.last_activate_time \in Int /\ act[Rank[d.bank]] \in Int
        /\ k.action_type \in {"idle", "precharge", "activate", "read", "write"}
    BY <2>1, EntryTypes
  <2>3. /\ l2[i] = d /\ l2[n + 1] = c
        /\ After(l, i, "precharge") => After(l2, i, "precharge") /\ Between(l2, i, n + 1, "precharge")
        /\ After(l, i, "activate") => After(l2, i, "activate") /\ Between(l2, i, n + 1, "activate")
    BY <1>1, <2>1, AppendedRows, Zenon DEF l2, n
  <2>4. RowEntry(bank, act, l, i)
    BY <1>3
  <2>5. RankPair(l2, i, n + 1)
    BY <1>1, <2>3 DEF RankPair
  <2>6. CASE d.bank = b
    <3>1. k.action_type \in Open /\ k.page_num = page
          /\ (k.action_type = "activate" => k.action_time + tRCD <= 0)
      BY <2>6
    <3>2. /\ d.cmd # "precharge" => d.at <= 0
          /\ d.cmd = "activate" => /\ d.at <= k.last_activate_time /\ d.at <= act[Rank[d.bank]]
                                   /\ After(l, i, "precharge") \/ page = d.page
          /\ d.cmd = "precharge" => d.at + tRP <= 0 /\ After(l, i, "activate")
      BY <2>4, <3>1 DEF RowEntry, Open
    <3>3. d.cmd = "activate" => d.at + tRCD <= 0
      <4>1. d.cmd = "activate" => /\ k.action_type = "activate" => d.at <= k.action_time
                                  /\ k.action_type \in Column => d.at + tRCD <= 0
        BY <2>4 DEF RowEntry
      <4> HIDE DEF d, k
      <4> QED
        BY <2>2, <3>1, <4>1, Numbers DEF Open, Column
    <3>4. /\ bank2[b].last_activate_time = k.last_activate_time
          /\ bank2[b].action_type \in Open /\ bank2[b].page_num = page
      BY <2>6
    <3> HIDE DEF d, k
    <3>5. RowPair(l2, i, n + 1)
      BY <1>1, <2>2, <2>3, <3>2, <3>3 DEF RowPair, Column
    <3>6. RowEntry(bank2, act, l2, i)
      <4> DEFINE o == bank2[b]
      <4>1. /\ o.last_activate_time = k.last_activate_time /\ o.page_num = page /\ o.action_time = 0
            /\ o.action_type \in {"activate", "read", "write"}
        BY <3>4 DEF Open
      <4>2. bank2[l2[i].bank] = o /\ l2[i] = d
        BY <2>3, <2>6
      <4> HIDE DEF o
      <4>3. CASE d.cmd = "activate"
        BY <2>3, <3>2, <3>3, <4>1, <4>2, <4>3 DEF RowEntry, Column, Open
      <4>4. CASE d.cmd = "precharge"
        BY <2>3, <3>2, <4>1, <4>2, <4>4 DEF RowEntry, Column, Open
      <4>5. CASE d.cmd \in {"read", "write"}
        BY <2>3, <3>2, <4>1, <4>2, <4>5 DEF RowEntry, Column, Open
      <4> QED
        BY <2>2, <4>3, <4>4, <4>5
    <3> QED
      BY <2>3, <2>5, <3>3, <3>5, <3>6
  <2>7. CASE d.bank # b
    <3>1. bank2[d.bank] = k
      BY <2>2, <2>7 DEF OtherBanksSame
    <3>2. RowPair(l2, i, n + 1)
      BY <1>1, <2>3, <2>7 DEF RowPair
    <3>3. RowEntry(bank2, act, l2, i)
      <4>1. d.cmd = "activate" => d.at <= act[Rank[d.bank]]
        BY <2>4 DEF RowEntry
      <4> QED
        BY <2>3, <2>4, <3>1, <4>1, SameRow
    <3> QED
      BY <2>3, <2>5, <2>7, <3>2, <3>3
  <2> QED
    BY <2>6, <2>7
<1>5. RowEntry(bank2, act, l2, n + 1)
  BY <1>1, <1>2 DEF RowEntry, Column, Open
<1>6. RowPairs(l2)
  <2>1. \A i \in 1 .. Len(l) : RowPair(Append(l, c), i, Len(l) + 1) /\ RankPair(Append(l, c), i, Len(l) + 1)
    BY <1>4 DEF l2, n
  <2> QED
    BY <1>1, <2>1, AppendedPairs DEF Rows, l2
<1>7. \A i \in 1 .. Len(l2) : /\ RowEntry(bank2, act, l2, i)
                              /\ l2[i].cmd = "activate" /\ l2[i].bank = b => l2[i].at + tRCD <= 0
  <2> TAKE i \in 1 .. Len(l2)
  <2>1. i \in 1 .. n \/ i = n + 1
    BY <1>2
  <2>2. c.cmd # "activate"
    BY <1>1
  <2> QED
    BY <1>2, <1>4, <1>5, <2>1, <2>2
<1> QED
  BY <1>6, <1>7 DEF Rows, Ready, l2, c

\* The row stays open behind the data.
LEMMA KeptRows ==
    ASSUME NEW l \in Seq(Pin), NEW bank \in [Banks -> Bank], NEW act \in [Ranks -> Int],
           NEW bank2 \in [Banks -> Bank], NEW b \in Banks,
           Rows(bank, act, l), Ready(l, b), OtherBanksSame(bank, bank2, b),
           bank2[b].action_type \in Column, bank2[b].page_num = bank[b].page_num,
           bank2[b].last_activate_time = bank[b].last_activate_time,
           bank[b].action_type \in Open
    PROVE  Rows(bank2, act, l)
<1> SUFFICES ASSUME NEW i \in 1 .. Len(l)
             PROVE  RowEntry(bank2, act, l, i)
  BY DEF Rows
<1> DEFINE d == l[i]
           k == bank[d.bank]
<1>1. /\ d.bank \in Banks /\ d.at \in Int
      /\ d.cmd \in {"activate", "precharge", "read", "write"}
  BY EntryTypes
<1>2. RowEntry(bank, act, l, i)
  BY DEF Rows
<1>3. CASE d.bank = b
  <2>1. d.cmd = "activate" => d.at + tRCD <= 0
    BY <1>3 DEF Ready
  <2>2. bank2[b].action_type \in {"read", "write"}
    BY DEF Column
  <2> QED
    BY <1>1, <1>2, <1>3, <2>1, <2>2 DEF RowEntry, Open, Column
<1>4. CASE d.bank # b
  <2>1. bank2[d.bank] = k
    BY <1>1, <1>4 DEF OtherBanksSame
  <2> QED
    <3>1. d.cmd = "activate" => d.at <= act[Rank[d.bank]]
      BY <1>2 DEF RowEntry
    <3> QED
      BY <1>2, <2>1, <3>1, SameRow
<1> QED
  BY <1>3, <1>4

\* A later command is still there one cycle later.
LEMMA AgedRows ==
    ASSUME NEW l \in Seq(Pin), NEW l2 \in Seq(Pin), NEW k \in 0 .. Len(l), Aged(l, l2, k)
    PROVE  /\ \A i \in 1 .. Len(l2) :
                /\ i + k \in 1 .. Len(l)
                /\ After(l, i + k, "precharge") => After(l2, i, "precharge")
                /\ After(l, i + k, "activate") => After(l2, i, "activate")
           /\ \A i, j \in 1 .. Len(l2) :
                /\ Between(l, i + k, j + k, "precharge") => Between(l2, i, j, "precharge")
                /\ Between(l, i + k, j + k, "activate") => Between(l2, i, j, "activate")
<1> DEFINE n == Len(l)
           n2 == Len(l2)
<1>1. n \in Nat /\ n2 = n - k /\ n2 \in Nat /\ k \in Nat
  BY DEF Aged
<1>2. \A i \in 1 .. n2 : l2[i].cmd = l[i + k].cmd /\ l2[i].bank = l[i + k].bank
  BY <1>1 DEF Aged
<1> HIDE DEF n, n2
<1>3. ASSUME NEW i \in 1 .. n2
      PROVE  i + k \in 1 .. n
  BY <1>1
<1>4. ASSUME NEW i \in 1 .. n2, NEW cmd, After(l, i + k, cmd)
      PROVE  After(l2, i, cmd)
  <2>1. PICK m \in (i + k) + 1 .. n : l[m].bank = l[i + k].bank /\ l[m].cmd = cmd
    BY <1>4 DEF After, n
  <2>2. m - k \in i + 1 .. n2 /\ m - k \in 1 .. n2 /\ (m - k) + k = m
    BY <1>1
  <2>3. l2[m - k].cmd = l[m].cmd /\ l2[m - k].bank = l[m].bank /\ l2[i].bank = l[i + k].bank
    BY <1>2, <2>2
  <2> QED
    BY <2>1, <2>2, <2>3 DEF After, n2
<1>5. ASSUME NEW i \in 1 .. n2, NEW j \in 1 .. n2, NEW cmd, Between(l, i + k, j + k, cmd)
      PROVE  Between(l2, i, j, cmd)
  <2>1. PICK m \in (i + k) + 1 .. (j + k) - 1 : l[m].bank = l[i + k].bank /\ l[m].cmd = cmd
    BY <1>5 DEF Between
  <2>2. m - k \in i + 1 .. j - 1 /\ m - k \in 1 .. n2 /\ (m - k) + k = m
    BY <1>1
  <2>3. l2[m - k].cmd = l[m].cmd /\ l2[m - k].bank = l[m].bank /\ l2[i].bank = l[i + k].bank
    BY <1>2, <2>2
  <2> QED
    BY <2>1, <2>2, <2>3 DEF Between
<1> QED
  BY <1>3, <1>4, <1>5 DEF n, n2

\* Time passes.
LEMMA NextCycleRows ==
    ASSUME NEW l \in Seq(Pin), NEW l2 \in Seq(Pin), NEW k \in 0 .. Len(l), Aged(l, l2, k),
           NEW bank \in [Banks -> Bank], NEW bank2 \in [Banks -> Bank],
           NEW act \in [Ranks -> Int], NEW act2 \in [Ranks -> Int],
           \A b \in Banks : /\ bank2[b].action_type = bank[b].action_type
                            /\ bank2[b].page_num = bank[b].page_num
                            /\ bank2[b].action_time >= bank[b].action_time - 1
                            /\ bank2[b].last_activate_time >= bank[b].last_activate_time - 1,
           \A r \in Ranks : act2[r] >= act[r] - 1,
           Rows(bank, act, l)
    PROVE  Rows(bank2, act2, l2)
<1> DEFINE n2 == Len(l2)
<1>1. \A i \in 1 .. n2 :
         /\ i + k \in 1 .. Len(l)
         /\ l2[i].cmd = l[i + k].cmd /\ l2[i].bank = l[i + k].bank /\ l2[i].page = l[i + k].page
         /\ l2[i].at = l[i + k].at - 1
  BY AgedRows DEF Aged
<1>2. \A i \in 1 .. n2 :
                /\ After(l, i + k, "precharge") => After(l2, i, "precharge")
                /\ After(l, i + k, "activate") => After(l2, i, "activate")
  BY AgedRows
<1>3. \A i, j \in 1 .. n2 :
                /\ Between(l, i + k, j + k, "precharge") => Between(l2, i, j, "precharge")
                /\ Between(l, i + k, j + k, "activate") => Between(l2, i, j, "activate")
  BY AgedRows
<1>4. ASSUME NEW i \in 1 .. n2
      PROVE  RowEntry(bank2, act2, l2, i)
  <2> DEFINE c == l[i + k]
             o == bank[c.bank]
             o2 == bank2[c.bank]
             d == l2[i]
  <2>1. /\ i + k \in 1 .. Len(l) /\ d.cmd = c.cmd /\ d.bank = c.bank /\ d.page = c.page
        /\ d.at = c.at - 1
    BY <1>1
  <2>2. /\ c.bank \in Banks /\ c.at \in Int
        /\ c.cmd \in {"activate", "precharge", "read", "write"}
        /\ o.action_time \in Int /\ o.last_activate_time \in Int /\ act[Rank[c.bank]] \in Int
        /\ o.action_type \in {"idle", "precharge", "activate", "read", "write"}
    BY <2>1, EntryTypes
  <2>3. /\ o2.action_time \in Int /\ o2.last_activate_time \in Int /\ act2[Rank[c.bank]] \in Int
    BY <2>1, EntryTypes
  <2>4. /\ o2.action_type = o.action_type /\ o2.page_num = o.page_num
        /\ o2.action_time >= o.action_time - 1
        /\ o2.last_activate_time >= o.last_activate_time - 1
        /\ act2[Rank[c.bank]] >= act[Rank[c.bank]] - 1
    BY <2>2, RankOfBank
  <2>5. /\ o.action_type # "idle"
        /\ c.cmd # "precharge" => c.at <= 0
        /\ c.cmd # "precharge" => After(l, i + k, "precharge") \/ o.action_type \in Open
        /\ c.cmd = "activate" =>
             /\ c.at <= o.last_activate_time /\ c.at <= act[Rank[c.bank]]
             /\ o.action_type = "activate" => c.at <= o.action_time
             /\ o.action_type \in Column => c.at + tRCD <= 0
             /\ After(l, i + k, "precharge") \/ o.page_num = c.page
        /\ c.cmd = "precharge" =>
             /\ o.action_type = "precharge" => c.at + tRP <= o.action_time
             /\ o.action_type \in Open => c.at + tRP <= 0
             /\ After(l, i + k, "activate") \/ o.action_type = "precharge"
    <3>1. RowEntry(bank, act, l, i + k)
      BY <2>1 DEF Rows
    <3> QED
      BY <3>1, Zenon DEF RowEntry
  <2>6. bank2[d.bank] = o2 /\ act2[Rank[d.bank]] = act2[Rank[c.bank]]
    BY <2>1
  <2>7. d.at \in Int
    BY <2>1, <2>2
  <2> HIDE DEF c, o, o2, d
  <2>8. /\ d.cmd # "precharge" => d.at <= 0
        /\ d.cmd # "precharge" => After(l2, i, "precharge") \/ o2.action_type \in Open
    BY <1>2, <2>1, <2>2, <2>4, <2>5
  <2>9. d.cmd = "activate" =>
             /\ d.at <= o2.last_activate_time /\ d.at <= act2[Rank[c.bank]]
             /\ o2.action_type = "activate" => d.at <= o2.action_time
             /\ o2.action_type \in Column => d.at + tRCD <= 0
    <3>1. /\ c.at <= o.last_activate_time => d.at <= o2.last_activate_time
          /\ c.at <= act[Rank[c.bank]] => d.at <= act2[Rank[c.bank]]
          /\ c.at <= o.action_time => d.at <= o2.action_time
          /\ c.at + tRCD <= 0 => d.at + tRCD <= 0
      <4>1. \A u, v \in Int : c.at <= u /\ v >= u - 1 => d.at <= v
        BY <2>1, <2>2
      <4>2. c.at + tRCD <= 0 => d.at + tRCD <= 0
        BY <2>1, <2>2, Numbers
      <4> QED
        BY <2>2, <2>3, <2>4, <4>1, <4>2, Zenon
    <3> QED
      BY <2>1, <2>4, <2>5, <3>1, Zenon
  <2>10. d.cmd = "activate" => After(l2, i, "precharge") \/ o2.page_num = d.page
    BY <1>2, <2>1, <2>4, <2>5
  <2>11. d.cmd = "precharge" =>
             /\ o2.action_type = "precharge" => d.at + tRP <= o2.action_time
             /\ o2.action_type \in Open => d.at + tRP <= 0
    <3>1. /\ c.at + tRP <= o.action_time => d.at + tRP <= o2.action_time
          /\ c.at + tRP <= 0 => d.at + tRP <= 0
      <4>1. tRP \in Nat
        BY Numbers
      <4>2. \A p, u, v \in Int : /\ p + tRP <= u /\ v >= u - 1 => (p - 1) + tRP <= v
                                 /\ p + tRP <= 0 => (p - 1) + tRP <= 0
        BY <4>1
      <4>3. c.at \in Int /\ d.at = c.at - 1
        BY <2>1, <2>2
      <4> QED
        BY <2>2, <2>3, <2>4, <4>2, <4>3, Zenon
    <3> QED
      BY <2>1, <2>4, <2>5, <3>1, Zenon
  <2>12. d.cmd = "precharge" => After(l2, i, "activate") \/ o2.action_type = "precharge"
    BY <1>2, <2>1, <2>4, <2>5
  <2>13. o2.action_type # "idle" /\ l2[i] = d
    BY <2>4, <2>5 DEF d
  <2> QED
    BY <2>6, <2>8, <2>9, <2>10, <2>11, <2>12, <2>13, Zenon DEF RowEntry
<1>5. ASSUME NEW i \in 1 .. n2, NEW j \in 1 .. n2, i < j
      PROVE  RowPair(l2, i, j) /\ RankPair(l2, i, j)
  <2> DEFINE c == l[i + k]
             d == l[j + k]
  <2>1. /\ i + k \in 1 .. Len(l) /\ j + k \in 1 .. Len(l) /\ i + k < j + k
    BY <1>1, <1>5
  <2>2. c.at \in Int /\ d.at \in Int
    BY <2>1, EntryTypes
  <2>3. RowPair(l, i + k, j + k) /\ RankPair(l, i + k, j + k)
    BY <2>1 DEF Rows, RowPairs
  <2>4. /\ l2[i].cmd = c.cmd /\ l2[i].bank = c.bank /\ l2[i].page = c.page /\ l2[i].at = c.at - 1
        /\ l2[j].cmd = d.cmd /\ l2[j].bank = d.bank /\ l2[j].page = d.page /\ l2[j].at = d.at - 1
    BY <1>1
  <2>5. \A t \in Nat : c.at + t <= d.at => l2[i].at + t <= l2[j].at
    <3> HIDE DEF c, d
    <3> QED
      BY <2>2, <2>4
  <2>6. RankPair(l2, i, j)
    <3>1. c.at + tRR <= d.at => l2[i].at + tRR <= l2[j].at
      BY <2>5, Numbers
    <3> QED
      BY <2>3, <2>4, <3>1, Zenon DEF RankPair
  <2>7. RowPair(l2, i, j)
    <3>1. /\ c.at + tRCD <= d.at => l2[i].at + tRCD <= l2[j].at
          /\ c.at + tRAS <= d.at => l2[i].at + tRAS <= l2[j].at
          /\ c.at + tRP <= d.at => l2[i].at + tRP <= l2[j].at
      BY <2>5, Numbers
    <3>2. /\ Between(l, i + k, j + k, "precharge") => Between(l2, i, j, "precharge")
          /\ Between(l, i + k, j + k, "activate") => Between(l2, i, j, "activate")
      BY <1>3
    <3> QED
      BY <2>3, <2>4, <3>1, <3>2, Zenon DEF RowPair
  <2> QED
    BY <2>6, <2>7
<1> QED
  BY <1>4, <1>5 DEF Rows, RowPairs

-----------------------------------------------------------------------------
(* The history of commands and the data path.                              *)

\* Two bursts, i before j.
BusPair(l, i, j) ==
    l[i].cmd \in Column /\ l[j].cmd \in Column =>
        /\ ~config.full_duplex \/ l[i].cmd = l[j].cmd => l[i].at + tBL <= l[j].at
        /\ ~config.full_duplex /\ l[i].cmd = "write" /\ l[j].cmd = "read" =>
             l[i].at + tBL + tWRBUB <= l[j].at
        /\ ~config.full_duplex /\ l[i].cmd = "read" /\ l[j].cmd = "write" =>
             l[i].at + tBL + tRWBUB <= l[j].at
        /\ tWTR > 0 /\ l[i].cmd = "write" /\ l[j].cmd = "read" /\ Rank[l[i].bank] = Rank[l[j].bank] =>
             l[i].at + tCL + tBL + tWTR <= l[j].at

\* The slots of a burst that are not over yet are in dp_status, and the last
\* write of a rank is not forgotten.
BusEntry(wr, dp, l, i) ==
    l[i].cmd \in Column =>
        /\ l[i].at <= 0
        /\ \A j \in 0 .. tBL - 1 :
             l[i].at + tCL + j >= 0 => [at |-> l[i].at + tCL + j, kind |-> l[i].cmd] \in dp
        /\ l[i].cmd = "write" => l[i].at + tCL + tBL <= wr[Rank[l[i].bank]]

BusPairs(l) == \A i, j \in 1 .. Len(l) : i < j => BusPair(l, i, j)
Bus(wr, dp, l) == BusPairs(l) /\ \A i \in 1 .. Len(l) : BusEntry(wr, dp, l, i)

\* One more command of the history, and maybe more slots and later writes.
LEMMA AppendedBus ==
    ASSUME NEW l \in Seq(Pin), NEW c \in Pin, NEW wr, NEW dp, NEW wr2, NEW dp2, Bus(wr, dp, l),
           \A i \in 1 .. Len(l) : BusPair(Append(l, c), i, Len(l) + 1),
           BusEntry(wr2, dp2, Append(l, c), Len(l) + 1),
           dp \subseteq dp2,
           \A i \in 1 .. Len(l) : l[i].cmd = "write" /\ l[i].at + tCL + tBL <= wr[Rank[l[i].bank]]
                                  /\ l[i].at <= 0
                                  => l[i].at + tCL + tBL <= wr2[Rank[l[i].bank]]
    PROVE  Bus(wr2, dp2, Append(l, c))
<1> DEFINE l2 == Append(l, c)
           n == Len(l)
<1>1. n \in Nat /\ Len(l2) = n + 1 /\ \A i \in 1 .. n : l2[i] = l[i]
  OBVIOUS
<1>2. \A i \in 1 .. n : BusPair(l2, i, n + 1)
  OBVIOUS
<1>3. BusEntry(wr2, dp2, l2, n + 1)
  OBVIOUS
<1>4. /\ \A i, j \in 1 .. n : i < j => BusPair(l, i, j)
      /\ \A i \in 1 .. n : BusEntry(wr, dp, l, i)
  BY DEF Bus, BusPairs
<1> HIDE DEF l2, n
<1>5. ASSUME NEW i \in 1 .. n + 1, NEW j \in 1 .. n + 1, i < j
      PROVE  BusPair(l2, i, j)
  <2>1. CASE j = n + 1
    <3>1. i \in 1 .. n
      BY <1>1, <1>5, <2>1
    <3> QED
      BY <1>2, <2>1, <3>1
  <2>2. CASE j # n + 1
    <3>1. i \in 1 .. n /\ j \in 1 .. n
      BY <1>1, <1>5, <2>2
    <3>2. l2[i] = l[i] /\ l2[j] = l[j] /\ BusPair(l, i, j)
      BY <1>1, <1>4, <1>5, <3>1
    <3> QED
      BY <3>2, Zenon DEF BusPair
  <2> QED
    BY <2>1, <2>2
<1>6. ASSUME NEW i \in 1 .. n + 1
      PROVE  BusEntry(wr2, dp2, l2, i)
  <2>1. CASE i = n + 1
    BY <1>3, <2>1
  <2>2. CASE i # n + 1
    <3>1. i \in 1 .. n
      BY <1>1, <2>2
    <3>2. l2[i] = l[i] /\ BusEntry(wr, dp, l, i)
      BY <1>1, <1>4, <3>1
    <3>3. l[i].cmd = "write" /\ l[i].at + tCL + tBL <= wr[Rank[l[i].bank]] /\ l[i].at <= 0
          => l[i].at + tCL + tBL <= wr2[Rank[l[i].bank]]
      BY <3>1 DEF n
    <3> QED
      BY <3>2, <3>3, Zenon DEF BusEntry
  <2> QED
    BY <2>1, <2>2
<1> QED
  BY <1>1, <1>5, <1>6 DEF Bus, BusPairs, l2

\* Opening and closing rows does not touch the data path.
LEMMA OtherBus ==
    ASSUME NEW l \in Seq(Pin), NEW c \in Pin, NEW wr, NEW dp, Bus(wr, dp, l), c.cmd \notin Column
    PROVE  Bus(wr, dp, Append(l, c))
<1>1. Append(l, c)[Len(l) + 1] = c
  OBVIOUS
<1>2. BusEntry(wr, dp, Append(l, c), Len(l) + 1)
  BY <1>1 DEF BusEntry
<1>3. \A i \in 1 .. Len(l) : BusPair(Append(l, c), i, Len(l) + 1)
  BY <1>1 DEF BusPair
<1> QED
  BY <1>2, <1>3, AppendedBus

\* A burst: the path is free, the bubble is kept, and a read waits for the writes
\* of its rank.
LEMMA BurstBus ==
    ASSUME NEW l \in Seq(Pin), NEW wr \in [Ranks -> Int], NEW dp \in SUBSET Slot, Bus(wr, dp, l),
           NEW b \in Banks, NEW page \in Nat, NEW kind \in Column, NEW wr2 \in [Ranks -> Int],
           config \in Configs,
           \A s \in dp : (config.full_duplex => s.kind = kind) => s.at < tCL \/ s.at >= tCL + tBL,
           kind = "read" => /\ config.full_duplex \/ \A s \in dp : s.kind = "write" =>
                                                        s.at < tCL - tWRBUB \/ s.at >= tCL
                            /\ tWTR > 0 => wr[Rank[b]] + tWTR <= 0
                            /\ wr2 = wr,
           kind = "write" => /\ config.full_duplex \/ \A s \in dp : s.kind = "read" =>
                                                         s.at < tCL - tRWBUB \/ s.at >= tCL
                             /\ wr2 = [wr EXCEPT ![Rank[b]] = tCL + tBL]
    PROVE  Bus(wr2, dp \cup {[at |-> tCL + j, kind |-> kind] : j \in 0 .. tBL - 1},
               Append(l, [cmd |-> kind, bank |-> b, page |-> page, at |-> 0]))
<1> DEFINE c == [cmd |-> kind, bank |-> b, page |-> page, at |-> 0]
           l2 == Append(l, c)
           n == Len(l)
           dp2 == dp \cup {[at |-> tCL + j, kind |-> kind] : j \in 0 .. tBL - 1}
<1>1. c \in Pin /\ c.cmd = kind /\ c.bank = b /\ c.at = 0
  BY DEF Pin
<1>2. kind \in {"read", "write"} /\ Rank[b] \in Ranks /\ config.full_duplex \in BOOLEAN
  BY RankOfBank, ControllerAssumption DEF Column
<1> HIDE DEF c
<1>3. n \in Nat /\ l2[n + 1] = c /\ \A i \in 1 .. n : l2[i] = l[i]
  BY <1>1
<1>4. BusEntry(wr2, dp2, l2, n + 1)
  <2>1. \A j \in 0 .. tBL - 1 : 0 + tCL + j = tCL + j
    BY Numbers
  <2>2. \A j \in 0 .. tBL - 1 : [at |-> 0 + tCL + j, kind |-> kind] \in dp2
    BY <2>1
  <2>3. kind = "write" => 0 + tCL + tBL <= wr2[Rank[b]]
    BY <1>2, Numbers
  <2> HIDE DEF dp2, l2
  <2>4. 0 <= 0
    OBVIOUS
  <2> QED
    BY <1>1, <1>3, <2>2, <2>3, <2>4, Zenon DEF BusEntry
<1>5. ASSUME NEW i \in 1 .. n
      PROVE  /\ BusPair(l2, i, n + 1)
             /\ l[i].cmd = "write" /\ l[i].at + tCL + tBL <= wr[Rank[l[i].bank]] /\ l[i].at <= 0
                => l[i].at + tCL + tBL <= wr2[Rank[l[i].bank]]
  <2> DEFINE d == l[i]
             t == d.at
             s == [at |-> t + tCL + (tBL - 1), kind |-> d.cmd]
  <2>1. d \in Pin
    OBVIOUS
  <2>2. d.bank \in Banks /\ t \in Int /\ Rank[d.bank] \in Ranks
    BY <2>1, RankOfBank DEF Pin
  <2>3. l2[i] = d /\ l2[n + 1] = c
    BY <1>3
  <2>4. BusEntry(wr, dp, l, i)
    BY DEF Bus
  <2>5. d.cmd = "write" /\ t + tCL + tBL <= wr[Rank[d.bank]] /\ t <= 0
        => t + tCL + tBL <= wr2[Rank[d.bank]]
    <3>1. CASE kind = "read"
      BY <3>1
    <3>2. CASE kind = "write"
      <4>1. wr2[Rank[d.bank]] = IF Rank[d.bank] = Rank[b] THEN tCL + tBL ELSE wr[Rank[d.bank]]
        BY <2>2, <3>2
      <4> HIDE DEF d, t
      <4> QED
        BY <2>2, <4>1, Numbers
    <3> QED
      BY <1>2, <3>1, <3>2
  <2>6. ASSUME d.cmd \in Column
        PROVE  BusPair(l2, i, n + 1)
    <3>1. /\ t <= 0
          /\ d.cmd = "write" => t + tCL + tBL <= wr[Rank[d.bank]]
          /\ \A j \in 0 .. tBL - 1 : t + tCL + j >= 0 => [at |-> t + tCL + j, kind |-> d.cmd] \in dp
      BY <2>4, <2>6 DEF BusEntry
    <3>2. t + tCL + (tBL - 1) >= 0 => s \in dp
      <4>1. tBL - 1 \in 0 .. tBL - 1
        BY Numbers
      <4> DEFINE u == tBL - 1
      <4>2. /\ u \in 0 .. u
            /\ \A j \in 0 .. u : t + tCL + j >= 0 => [at |-> t + tCL + j, kind |-> d.cmd] \in dp
        BY <3>1, <4>1
      <4>3. s = [at |-> t + tCL + u, kind |-> d.cmd]
        OBVIOUS
      <4> HIDE DEF u, s, t, d
      <4>4. t + tCL + u >= 0 => s \in dp
        BY <4>2, <4>3, Zenon
      <4> QED
        BY <4>4, Zenon DEF u
    <3>3. s.at = t + tCL + (tBL - 1) /\ s.kind = d.cmd
      OBVIOUS
    <3> HIDE DEF d, t, s
    <3>4. ~config.full_duplex \/ d.cmd = kind => t + tBL <= 0
      <4> SUFFICES ASSUME ~config.full_duplex \/ d.cmd = kind, t + tBL > 0
                   PROVE  FALSE
        BY <2>2, Numbers
      <4>1. t + tCL + (tBL - 1) >= 0
        BY <2>2, Numbers
      <4>2. s \in dp /\ (config.full_duplex => s.kind = kind)
        BY <3>2, <3>3, <4>1
      <4>3. s.at < tCL \/ s.at >= tCL + tBL
        BY <4>2
      <4> QED
        BY <2>2, <3>1, <3>3, <4>3, Numbers
    <3>5. ~config.full_duplex /\ d.cmd = "write" /\ kind = "read" => t + tBL + tWRBUB <= 0
      <4> SUFFICES ASSUME ~config.full_duplex, d.cmd = "write", kind = "read", t + tBL + tWRBUB > 0
                   PROVE  FALSE
        BY <2>2, Numbers
      <4>1. t + tCL + (tBL - 1) >= 0
        BY <2>2, Numbers
      <4>2. s \in dp
        BY <3>2, <4>1
      <4>3. s.at < tCL - tWRBUB \/ s.at >= tCL
        BY <3>3, <4>2
      <4> QED
        BY <2>2, <3>3, <3>4, <4>3, Numbers
    <3>6. ~config.full_duplex /\ d.cmd = "read" /\ kind = "write" => t + tBL + tRWBUB <= 0
      <4> SUFFICES ASSUME ~config.full_duplex, d.cmd = "read", kind = "write", t + tBL + tRWBUB > 0
                   PROVE  FALSE
        BY <2>2, Numbers
      <4>1. t + tCL + (tBL - 1) >= 0
        BY <2>2, Numbers
      <4>2. s \in dp
        BY <3>2, <4>1
      <4>3. s.at < tCL - tRWBUB \/ s.at >= tCL
        BY <3>3, <4>2
      <4> QED
        BY <2>2, <3>3, <3>4, <4>3, Numbers
    <3>7. tWTR > 0 /\ d.cmd = "write" /\ kind = "read" /\ Rank[d.bank] = Rank[b] =>
            t + tCL + tBL + tWTR <= 0
      <4> SUFFICES ASSUME tWTR > 0, d.cmd = "write", kind = "read", Rank[d.bank] = Rank[b]
                   PROVE  t + tCL + tBL + tWTR <= 0
        OBVIOUS
      <4>1. wr[Rank[b]] + tWTR <= 0 /\ t + tCL + tBL <= wr[Rank[b]] /\ wr[Rank[b]] \in Int
        BY <1>2, <3>1
      <4> QED
        BY <2>2, <4>1, Numbers
    <3>8. l2[i].at = t /\ l2[i].cmd = d.cmd /\ l2[i].bank = d.bank
          /\ l2[n + 1].at = 0 /\ l2[n + 1].cmd = kind /\ l2[n + 1].bank = b
      BY <1>1, <2>3 DEF t
    <3> HIDE DEF l2, n
    <3> QED
      BY <3>4, <3>5, <3>6, <3>7, <3>8, Zenon DEF BusPair
  <2>7. ASSUME d.cmd \notin Column
        PROVE  BusPair(l2, i, n + 1)
    BY <2>3, <2>7, Zenon DEF BusPair
  <2> QED
    BY <2>5, <2>6, <2>7
<1>6. dp \subseteq dp2
  OBVIOUS
<1> HIDE DEF dp2
<1>7. Bus(wr2, dp2, Append(l, c))
  BY <1>1, <1>4, <1>5, <1>6, AppendedBus
<1> QED
  BY <1>7 DEF dp2, c

\* Time passes on the data path.
LEMMA NextCycleBus ==
    ASSUME NEW l \in Seq(Pin), NEW l2 \in Seq(Pin), NEW k \in 0 .. Len(l), Aged(l, l2, k),
           NEW wr \in [Ranks -> Int], NEW wr2 \in [Ranks -> Int], NEW dp \in SUBSET Slot,
           \A r \in Ranks : wr2[r] >= wr[r] - 1,
           Bus(wr, dp, l)
    PROVE  Bus(wr2, {[s EXCEPT !.at = @ - 1] : s \in {u \in dp : u.at > 0}}, l2)
<1> DEFINE n2 == Len(l2)
           dp2 == {[s EXCEPT !.at = @ - 1] : s \in {u \in dp : u.at > 0}}
<1>1. \A i \in 1 .. n2 :
         /\ i + k \in 1 .. Len(l)
         /\ l2[i].cmd = l[i + k].cmd /\ l2[i].bank = l[i + k].bank
         /\ l2[i].at = l[i + k].at - 1
  BY AgedRows DEF Aged
<1>2. \A i \in 1 .. n2 : l[i + k].bank \in Banks /\ l[i + k].at \in Int /\ Rank[l[i + k].bank] \in Ranks
                         /\ l[i + k].cmd \in {"activate", "precharge", "read", "write"}
  <2> TAKE i \in 1 .. n2
  <2>1. l[i + k] \in Pin
    BY <1>1
  <2> QED
    BY <2>1, RankOfBank DEF Pin, Column
<1>3. ASSUME NEW i \in 1 .. n2
      PROVE  BusEntry(wr2, dp2, l2, i)
  <2> DEFINE c == l[i + k]
             t == c.at
  <2>1. /\ l2[i].cmd = c.cmd /\ l2[i].bank = c.bank /\ l2[i].at = t - 1 /\ t \in Int
        /\ Rank[c.bank] \in Ranks
    BY <1>1, <1>2
  <2>2. BusEntry(wr, dp, l, i + k)
    BY <1>1 DEF Bus
  <2> SUFFICES ASSUME c.cmd \in Column
               PROVE  /\ t - 1 <= 0
                      /\ \A j \in 0 .. tBL - 1 :
                           (t - 1) + tCL + j >= 0 => [at |-> (t - 1) + tCL + j, kind |-> c.cmd] \in dp2
                      /\ c.cmd = "write" => (t - 1) + tCL + tBL <= wr2[Rank[c.bank]]
    <3> HIDE DEF c, t, dp2
    <3> QED
      BY <2>1, Zenon DEF BusEntry
  <2>3. /\ t <= 0
        /\ \A j \in 0 .. tBL - 1 : t + tCL + j >= 0 => [at |-> t + tCL + j, kind |-> c.cmd] \in dp
        /\ c.cmd = "write" => t + tCL + tBL <= wr[Rank[c.bank]]
    BY <2>2 DEF BusEntry
  <2>4. ASSUME NEW j \in 0 .. tBL - 1, (t - 1) + tCL + j >= 0
        PROVE  [at |-> (t - 1) + tCL + j, kind |-> c.cmd] \in dp2
    <3> DEFINE v == t + tCL + j
               s == [at |-> v, kind |-> c.cmd]
    <3>1. v \in Int /\ v > 0 /\ (t - 1) + tCL + j = v - 1 /\ v >= 0
      <4>1. t \in Int /\ tCL \in Nat /\ tBL \in Nat /\ (t - 1) + tCL + j >= 0
        BY <2>1, <2>4, Numbers
      <4>2. j \in Nat
        BY <4>1
      <4> HIDE DEF t, c
      <4> QED
        BY <4>1, <4>2
    <3>2. s \in dp
      BY <2>3, <3>1
    <3>3. s.at = v
      OBVIOUS
    <3>4. [s EXCEPT !.at = @ - 1] = [at |-> v - 1, kind |-> c.cmd]
      OBVIOUS
    <3> HIDE DEF s, v
    <3>5. [s EXCEPT !.at = @ - 1] \in dp2
      BY <3>1, <3>2, <3>3
    <3> QED
      BY <3>1, <3>4, <3>5
  <2>5. c.cmd = "write" => (t - 1) + tCL + tBL <= wr2[Rank[c.bank]]
    <3>1. wr2[Rank[c.bank]] >= wr[Rank[c.bank]] - 1 /\ wr2[Rank[c.bank]] \in Int /\ wr[Rank[c.bank]] \in Int
      BY <2>1
    <3> HIDE DEF c, t
    <3> QED
      BY <2>1, <2>3, <3>1, Numbers
  <2>6. t - 1 <= 0
    BY <2>1, <2>3
  <2> QED
    BY <2>4, <2>5, <2>6
<1>4. ASSUME NEW i \in 1 .. n2, NEW j \in 1 .. n2, i < j
      PROVE  BusPair(l2, i, j)
  <2> DEFINE c == l[i + k]
             d == l[j + k]
  <2>1. /\ i + k \in 1 .. Len(l) /\ j + k \in 1 .. Len(l) /\ i + k < j + k
        /\ c.at \in Int /\ d.at \in Int
    BY <1>1, <1>2, <1>4
  <2>2. BusPair(l, i + k, j + k)
    BY <2>1 DEF Bus, BusPairs
  <2>3. /\ l2[i].cmd = c.cmd /\ l2[i].bank = c.bank /\ l2[i].at = c.at - 1
        /\ l2[j].cmd = d.cmd /\ l2[j].bank = d.bank /\ l2[j].at = d.at - 1
    BY <1>1
  <2> HIDE DEF c, d
  <2>4. /\ c.at + tBL <= d.at => l2[i].at + tBL <= l2[j].at
        /\ c.at + tBL + tWRBUB <= d.at => l2[i].at + tBL + tWRBUB <= l2[j].at
        /\ c.at + tBL + tRWBUB <= d.at => l2[i].at + tBL + tRWBUB <= l2[j].at
        /\ c.at + tCL + tBL + tWTR <= d.at => l2[i].at + tCL + tBL + tWTR <= l2[j].at
    <3>1. \A p, q \in Int :
             /\ p + tBL <= q => (p - 1) + tBL <= q - 1
             /\ p + tBL + tWRBUB <= q => (p - 1) + tBL + tWRBUB <= q - 1
             /\ p + tBL + tRWBUB <= q => (p - 1) + tBL + tRWBUB <= q - 1
             /\ p + tCL + tBL + tWTR <= q => (p - 1) + tCL + tBL + tWTR <= q - 1
      <4> TAKE p, q \in Int
      <4> QED
        BY Numbers
    <3> QED
      BY <2>1, <2>3, <3>1, Zenon
  <2>5. l[i + k] = c /\ l[j + k] = d
    BY DEF c, d
  <2> QED
    BY <2>2, <2>3, <2>4, <2>5, Zenon DEF BusPair
<1> HIDE DEF dp2
<1>5. Bus(wr2, dp2, l2)
  BY <1>3, <1>4 DEF Bus, BusPairs
<1> QED
  BY <1>5 DEF dp2

-----------------------------------------------------------------------------
(* Every operator of a cycle keeps the timing.                             *)

Timing(x) == Rows(x.bank, x.act, x.log) /\ Bus(x.wr, x.dp, x.log)

LEMMA ActivateTiming ==
    ASSUME NEW x \in States, NEW r \in Entry, Timing(x), Closed(x, r.bank), RankFree(x, r.bank)
    PROVE  Timing(Activate(x, r))
<1> DEFINE y == Activate(x, r)
           b == r.bank
           c == [cmd |-> "activate", bank |-> b, page |-> r.page, at |-> 0]
<1>1. /\ y \in States
      /\ OtherBanksSame(x.bank, y.bank, b)
      /\ y.bank[b] = [action_type |-> "activate", action_time |-> 0,
                      page_num |-> r.page, last_activate_time |-> 0]
      /\ y.act = [x.act EXCEPT ![Rank[b]] = 0]
      /\ y.log = Append(x.log, c)
      /\ y.wr = x.wr /\ y.dp = x.dp
  BY ActivateParts, Zenon
<1>2. b \in Banks /\ r.page \in Nat
  BY DEF Entry
<1>3. /\ x.bank[b].action_time <= 0 /\ x.bank[b].action_type \in {"idle", "precharge"}
      /\ x.act[Rank[b]] + tRR <= 0
  BY DEF Closed, RankFree
<1>4. /\ x.log \in Seq(Pin) /\ x.bank \in [Banks -> Bank] /\ x.act \in [Ranks -> Int]
      /\ y.bank \in [Banks -> Bank]
  BY <1>1, StateParts
<1>5. c \in Pin /\ c.cmd \notin Column
  BY <1>2 DEF Pin, Column
<1> HIDE DEF y, b
<1>6. Rows(y.bank, [x.act EXCEPT ![Rank[b]] = 0], Append(x.log, c))
  BY <1>1, <1>2, <1>3, <1>4, ActivateRows DEF Timing
<1> HIDE DEF c
<1>7. Bus(x.wr, x.dp, Append(x.log, c))
  BY <1>4, <1>5, OtherBus DEF Timing
<1>8. Timing(y)
  BY <1>1, <1>6, <1>7, Zenon DEF Timing
<1> QED
  BY <1>8 DEF y

LEMMA PrechargeTiming ==
    ASSUME NEW x \in States, NEW b \in Banks, Timing(x), x.bank[b].action_type \in Open
    PROVE  Timing(Precharge(x, b))
<1> DEFINE y == Precharge(x, b)
           end == RowEnd(x, b)
           page == x.bank[b].page_num
           c == [cmd |-> "precharge", bank |-> b, page |-> page, at |-> end]
<1>1. /\ y \in States
      /\ OtherBanksSame(x.bank, y.bank, b)
      /\ y.bank[b].action_type = "precharge" /\ y.bank[b].action_time = tRP + end
      /\ y.bank[b].last_activate_time = x.bank[b].last_activate_time
      /\ y.log = Append(x.log, c)
      /\ y.act = x.act /\ y.wr = x.wr /\ y.dp = x.dp
  BY PrechargeParts, Zenon
<1>2. end \in Nat /\ end >= tRAS + x.bank[b].last_activate_time
  BY RowEndValue
<1>3. /\ x.log \in Seq(Pin) /\ x.bank \in [Banks -> Bank] /\ x.act \in [Ranks -> Int]
      /\ y.bank \in [Banks -> Bank]
  BY <1>1, StateParts
<1>4. page \in Nat
  BY <1>3 DEF Bank
<1>5. c \in Pin /\ c.cmd \notin Column
  BY <1>2, <1>4 DEF Pin, Column
<1> HIDE DEF y, end, page
<1>6. Rows(y.bank, x.act, Append(x.log, c))
  BY <1>1, <1>2, <1>3, <1>4, PrechargeRows DEF Timing
<1> HIDE DEF c
<1>7. Bus(x.wr, x.dp, Append(x.log, c))
  BY <1>3, <1>5, OtherBus DEF Timing
<1>8. Timing(y)
  BY <1>1, <1>6, <1>7, Zenon DEF Timing
<1> QED
  BY <1>8 DEF y

\* The data of a request moves: its row is open, and the path is free for it.
LEMMA BurstTiming ==
    ASSUME NEW x \in States, NEW r \in Entry, Timing(x), config \in Configs,
           Opened(x, r.bank), RowOf(r) = OpenRow(x, r.bank),
           IF r.type \in Reads THEN ReadMayGo(x, Rank[r.bank]) ELSE WriteMayGo(x, Rank[r.bank])
    PROVE  /\ Timing(Burst(x, r)) /\ Ready(Burst(x, r).log, r.bank)
           /\ Burst(x, r).bank[r.bank].action_type \in Open
<1> DEFINE y == Burst(x, r)
           b == r.bank
           kind == KindOf(r)
           page == r.page
           c == [cmd |-> kind, bank |-> b, page |-> page, at |-> 0]
           dp2 == x.dp \cup {[at |-> tCL + j, kind |-> kind] : j \in 0 .. tBL - 1}
<1>1. /\ y \in States
      /\ OtherBanksSame(x.bank, y.bank, b)
      /\ y.bank[b].action_type = x.bank[b].action_type /\ y.bank[b].action_time = 0
      /\ y.bank[b].page_num = x.bank[b].page_num
      /\ y.bank[b].last_activate_time = x.bank[b].last_activate_time
      /\ y.log = Append(x.log, c)
      /\ y.dp = dp2
      /\ y.wr = IF kind = "write" THEN [x.wr EXCEPT ![Rank[b]] = tCL + tBL] ELSE x.wr
      /\ y.act = x.act
  BY BurstParts, Zenon
<1>2. b \in Banks /\ page \in Nat /\ kind \in Column
  BY DEF Entry, KindOf, Column
<1>3. /\ x.log \in Seq(Pin) /\ x.bank \in [Banks -> Bank] /\ x.act \in [Ranks -> Int]
      /\ x.wr \in [Ranks -> Int] /\ x.dp \in SUBSET Slot
      /\ y.bank \in [Banks -> Bank] /\ y.wr \in [Ranks -> Int]
  BY <1>1, StateParts
<1>4. /\ x.bank[b].action_type \in Open
      /\ x.bank[b].action_type = "activate" => x.bank[b].action_time + tRCD <= 0
  BY DEF Opened, Open
<1>5. x.bank[b].page_num = page
  BY DEF RowOf, OpenRow
<1>6. \A s \in x.dp : (config.full_duplex => s.kind = kind) => s.at < tCL \/ s.at >= tCL + tBL
  BY DEF ReadMayGo, WriteMayGo, PathFree, Slots, KindOf
<1>7. kind = "read" => /\ config.full_duplex \/ \A s \in x.dp : s.kind = "write" =>
                                                  s.at < tCL - tWRBUB \/ s.at >= tCL
                       /\ tWTR > 0 => x.wr[Rank[b]] + tWTR <= 0
                       /\ y.wr = x.wr
  <2>1. kind = "read" => r.type \in Reads
    BY DEF KindOf
  <2>2. kind = "read" => y.wr = x.wr
    BY <1>1
  <2> QED
    BY <2>1, <2>2, Zenon DEF ReadMayGo, NoneWithin
<1>8. kind = "write" => /\ config.full_duplex \/ \A s \in x.dp : s.kind = "read" =>
                                                   s.at < tCL - tRWBUB \/ s.at >= tCL
                        /\ y.wr = [x.wr EXCEPT ![Rank[b]] = tCL + tBL]
  <2>1. kind = "write" => r.type \notin Reads
    BY DEF KindOf
  <2>2. kind = "write" => y.wr = [x.wr EXCEPT ![Rank[b]] = tCL + tBL]
    BY <1>1, Zenon
  <2> QED
    BY <2>1, <2>2, Zenon DEF WriteMayGo, NoneWithin
<1> HIDE DEF y, b, kind, page
<1>9. Rows(y.bank, x.act, Append(x.log, c)) /\ Ready(Append(x.log, c), b)
  BY <1>1, <1>2, <1>3, <1>4, <1>5, BurstRows DEF Timing
<1>10. Bus(y.wr, dp2, Append(x.log, c))
  BY <1>2, <1>3, <1>6, <1>7, <1>8, BurstBus DEF Timing
<1> HIDE DEF c, dp2
<1>11. Timing(y) /\ Ready(y.log, b) /\ y.bank[b].action_type \in Open
  BY <1>1, <1>4, <1>9, <1>10, Zenon DEF Timing
<1> QED
  BY <1>11 DEF y, b

\* Behind the data the row is closed or stays open.
LEMMA CloseOrKeepTiming ==
    ASSUME NEW x \in States, NEW i \in DOMAIN x.q, Timing(x), Ready(x.log, x.q[i].bank),
           x.bank[x.q[i].bank].action_type \in Open
    PROVE  Timing(CloseOrKeep(x, i)) /\ CloseOrKeep(x, i) \in States
<1> DEFINE y == CloseOrKeep(x, i)
           b == x.q[i].bank
<1>1. x.q[i] \in Entry
  BY StateParts
<1>2. b \in Banks /\ KindOf(x.q[i]) \in Column
  BY <1>1 DEF Entry, KindOf, Column
<1>3. \/ y = Precharge(x, b)
      \/ /\ y \in States
         /\ OtherBanksSame(x.bank, y.bank, b)
         /\ y.bank[b].action_type = KindOf(x.q[i])
         /\ y.bank[b].page_num = x.bank[b].page_num
         /\ y.bank[b].last_activate_time = x.bank[b].last_activate_time
         /\ y.act = x.act /\ y.wr = x.wr /\ y.dp = x.dp /\ y.log = x.log
  BY CloseOrKeepParts, Zenon
<1> HIDE DEF y
<1>4. CASE y = Precharge(x, b)
  <2>1. Precharge(x, b) \in States
    BY <1>2, PrechargeParts, Zenon
  <2>2. Timing(Precharge(x, b))
    BY <1>2, PrechargeTiming, Zenon
  <2> QED
    BY <1>4, <2>1, <2>2 DEF y
<1>5. CASE y # Precharge(x, b)
  <2>1. /\ x.log \in Seq(Pin) /\ x.bank \in [Banks -> Bank] /\ x.act \in [Ranks -> Int]
    BY StateParts
  <2>2. y.bank \in [Banks -> Bank]
    BY <1>3, <1>5, StateParts
  <2>3. y.bank[b].action_type \in Column
    BY <1>2, <1>3, <1>5, Zenon
  <2> HIDE DEF b
  <2>4. Rows(y.bank, x.act, x.log)
    <3>1. Rows(x.bank, x.act, x.log) /\ Ready(x.log, b) /\ x.bank[b].action_type \in Open
      BY DEF Timing, b
    <3> QED
      BY <1>2, <1>3, <1>5, <2>1, <2>2, <2>3, <3>1, KeptRows
  <2>5. Timing(y) /\ y \in States
    BY <1>3, <1>5, <2>4, Zenon DEF Timing
  <2> QED
    BY <2>5 DEF y
<1> QED
  BY <1>4, <1>5

LEMMA ServedTiming ==
    ASSUME NEW x \in States, NEW i \in 1 .. Len(x.q), config \in Configs, Books(x, <<>>), Timing(x),
           Opened(x, x.q[i].bank), RowOf(x.q[i]) = OpenRow(x, x.q[i].bank),
           IF x.q[i].type \in Reads THEN ReadMayGo(x, Rank[x.q[i].bank])
                                    ELSE WriteMayGo(x, Rank[x.q[i].bank])
    PROVE  Timing(Served(x, i))
<1> DEFINE r == x.q[i]
           u == Burst(x, r)
           v == CloseOrKeep(u, i)
           w == Leave(v, i)
<1>1. r \in Entry /\ DOMAIN x.q = 1 .. Len(x.q)
  BY StateParts
<1>2. u \in States /\ u.q = x.q /\ u.last = x.last
  BY <1>1, BurstParts, Zenon
<1>3. Timing(u) /\ Ready(u.log, r.bank) /\ u.bank[r.bank].action_type \in Open
  BY <1>1, BurstTiming, Zenon
<1> HIDE DEF u
<1>4. Timing(v) /\ v \in States
  <2>1. i \in DOMAIN u.q /\ u.q[i] = r
    BY <1>1, <1>2
  <2>2. Ready(u.log, u.q[i].bank) /\ u.bank[u.q[i].bank].action_type \in Open
    BY <1>3, <2>1
  <2> HIDE DEF r
  <2> QED
    BY <1>2, <1>3, <2>1, <2>2, CloseOrKeepTiming, Zenon
<1>5. v.q = x.q /\ v.last = x.last
  <2>1. i \in DOMAIN u.q
    BY <1>1, <1>2
  <2>2. u.q[i].bank \in Banks
    BY <1>1, <1>2 DEF Entry
  <2>3. CASE v = Precharge(u, u.q[i].bank)
    <3>1. Precharge(u, u.q[i].bank).q = u.q /\ Precharge(u, u.q[i].bank).last = u.last
      BY <1>2, <2>2, PrechargeParts, Zenon
    <3> QED
      BY <1>2, <2>3, <3>1, Zenon
  <2>4. CASE v # Precharge(u, u.q[i].bank)
    BY <1>2, <2>1, <2>4, CloseOrKeepParts, Zenon
  <2> QED
    BY <2>3, <2>4
<1> HIDE DEF v
<1>6. Batched(v.q, v.last) /\ i \in 1 .. Len(v.q)
  BY <1>5 DEF Books
<1>7. /\ w.bank = v.bank /\ w.act = v.act /\ w.wr = v.wr /\ w.dp = v.dp /\ w.log = v.log
  BY <1>4, <1>6, LeaveParts, Zenon
<1> HIDE DEF w
<1>8. Timing(w)
  BY <1>4, <1>7, Zenon DEF Timing
<1> QED
  BY <1>8 DEF w, v, u, Served

LEMMA StepTiming ==
    ASSUME NEW x \in States, config \in Configs, Books(x, <<>>), Timing(x)
    PROVE  Timing(Step(x))
<1>1. \A h \in Threads : x.n[h] \in Nat
  <2> TAKE h \in Threads
  <2>1. Len(x.q) \in Nat /\ DOMAIN x.q = 1 .. Len(x.q)
    BY StateParts
  <2>2. Cardinality(From(x.q, h)) \in Nat
    BY <2>1, CountsAreNumbers, Zenon
  <2> QED
    BY <2>2 DEF Books, Counted
<1>2. CASE Step(x) = x
  BY <1>2
<1>3. CASE Step(x) # x
  <2>1. PICK i \in 1 .. Len(x.q) :
           \/ Closed(x, x.q[i].bank) /\ RankFree(x, x.q[i].bank) /\ Step(x) = Activate(x, x.q[i])
           \/ Opened(x, x.q[i].bank) /\ Step(x) = Precharge(x, x.q[i].bank)
           \/ /\ Opened(x, x.q[i].bank) /\ RowOf(x.q[i]) = OpenRow(x, x.q[i].bank)
              /\ IF x.q[i].type \in Reads THEN ReadMayGo(x, Rank[x.q[i].bank])
                                          ELSE WriteMayGo(x, Rank[x.q[i].bank])
              /\ Step(x) = Served(x, i)
    BY <1>1, <1>3, StepCases, Zenon
  <2>2. x.q[i] \in Entry
    BY StateParts
  <2>3. x.q[i].bank \in Banks
    BY <2>2 DEF Entry
  <2>4. Opened(x, x.q[i].bank) => x.bank[x.q[i].bank].action_type \in Open
    BY DEF Opened, Open
  <2>5. CASE Closed(x, x.q[i].bank) /\ RankFree(x, x.q[i].bank) /\ Step(x) = Activate(x, x.q[i])
    BY <2>2, <2>5, ActivateTiming, Zenon
  <2>6. CASE Opened(x, x.q[i].bank) /\ Step(x) = Precharge(x, x.q[i].bank)
    BY <2>3, <2>4, <2>6, PrechargeTiming, Zenon
  <2>7. CASE /\ Opened(x, x.q[i].bank) /\ RowOf(x.q[i]) = OpenRow(x, x.q[i].bank)
             /\ IF x.q[i].type \in Reads THEN ReadMayGo(x, Rank[x.q[i].bank])
                                         ELSE WriteMayGo(x, Rank[x.q[i].bank])
             /\ Step(x) = Served(x, i)
    BY <2>7, ServedTiming, Zenon
  <2> QED
    BY <2>1, <2>5, <2>6, <2>7, Zenon
<1> QED
  BY <1>2, <1>3

LEMMA NextCycleTiming ==
    ASSUME NEW x \in States, Timing(x)
    PROVE  Timing(NextCycle(x))
<1> DEFINE y == NextCycle(x)
<1>1. /\ y \in States
      /\ \A b \in Banks :
           /\ y.bank[b].action_type = x.bank[b].action_type
           /\ y.bank[b].page_num = x.bank[b].page_num
           /\ y.bank[b].action_time >= x.bank[b].action_time - 1
           /\ y.bank[b].last_activate_time >= x.bank[b].last_activate_time - 1
      /\ \A r \in Ranks : y.act[r] >= x.act[r] - 1 /\ y.wr[r] >= x.wr[r] - 1
      /\ y.dp = {[s EXCEPT !.at = @ - 1] : s \in {u \in x.dp : u.at > 0}}
      /\ \E k \in 0 .. Len(x.log) : Aged(x.log, y.log, k)
  BY NextCycleParts, Zenon
<1> HIDE DEF y
<1>2. PICK k \in 0 .. Len(x.log) : Aged(x.log, y.log, k)
  BY <1>1
<1>3. /\ x.log \in Seq(Pin) /\ x.bank \in [Banks -> Bank] /\ x.act \in [Ranks -> Int]
      /\ x.wr \in [Ranks -> Int] /\ x.dp \in SUBSET Slot
  BY StateParts
<1>4. /\ y.log \in Seq(Pin) /\ y.bank \in [Banks -> Bank] /\ y.act \in [Ranks -> Int]
      /\ y.wr \in [Ranks -> Int]
  BY <1>1, StateParts
<1>5. Rows(y.bank, y.act, y.log)
  <2>1. Rows(x.bank, x.act, x.log) /\ \A r \in Ranks : y.act[r] >= x.act[r] - 1
    BY <1>1, Zenon DEF Timing
  <2> QED
    BY <1>1, <1>2, <1>3, <1>4, <2>1, NextCycleRows, Zenon
<1>6. Bus(y.wr, {[s EXCEPT !.at = @ - 1] : s \in {u \in x.dp : u.at > 0}}, y.log)
  <2>1. Bus(x.wr, x.dp, x.log) /\ \A r \in Ranks : y.wr[r] >= x.wr[r] - 1
    BY <1>1, Zenon DEF Timing
  <2> QED
    BY <1>2, <1>3, <1>4, <2>1, NextCycleBus, Zenon
<1>7. Timing(y)
  BY <1>1, <1>5, <1>6, Zenon DEF Timing
<1> QED
  BY <1>7 DEF y

-----------------------------------------------------------------------------
(* The timing is an invariant.                                             *)

TimingInv ==
    /\ BooksInv
    /\ Rows(bank_status, last_activate_time, log)
    /\ Bus(last_write_time, dp_status, log)

LEMMA TimingOfState == Timing(State) <=> /\ Rows(bank_status, last_activate_time, log)
                                         /\ Bus(last_write_time, dp_status, log)
BY StateIs DEF Timing

LEMMA TimingAfter ==
    ASSUME NEW z \in States, Becomes(z), config' = config, Timing(z)
    PROVE  /\ Rows(bank_status, last_activate_time, log)'
           /\ Bus(last_write_time, dp_status, log)'
<1>1. /\ bank_status' = z.bank /\ last_activate_time' = z.act
      /\ last_write_time' = z.wr /\ dp_status' = z.dp /\ log' = z.log
  BY BecomesParts, Zenon
<1>2. Rows(bank_status, last_activate_time, log)'
  <2>1. Rows(z.bank, z.act, z.log)
    BY DEF Timing
  <2> QED
    BY <1>1, <2>1 DEF Rows
<1>3. Bus(last_write_time, dp_status, log)'
  <2>1. Bus(z.wr, z.dp, z.log)
    BY DEF Timing
  <2> QED
    BY <1>1, <2>1 DEF Bus, BusPairs, BusPair, BusEntry
<1> QED
  BY <1>2, <1>3

LEMMA ProcessedTiming ==
    ASSUME TimingInv
    PROVE  Timing(Processed)
<1> DEFINE y == PreProcessing(State)
<1>1. State \in States /\ req_event \in Seq(Reqs) /\ config \in Configs
  BY DEF TimingInv, BooksInv
<1>2. /\ y.bank = State.bank /\ y.act = State.act /\ y.wr = State.wr /\ y.dp = State.dp
      /\ y.log = State.log
  BY <1>1, PreProcessingParts, Zenon
<1>3. y \in States /\ Books(y, <<>>) /\ Step(y) \in States
  BY ProcessedBooks DEF TimingInv
<1>4. Timing(State)
  BY TimingOfState DEF TimingInv
<1> HIDE DEF y
<1>5. Timing(y)
  BY <1>2, <1>4, Zenon DEF Timing
<1>6. Timing(Step(y))
  BY <1>1, <1>3, <1>5, StepTiming
<1>7. Timing(NextCycle(Step(y)))
  BY <1>3, <1>6, NextCycleTiming
<1> QED
  BY <1>7 DEF Processed, y

LEMMA TimingStep ==
    ASSUME TimingInv, [Next]_vars
    PROVE  TimingInv'
<1>1. BooksInv'
  BY BooksStep DEF TimingInv
<1>2. CASE ProcessEvent
  <2>1. Processed \in States /\ Timing(Processed)
    BY ProcessedBooks, ProcessedTiming DEF TimingInv
  <2>2. Becomes(Processed) /\ config' = config
    BY <1>2 DEF ProcessEvent
  <2> QED
    BY <1>1, <2>1, <2>2, TimingAfter DEF TimingInv
<1>3. CASE Idle
  <2>1. State \in States /\ Timing(State) /\ Books(State, req_event)
    BY TimingOfState DEF TimingInv, BooksInv
  <2>2. NextCycle(State) \in States /\ Timing(NextCycle(State))
    BY <2>1, NextCycleBooks, NextCycleTiming
  <2>3. Becomes(NextCycle(State)) /\ config' = config
    BY <1>3 DEF Idle
  <2> QED
    BY <1>1, <2>2, <2>3, TimingAfter DEF TimingInv
<1>4. ASSUME UNCHANGED <<config, bank_status, last_activate_time, last_write_time, dp_status, log>>
      PROVE  TimingInv'
  <2>1. Rows(bank_status, last_activate_time, log)'
    BY <1>4 DEF TimingInv, Rows
  <2>2. Bus(last_write_time, dp_status, log)'
    BY <1>4 DEF TimingInv, Bus, BusPairs, BusPair, BusEntry
  <2> QED
    BY <1>1, <2>1, <2>2 DEF TimingInv
<1>5. ASSUME NEW r \in Reqs, Arrive(r)
      PROVE  TimingInv'
  BY <1>4, <1>5 DEF Arrive
<1>6. CASE UNCHANGED vars
  BY <1>4, <1>6 DEF vars
<1> QED
  BY <1>2, <1>3, <1>5, <1>6 DEF Next

LEMMA TimingInvariant == Spec => []TimingInv
<1>1. Init => TimingInv
  <2> SUFFICES ASSUME Init
               PROVE  TimingInv
    OBVIOUS
  <2>1. log = <<>>
    BY DEF Init
  <2>2. \A i : i \notin 1 .. Len(log)
    BY <2>1
  <2>3. Rows(bank_status, last_activate_time, log) /\ Bus(last_write_time, dp_status, log)
    BY <2>2, Zenon DEF Rows, RowPairs, Bus, BusPairs
  <2> QED
    BY <2>3, BooksInit DEF TimingInv
<1>2. TimingInv /\ [Next]_vars => TimingInv'
  BY TimingStep
<1> QED
  BY <1>1, <1>2, PTL DEF Spec

\* For every set of banks, every timing and every configuration: whatever the
\* controller picks, the DRAM sees rows opened and closed alternately, data only
\* in the open row, and tRCD, tRAS, tRP and tRR kept.
THEOREM DramTiming == Spec => []DramProtocol
<1>1. TimingInv => DramProtocol
  <2> SUFFICES ASSUME TimingInv, NEW i \in DOMAIN log, NEW j \in DOMAIN log, i < j
               PROVE  LET c == log[i]
                          d == log[j]
                          between == {log[k].cmd : k \in {m \in i + 1 .. j - 1 : log[m].bank = c.bank}}
                      IN  /\ c.bank = d.bank =>
                             CASE c.cmd = "activate" /\ d.cmd \in Column ->
                                    d.at - c.at >= tRCD /\ ("precharge" \notin between => d.page = c.page)
                               [] c.cmd = "activate" /\ d.cmd = "precharge" -> d.at - c.at >= tRAS
                               [] c.cmd = "precharge" /\ d.cmd = "activate" -> d.at - c.at >= tRP
                               [] c.cmd = "activate" /\ d.cmd = "activate" -> "precharge" \in between
                               [] c.cmd = "precharge" /\ d.cmd \in Column -> "activate" \in between
                               [] c.cmd \in Column /\ d.cmd = "activate" -> "precharge" \in between
                               [] OTHER -> TRUE
                          /\ c.cmd = "activate" /\ d.cmd = "activate" /\ Rank[c.bank] = Rank[d.bank] =>
                               d.at - c.at >= tRR
    BY DEF DramProtocol
  <2> DEFINE c == log[i]
             d == log[j]
             between == {log[k].cmd : k \in {m \in i + 1 .. j - 1 : log[m].bank = c.bank}}
  <2>1. log \in Seq(Pin)
    BY StateIs, StateParts DEF TimingInv, BooksInv
  <2>2. i \in 1 .. Len(log) /\ j \in 1 .. Len(log)
    BY <2>1
  <2>3. RowPair(log, i, j) /\ RankPair(log, i, j)
    BY <2>2 DEF TimingInv, Rows, RowPairs
  <2>4. \A cmd : Between(log, i, j, cmd) <=> cmd \in between
    BY DEF Between
  <2>5. c \in Pin /\ d \in Pin
    BY <2>1, <2>2
  <2>6. c.at \in Int /\ d.at \in Int
        /\ c.cmd \in {"activate", "precharge", "read", "write"}
        /\ d.cmd \in {"activate", "precharge", "read", "write"}
    BY <2>5 DEF Pin, Column
  <2> HIDE DEF between
  <2>7. c.bank = d.bank =>
          /\ c.cmd = "activate" /\ d.cmd \in Column =>
               c.at + tRCD <= d.at /\ ("precharge" \notin between => d.page = c.page)
          /\ c.cmd = "activate" /\ d.cmd = "precharge" => c.at + tRAS <= d.at
          /\ c.cmd = "precharge" /\ d.cmd = "activate" => c.at + tRP <= d.at
          /\ c.cmd # "precharge" /\ d.cmd = "activate" => "precharge" \in between
          /\ c.cmd = "precharge" /\ d.cmd \in Column => "activate" \in between
    BY <2>3, <2>4, Zenon DEF RowPair
  <2>8. c.cmd = "activate" /\ d.cmd = "activate" /\ Rank[c.bank] = Rank[d.bank] => c.at + tRR <= d.at
    BY <2>3, Zenon DEF RankPair
  <2> HIDE DEF c, d
  <2>9. /\ c.at + tRCD <= d.at => d.at - c.at >= tRCD
        /\ c.at + tRAS <= d.at => d.at - c.at >= tRAS
        /\ c.at + tRP <= d.at => d.at - c.at >= tRP
        /\ c.at + tRR <= d.at => d.at - c.at >= tRR
    BY <2>6, Numbers
  <2>10. c.bank = d.bank =>
             CASE c.cmd = "activate" /\ d.cmd \in Column ->
                    d.at - c.at >= tRCD /\ ("precharge" \notin between => d.page = c.page)
               [] c.cmd = "activate" /\ d.cmd = "precharge" -> d.at - c.at >= tRAS
               [] c.cmd = "precharge" /\ d.cmd = "activate" -> d.at - c.at >= tRP
               [] c.cmd = "activate" /\ d.cmd = "activate" -> "precharge" \in between
               [] c.cmd = "precharge" /\ d.cmd \in Column -> "activate" \in between
               [] c.cmd \in Column /\ d.cmd = "activate" -> "precharge" \in between
               [] OTHER -> TRUE
    BY <2>6, <2>7, <2>9 DEF Column
  <2>11. c.cmd = "activate" /\ d.cmd = "activate" /\ Rank[c.bank] = Rank[d.bank] => d.at - c.at >= tRR
    BY <2>8, <2>9
  <2> QED
    BY <2>10, <2>11 DEF c, d, between
<1> QED
  BY <1>1, TimingInvariant, PTL

\* For every timing and every configuration: bursts do not overlap on the data
\* path, the bubbles between reads and writes are kept, and a read waits tWTR
\* after the end of a write of its rank.
THEOREM BusTiming == Spec => []BusTurnaround
<1>1. TimingInv => BusTurnaround
  <2> SUFFICES ASSUME TimingInv, NEW i \in DOMAIN log, NEW j \in DOMAIN log, i < j,
                      {log[i].cmd, log[j].cmd} \subseteq Column
               PROVE  LET c == log[i]
                          d == log[j]
                          end == c.at + tCL + tBL
                      IN  /\ ~config.full_duplex \/ c.cmd = d.cmd => d.at + tCL >= end
                          /\ ~config.full_duplex /\ c.cmd = "write" /\ d.cmd = "read" =>
                               d.at + tCL >= end + tWRBUB
                          /\ ~config.full_duplex /\ c.cmd = "read" /\ d.cmd = "write" =>
                               d.at + tCL >= end + tRWBUB
                          /\ tWTR > 0 /\ c.cmd = "write" /\ d.cmd = "read" /\ Rank[c.bank] = Rank[d.bank] =>
                               d.at >= end + tWTR
    BY DEF BusTurnaround
  <2> DEFINE c == log[i]
             d == log[j]
             end == c.at + tCL + tBL
  <2>1. log \in Seq(Pin)
    BY StateIs, StateParts DEF TimingInv, BooksInv
  <2>2. i \in 1 .. Len(log) /\ j \in 1 .. Len(log)
    BY <2>1
  <2>3. BusPair(log, i, j)
    BY <2>2 DEF TimingInv, Bus, BusPairs
  <2>4. c \in Pin /\ d \in Pin
    BY <2>1, <2>2
  <2>5. c.at \in Int /\ d.at \in Int /\ c.cmd \in Column /\ d.cmd \in Column
    BY <2>4 DEF Pin
  <2>6. /\ ~config.full_duplex \/ c.cmd = d.cmd => c.at + tBL <= d.at
        /\ ~config.full_duplex /\ c.cmd = "write" /\ d.cmd = "read" => c.at + tBL + tWRBUB <= d.at
        /\ ~config.full_duplex /\ c.cmd = "read" /\ d.cmd = "write" => c.at + tBL + tRWBUB <= d.at
        /\ tWTR > 0 /\ c.cmd = "write" /\ d.cmd = "read" /\ Rank[c.bank] = Rank[d.bank] =>
             c.at + tCL + tBL + tWTR <= d.at
    BY <2>3, <2>5, Zenon DEF BusPair
  <2> HIDE DEF c, d
  <2>7. /\ c.at + tBL <= d.at => d.at + tCL >= end
        /\ c.at + tBL + tWRBUB <= d.at => d.at + tCL >= end + tWRBUB
        /\ c.at + tBL + tRWBUB <= d.at => d.at + tCL >= end + tRWBUB
        /\ c.at + tCL + tBL + tWTR <= d.at => d.at >= end + tWTR
    BY <2>5, Numbers
  <2> HIDE DEF end
  <2> QED
    BY <2>6, <2>7, Zenon DEF c, d, end
<1> QED
  BY <1>1, TimingInvariant, PTL

=============================================================================
