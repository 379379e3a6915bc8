---------------------------- MODULE CoherenceProofs ----------------------------
(***************************************************************************)
(* The safety of the coherence protocol for any number of L2 caches, each  *)
(* with one L1 of its own, and any of them next to the directory, as long  *)
(* as an L1 has one access in flight and no line loses its place (sibling  *)
(* L1s, prefetches and an eviction are left to TLC's runs).                *)
(*                                                                         *)
(* The inductive invariant has a part for every L2: the events its queues  *)
(* can hold (Queues), where its L1's access is (Access), how L1 and L2     *)
(* agree (Line) and how both agree with the directory (Place); and two     *)
(* for the directory: its entry (Home) and the orders it waits for         *)
(* (Orders).  What a step does to one L2's part is stated without          *)
(* variables, for arbitrary values of them.                                *)
(***************************************************************************)
EXTENDS Coherence, FiniteSetTheorems, TLAPS

\* The configurations the theorems are about.
Private == Wide = {} /\ MaxOut = 1 /\ MaxOther = 0

\* The L1 of L2 k.
C(k) == <<k, 1>>

-----------------------------------------------------------------------------
(* The inductive invariant.                                                *)

\* No event is queued twice; x is queued before y.
Distinct(q)     == \A i, j \in DOMAIN q : q[i] = q[j] => i = j
Before(q, x, y) == \E i, j \in DOMAIN q : i < j /\ q[i] = x /\ q[j] = y

\* What a set of events contains: an event of type t, an event of a core's
\* access, an order of the directory, a reply, a request.
Has(S, t)   == \E e \in S : e.t = t
Answers(S)  == \E e \in S : e.c # NoL1
Asks(S)     == \E e \in S : e.c = NoL1
Replies(S)  == \E e \in S : e.rep
Requests(S) == \E e \in S : ~e.rep

Sharing  == {"e_to_s", "s_to_s"}
Shared   == {"e_to_s", "s_to_s", "e_to_s_nd", "s_to_s_nd"}
Fetched  == {"dir_rd", "dir_rd_nd"}
Dropping == {"invalidate", "invalidate_nd"}
Data     == {"e_rd", "s_rd", "write"}

\* The events of L2 k: those between it and its L1, those it sends to the
\* directory and those it gets from there.  Only a local L2 gets its orders as
\* replies, and then its data too.
Kinds == Sharing \cup Shared \cup Fetched \cup Dropping \cup Data
            \cup {"read", "m_to_m", "evict", "nack", "write_nd", "e_to_m"}
Events(k)     == [t : Kinds, c : {NoL1, C(k)}, pf : {FALSE}, k : {k}, rep : BOOLEAN]
Request(k, e) == ~e.rep /\ e.t \in {"read", "write"} /\ e.c = C(k)
DnEvents(k) ==
    {e \in Events(k) : \/ Request(k, e)
                       \/ e.rep /\ e.t = "m_to_m" /\ e.c = NoL1
                       \/ e.rep /\ e.t = "evict" /\ e.c = C(k)}
DirEvents(k) ==
    {e \in Events(k) : \/ Request(k, e)
                       \/ /\ e.rep /\ e.c = NoL1
                          /\ e.t \in Shared \cup Fetched \cup Dropping \cup {"e_to_m"}}
L2Events(k) ==
    {e \in Events(k) : \/ e.c = C(k) /\ e.t \in {"nack", "write_nd"}
                       \/ e.c = C(k) /\ e.t \in Data /\ (k \in Local => e.rep)
                       \/ /\ e.c = NoL1 /\ e.t \in Sharing \cup Dropping \cup {"dir_rd"}
                          /\ (e.rep <=> k \in Local)}

\* The queues of L2 k: d from its L1, td to the directory, tl from there.  Each
\* has at most one event of every kind; L1's reply is before its next request
\* and data is before the order that follows it.
Queues(k, d, td, tl) ==
    /\ d \in Seq(DnEvents(k)) /\ td \in Seq(DirEvents(k)) /\ tl \in Seq(L2Events(k))
    /\ Distinct(d) /\ Distinct(td) /\ Distinct(tl)
    /\ \A x, y \in ToSet(d) : ((x.rep <=> y.rep) => x = y) /\ (x.rep /\ ~y.rep => Before(d, x, y))
    /\ \A x, y \in ToSet(td) : (x.rep <=> y.rep) => x = y
    /\ \A x, y \in ToSet(tl) : (x.c = y.c => x = y) /\ (x.t \in Data /\ y.c = NoL1 => Before(tl, x, y))

\* The access of L1 k is in one place: at L2, at the directory, at the memory
\* controller, pending, or on its way back.  a is the L1's state, o its accesses
\* in flight, D the directory entry, m the reads at the controller.
One(b) == IF b THEN 1 ELSE 0
Reads(k, m) == m # <<>> /\ m[1].k = k
Access(k, a, o, u, d, td, tl, D, m) ==
    /\ o \in {0, 1} /\ (o = 1 => a = "I")
    /\ o = One(Requests(d)) + One(Requests(td)) + One(Reads(k, m)) + One(D.pend.k = k)
             + One(Answers(tl)) + One(Answers(ToSet(u)))

\* L1 k and its L2 agree, with what is queued between them: s is the L2 entry.
Answer(k, t) == Event(t, C(k), FALSE, k, TRUE)
Drop(k)      == Order("evict", k)
Absent(k, a, s, u, d) ==
    /\ s.type = "I" /\ s.l1l2 \in {"I", "E"} /\ s.sharers = {} /\ s.pend = NoEvent
    /\ \/ a = "I" /\ u \in {<<>>, <<Drop(k)>>, <<Answer(k, "nack")>>,
                            <<Drop(k), Answer(k, "nack")>>, <<Answer(k, "nack"), Drop(k)>>,
                            <<Answer(k, "read"), Drop(k)>>,
                            <<Drop(k), Answer(k, "read"), Drop(k)>>}
       \/ a = "E" /\ u = <<Drop(k)>>
    /\ ~Replies(d)
Clean(k, a, s, u, d) ==
    /\ s.type \in {"E", "S", "tr_m"} /\ s.l1l2 = "E" /\ s.sharers = {C(k)} /\ s.pend = NoEvent
    /\ \/ a = "I" /\ u \in {<<>>, <<Answer(k, "nack")>>, <<Answer(k, "read")>>,
                            <<Drop(k), Answer(k, "read")>>}
       \/ a = "E" /\ u = <<>>
    /\ ~Replies(d)
Modified(k, a, s, u, d) ==
    /\ s.type = "M" /\ s.l1l2 = "M" /\ s.sharers = {C(k)} /\ s.pend = NoEvent
    /\ \/ a = "M" /\ u = <<>>
       \/ a = "I" /\ u \in {<<Answer(k, "write")>>, <<Drop(k), Answer(k, "write")>>}
    /\ d = {}
\* L1 is about to be asked for its modified line.
Wanted(k, a, u, t) ==
    \/ a = "M" /\ u = <<Order(t, k)>>
    \/ a = "I" /\ u \in {<<Answer(k, "write"), Order(t, k)>>,
                         <<Drop(k), Answer(k, "write"), Order(t, k)>>}
Leaving(k, a, s, u, d) ==
    /\ s.type = "tr_i" /\ s.l1l2 = "tr_i" /\ s.sharers = {}
    /\ \E t \in Dropping : s.pend = Order(t, k)
    /\ \/ Wanted(k, a, u, "m_to_m") /\ d = {}
       \/ a = "I" /\ u = <<>> /\ Has(d, "m_to_m")
Fetching(k, a, s, u, d) ==
    /\ s.type = "tr_s" /\ s.l1l2 = "E" /\ s.sharers = {} /\ s.pend = Order("dir_rd", k)
    /\ \/ Wanted(k, a, u, "dir_rd") /\ d = {}
       \/ a \in {"I", "E"} /\ u = <<>> /\ Has(d, "evict")
Line(k, a, s, u, d) ==
    \/ Absent(k, a, s, u, d) \/ Clean(k, a, s, u, d) \/ Modified(k, a, s, u, d)
    \/ Leaving(k, a, s, u, d) \/ Fetching(k, a, s, u, d)

\* The directory waits for L2s; L2 k owes it an answer.
Waits(D) == D.pend # NoEvent
Owes(s, td, tl) == Asks(tl) \/ s.pend # NoEvent \/ Replies(td)

\* What the directory knows of an L2 that has or gets the line exclusive, shared
\* or modified.
Exclusive(k, tl, D) ==
    /\ D.sharers = {k}
    /\ \/ D.type = "E"
       \/ D.type = "tr_s" /\ Has(tl, "e_to_s")
       \/ D.type = "tr_m" /\ Waits(D) /\ Asks(tl)
Sharer(k, tl, D) ==
    /\ k \in D.sharers
    /\ \/ D.type \in {"S", "tr_s"}
       \/ D.type = "tr_m" /\ Waits(D) /\ Asks(tl)
Writer(k, tl, D) ==
    /\ D.sharers = {k}
    /\ \/ D.type = "M"
       \/ D.type = "m_s" /\ Asks(tl)
       \/ D.type = "tr_m" /\ Waits(D) /\ Asks(tl)
\* L2 k's upgrade is granted.
Upgrading(k, D, m) == D.sharers = {k} /\ D.type = "tr_m" /\ ~Waits(D) /\ m = <<>>

\* What L2 k has; what it gets; its requests; the orders it has not answered.
Holds(k, s, td, tl, D, m) ==
    /\ s.type = "E" => Exclusive(k, tl, D)
    /\ s.type = "tr_m" => \/ Exclusive(k, tl, D) /\ (D.type = "E" => Has(td, "write"))
                          \/ Upgrading(k, D, m) /\ Has(tl, "write_nd")
    /\ s.type = "S" => \/ Sharer(k, tl, D)
                       \/ D.sharers = {k} /\ D.type = "m_s" /\ Replies(td)
    /\ s.type = "M" => \/ Writer(k, tl, D)
                       \/ Upgrading(k, D, m) /\ Has(td, "e_to_m")
    /\ s.type = "tr_s" => D.sharers = {k} /\ D.type = "m_s"
    /\ s.type = "tr_i" => D.sharers = {k} /\ D.type = "tr_m" /\ Waits(D)
Gets(k, s, tl, D, m) ==
    /\ Has(tl, "e_rd") => s.type = "I" /\ Exclusive(k, tl, D)
    /\ Has(tl, "s_rd") => s.type = "I" /\ Sharer(k, tl, D)
    /\ Has(tl, "write") => s.type = "I" /\ Writer(k, tl, D)
    /\ Has(tl, "write_nd") => s.type = "tr_m" /\ Upgrading(k, D, m)
    /\ Has(tl, "nack") => s.type \in {"I", "S", "tr_m"}
Wishes(k, s, td, tl, D) ==
    /\ Has(td, "read") => s.type = "I"
    /\ Has(td, "write") => s.type \in {"I", "S", "tr_m"}
    /\ Requests(td) /\ D.type = "E" /\ D.sharers = {k} => s.type = "tr_m"
    /\ D.pend.k = k => s.type \in {"I", "S"} /\ (D.pend.t = "read" => s.type = "I")
    /\ D.type = "E" /\ k \in D.sharers => s.type \in {"E", "tr_m"} \/ Has(tl, "e_rd")
Obeys(k, s, td, tl, D, m) ==
    /\ \A e \in tl : e.c = NoL1 =>
          /\ k \in D.sharers
          /\ e.t \in Sharing => D.type = "tr_s"
          /\ e.t = "dir_rd" => D.type = "m_s"
          /\ e.t \in Dropping => D.type = "tr_m" /\ Waits(D)
    /\ \A e \in td : e.rep =>
          /\ k \in D.sharers
          /\ e.t \in Shared => D.type = "tr_s" /\ s.type \in {"I", "S"}
          /\ e.t \in Fetched => D.type = "m_s" /\ s.type \in {"I", "S"}
          /\ e.t \in Dropping => D.type = "tr_m" /\ Waits(D) /\ s.type = "I"
          /\ e.t = "e_to_m" => Upgrading(k, D, m) /\ s.type = "M"
    /\ ~(Asks(tl) /\ s.pend # NoEvent)
    /\ ~(Asks(tl) /\ Replies(td)) /\ ~(s.pend # NoEvent /\ Replies(td))
    /\ D.type = "tr_m" /\ Waits(D) => (k \in D.sharers <=> Owes(s, td, tl))
Place(k, s, td, tl, D, m) ==
    /\ Holds(k, s, td, tl, D, m) /\ Gets(k, s, tl, D, m)
    /\ Wishes(k, s, td, tl, D) /\ Obeys(k, s, td, tl, D, m)

\* The directory entry, with the reads m at the controller.
Ask(k, t) == Event(t, C(k), FALSE, k, FALSE)
Reading(D, m) ==
    \/ m = <<>>
    \/ \E k \in L2s, t \in {"read", "write"} :
         /\ m = <<Ask(k, t)>> /\ D.sharers = {k} /\ ~Waits(D)
         /\ D.type = IF t = "read" THEN "tr_e" ELSE "tr_m"
DirTypes   == {"none", "tr_e", "tr_m", "tr_s", "m_s"} \cup Stable
DirPends   == {NoEvent} \cup {Ask(p, t) : p \in L2s, t \in {"read", "write"}}
DirEntries == [type : DirTypes, sharers : SUBSET L2s, pend : DirPends, gotcl : BOOLEAN]
Home(D, m) ==
    /\ D \in DirEntries /\ Reading(D, m)
    /\ D.sharers = {} <=> D.type = "none"
    /\ D.type \in {"tr_e", "E", "M", "m_s"} \/ (D.type = "tr_m" /\ ~Waits(D))
          => \E k \in L2s : D.sharers = {k}
    /\ Waits(D) => D.type \in {"tr_s", "m_s", "tr_m"}
    /\ D.type \in {"tr_s", "m_s"} => Waits(D) /\ D.pend.t = "read" /\ D.pend.k \notin D.sharers
    /\ D.type = "tr_m" /\ Waits(D) => D.pend.t = "write"
    /\ D.type = "tr_e" => m # <<>>

\* The part of the invariant about L2 k.
Node(k) ==
    /\ Queues(k, dn[C(k)], todir[k], toL2[k])
    /\ Access(k, l1[C(k)], out[C(k)], up[C(k)], ToSet(dn[C(k)]), ToSet(todir[k]), ToSet(toL2[k]), dir, mc)
    /\ Line(k, l1[C(k)], l2[k], up[C(k)], ToSet(dn[C(k)]))
    /\ Place(k, l2[k], ToSet(todir[k]), ToSet(toL2[k]), dir, mc)

\* One L2 owes the answer a read waits for, and an upgrade is under way.
InDebt(k) == Owes(l2[k], ToSet(todir[k]), ToSet(toL2[k]))
Orders ==
    /\ dir.type \in {"tr_s", "m_s"} =>
          \E k \in L2s : InDebt(k) /\ \A j \in L2s : InDebt(j) => j = k
    /\ dir.type = "tr_m" /\ ~Waits(dir) /\ mc = <<>> =>
          \E k \in L2s : Has(ToSet(toL2[k]), "write_nd") \/ Has(ToSet(todir[k]), "e_to_m")

\* The variables are functions, and what the configuration leaves out does not
\* happen.
Evts  == UNION {Events(k) : k \in L2s}
Frame ==
    /\ l1 \in [L1s -> {"I", "E", "M"}] /\ out \in [L1s -> {0, 1}]
    /\ l2 \in [L2s -> [type : L2Types, l1l2 : L2Types, sharers : SUBSET L1s, pend : Evts \cup {NoEvent}]]
    /\ up \in [L1s -> Seq(Evts)] /\ dn \in [L1s -> Seq(Evts)]
    /\ todir \in [L2s -> Seq(Evts)] /\ toL2 \in [L2s -> Seq(Evts)]
    /\ xbar = [k \in L2s |-> <<>>] /\ pre = 0 /\ lost = 0 /\ ~fatal

Inv == Frame /\ Home(dir, mc) /\ Orders /\ \A k \in L2s : Node(k)

-----------------------------------------------------------------------------
(* Queues.                                                                 *)

\* Appending a new event.
LEMMA Put ==
    ASSUME NEW S, NEW q \in Seq(S), Distinct(q), NEW e \in S, e \notin ToSet(q)
    PROVE  LET r == Append(q, e)
           IN  /\ r \in Seq(S) /\ Distinct(r) /\ ToSet(r) = ToSet(q) \cup {e}
               /\ \A x, y : Before(q, x, y) => Before(r, x, y)
               /\ \A x \in ToSet(q) : Before(r, x, e)
<1> DEFINE r == Append(q, e)
           n == Len(q)
<1>1. /\ r \in Seq(S) /\ n \in Nat /\ DOMAIN q = 1 .. n /\ DOMAIN r = 1 .. n + 1
      /\ r[n + 1] = e /\ \A i \in 1 .. n : r[i] = q[i]
  OBVIOUS
<1>2. \A i \in 1 .. n : q[i] # e
  BY <1>1 DEF ToSet
<1> HIDE DEF r, n
<1>3. Distinct(r)
  BY <1>1, <1>2 DEF Distinct
<1>4. ToSet(r) = ToSet(q) \cup {e}
  BY <1>1 DEF ToSet
<1>5. ASSUME NEW x, NEW y, Before(q, x, y) PROVE Before(r, x, y)
  <2>1. PICK i \in 1 .. n, j \in 1 .. n : i < j /\ q[i] = x /\ q[j] = y
    BY <1>1, <1>5 DEF Before
  <2>2. i \in 1 .. n + 1 /\ j \in 1 .. n + 1 /\ r[i] = x /\ r[j] = y
    BY <1>1, <2>1
  <2> QED
    BY <1>1, <2>1, <2>2 DEF Before
<1>6. ASSUME NEW x \in ToSet(q) PROVE Before(r, x, e)
  <2>1. PICK i \in 1 .. n : q[i] = x
    BY <1>1 DEF ToSet
  <2>2. i \in 1 .. n + 1 /\ n + 1 \in 1 .. n + 1 /\ i < n + 1 /\ r[i] = x
    BY <1>1, <2>1
  <2> QED
    BY <1>1, <2>2 DEF Before
<1> QED
  BY <1>1, <1>3, <1>4, <1>5, <1>6 DEF r

\* Taking an event out.
LEMMA Take ==
    ASSUME NEW S, NEW q \in Seq(S), Distinct(q), NEW i \in DOMAIN q
    PROVE  LET r == RemoveAt(q, i)
           IN  /\ r \in Seq(S) /\ Distinct(r) /\ ToSet(r) = ToSet(q) \ {q[i]}
               /\ \A x, y : Before(q, x, y) /\ x # q[i] /\ y # q[i] => Before(r, x, y)
               /\ q[i] \in ToSet(q) /\ q[i] \in S
<1> DEFINE r == RemoveAt(q, i)
           n == Len(q)
           f(j) == IF j < i THEN j ELSE j + 1
           b(j) == IF j < i THEN j ELSE j - 1
<1>1. /\ n \in Nat /\ i \in 1 .. n /\ DOMAIN q = 1 .. n
  OBVIOUS
<1>2. /\ r \in Seq(S) /\ DOMAIN r = 1 .. n - 1
      /\ \A j \in 1 .. n - 1 : r[j] = IF j < i THEN q[j] ELSE q[j + 1]
  <2>1. SubSeq(q, 1, i - 1) \in Seq(S) /\ Len(SubSeq(q, 1, i - 1)) = i - 1
    BY <1>1
  <2>2. SubSeq(q, i + 1, n) \in Seq(S) /\ Len(SubSeq(q, i + 1, n)) = n - i
    BY <1>1
  <2>3. \A j \in 1 .. i - 1 : SubSeq(q, 1, i - 1)[j] = q[j]
    BY <1>1
  <2>4. \A j \in 1 .. n - i : SubSeq(q, i + 1, n)[j] = q[i + j]
    BY <1>1
  <2> DEFINE u == SubSeq(q, 1, i - 1)
             v == SubSeq(q, i + 1, n)
  <2>5. r = u \o v
    BY DEF RemoveAt
  <2> HIDE DEF u, v
  <2>6. u \in Seq(S) /\ Len(u) = i - 1 /\ v \in Seq(S) /\ Len(v) = n - i
    BY <2>1, <2>2 DEF u, v
  <2>7. /\ u \o v \in Seq(S) /\ Len(u \o v) = n - 1 /\ DOMAIN (u \o v) = 1 .. n - 1
        /\ \A j \in 1 .. n - 1 : (u \o v)[j] = IF j < i THEN u[j] ELSE v[j - (i - 1)]
    <3> HIDE DEF n, r
    <3>0. u \in Seq(S) /\ v \in Seq(S)
      BY <2>6
    <3>1. u \o v \in Seq(S) /\ Len(u \o v) = Len(u) + Len(v)
      BY <3>0
    <3>2. Len(u \o v) = n - 1
      BY <1>1, <2>6, <3>1
    <3>3. ASSUME NEW j \in 1 .. n - 1
          PROVE  (u \o v)[j] = IF j < i THEN u[j] ELSE v[j - (i - 1)]
      <4>1. CASE j < i
        <5>1. j \in 1 .. Len(u)
          BY <1>1, <2>6, <4>1
        <5> QED
          BY <2>6, <4>1, <5>1
      <4>2. CASE ~(j < i)
        <5>1. /\ Len(u) = i - 1 /\ Len(v) = n - i /\ i \in Nat /\ n \in Nat /\ j \in Nat
              /\ 1 <= j /\ j <= n - 1 /\ u \in Seq(S) /\ v \in Seq(S)
          BY <1>1, <2>6
        <5>2. (u \o v)[j] = v[j - (i - 1)]
          <6>1. \A h \in 1 .. Len(u) + Len(v) : h > Len(u) => (u \o v)[h] = v[h - Len(u)]
            BY <3>0
          <6>2. j \in 1 .. Len(u) + Len(v) /\ j > Len(u) /\ j - Len(u) = j - (i - 1)
            BY <4>2, <5>1
          <6> QED
            BY <6>1, <6>2
        <5> QED
          BY <4>2, <5>2
      <4> QED
        BY <4>1, <4>2
    <3> QED
      BY <3>1, <3>2, <3>3
  <2>8. \A j \in 1 .. n - 1 : IF j < i THEN u[j] = q[j] ELSE v[j - (i - 1)] = q[j + 1]
    <3> TAKE j \in 1 .. n - 1
    <3>1. CASE j < i
      BY <1>1, <2>3, <3>1 DEF u
    <3>2. CASE ~(j < i)
      <4>1. j - (i - 1) \in 1 .. n - i /\ i + (j - (i - 1)) = j + 1
        BY <1>1, <3>2
      <4> QED
        BY <2>4, <3>2, <4>1 DEF v
    <3> QED
      BY <3>1, <3>2
  <2> HIDE DEF r
  <2> QED
    BY <2>5, <2>7, <2>8
<1> HIDE DEF r, n
<1>3. \A j, h \in 1 .. n : q[j] = q[h] => j = h
  BY <1>1 DEF Distinct
<1>4. \A j \in 1 .. n - 1 : f(j) \in 1 .. n /\ f(j) # i /\ r[j] = q[f(j)] /\ b(f(j)) = j
  BY <1>1, <1>2
<1>5. \A j \in 1 .. n : j # i => b(j) \in 1 .. n - 1 /\ f(b(j)) = j
  BY <1>1
<1>6. \A j, h \in 1 .. n : j < h /\ j # i /\ h # i => b(j) < b(h)
  BY <1>1
<1> HIDE DEF f, b
<1>7. Distinct(r)
  BY <1>2, <1>3, <1>4 DEF Distinct
<1>8. ToSet(r) = ToSet(q) \ {q[i]}
  <2>1. ToSet(r) \subseteq ToSet(q) \ {q[i]}
    BY <1>1, <1>2, <1>3, <1>4 DEF ToSet
  <2>2. ASSUME NEW x \in ToSet(q), x # q[i] PROVE x \in ToSet(r)
    <3>1. PICK j \in 1 .. n : q[j] = x /\ j # i
      BY <1>1, <2>2 DEF ToSet
    <3>2. b(j) \in 1 .. n - 1 /\ r[b(j)] = x
      BY <1>4, <1>5, <3>1
    <3> QED
      BY <1>2, <3>2 DEF ToSet
  <2> QED
    BY <2>1, <2>2
<1>9. ASSUME NEW x, NEW y, Before(q, x, y), x # q[i], y # q[i] PROVE Before(r, x, y)
  <2>1. PICK j \in 1 .. n, h \in 1 .. n : j < h /\ q[j] = x /\ q[h] = y
    BY <1>1, <1>9 DEF Before
  <2>2. j # i /\ h # i
    BY <1>9, <2>1
  <2>3. /\ b(j) \in 1 .. n - 1 /\ b(h) \in 1 .. n - 1 /\ b(j) < b(h)
        /\ r[b(j)] = x /\ r[b(h)] = y
    BY <1>4, <1>5, <1>6, <2>1, <2>2
  <2> QED
    BY <1>2, <2>3 DEF Before
<1>10. q[i] \in ToSet(q) /\ q[i] \in S
  BY <1>1 DEF ToSet
<1> QED
  BY <1>2, <1>7, <1>8, <1>9, <1>10 DEF r

\* An event is served before an older one only if it is a reply and that one is not.
LEMMA Overtakes ==
    ASSUME NEW S, NEW q \in Seq(S), Distinct(q), NEW i \in Servable(q), NEW x, Before(q, x, q[i])
    PROVE  q[i].rep /\ ~x.rep
<1>1. i \in DOMAIN q /\ (i = 1 \/ (q[i].rep /\ \A j \in 1 .. i - 1 : ~q[j].rep))
  BY DEF Servable
<1>2. PICK j \in DOMAIN q, h \in DOMAIN q : j < h /\ q[j] = x /\ q[h] = q[i]
  BY DEF Before
<1>3. h = i
  BY <1>1, <1>2 DEF Distinct
<1>4. DOMAIN q = 1 .. Len(q) /\ Len(q) \in Nat
  OBVIOUS
<1>5. i # 1 /\ j \in 1 .. i - 1
  BY <1>1, <1>2, <1>3, <1>4
<1> QED
  BY <1>1, <1>2, <1>5

\* The sequences of a set with no element and of one with one.
LEMMA SeqOfNone == SetToSeq({}) = <<>>
<1>1. Cardinality({}) = 0
  BY FS_EmptySet
<1> DEFINE P(f) == f \in [1 .. 0 -> {}] /\ IsInjective(f)
<1>2. \E f \in [1 .. 0 -> {}] : IsInjective(f)
  <2>1. [i \in 1 .. 0 |-> i] \in [1 .. 0 -> {}]
    OBVIOUS
  <2>2. IsInjective([i \in 1 .. 0 |-> i])
    BY DEF IsInjective
  <2> QED
    BY <2>1, <2>2
<1>3. \A f \in [1 .. 0 -> {}] : f = <<>>
  OBVIOUS
<1>4. SetToSeq({}) = CHOOSE f \in [1 .. 0 -> {}] : IsInjective(f)
  BY <1>1 DEF SetToSeq
<1>5. SetToSeq({}) \in [1 .. 0 -> {}]
  BY <1>2, <1>4
<1> QED
  BY <1>3, <1>5

LEMMA SeqOfOne == ASSUME NEW x PROVE SetToSeq({x}) = <<x>>
<1>1. Cardinality({x}) = 1
  BY FS_Singleton
<1>2. \E f \in [1 .. 1 -> {x}] : IsInjective(f)
  <2>1. [i \in 1 .. 1 |-> x] \in [1 .. 1 -> {x}]
    OBVIOUS
  <2>2. IsInjective([i \in 1 .. 1 |-> x])
    BY DEF IsInjective
  <2> QED
    BY <2>1, <2>2
<1>3. \A f \in [1 .. 1 -> {x}] : f = <<x>>
  OBVIOUS
<1>4. SetToSeq({x}) = CHOOSE f \in [1 .. 1 -> {x}] : IsInjective(f)
  BY <1>1 DEF SetToSeq
<1>5. SetToSeq({x}) \in [1 .. 1 -> {x}]
  BY <1>2, <1>4
<1> QED
  BY <1>3, <1>5

-----------------------------------------------------------------------------
(* An L2 and its L1.                                                       *)

Sound(k, a, o, s, u, d, td, tl, D, m) ==
    /\ Access(k, a, o, u, d, td, tl, D, m) /\ Line(k, a, s, u, d) /\ Place(k, s, td, tl, D, m)

\* The L1s of a private configuration.
LEMMA OwnL1 ==
    ASSUME Private
    PROVE  /\ \A k \in L2s : C(k) \in L1s /\ Parent(C(k)) = k /\ C(k) # NoL1 /\ k # 0
           /\ \A c \in L1s : c = C(Parent(c)) /\ Parent(c) \in L2s
           /\ \A k, j : C(k) = C(j) => k = j
<1>1. \A k \in L2s : C(k) \in L1s /\ Parent(C(k)) = k /\ C(k) # NoL1 /\ k # 0
  BY CoherenceAssumption DEF C, L1s, Parent, NoL1
<1>2. \A c \in L1s : c = C(Parent(c)) /\ Parent(c) \in L2s
  BY DEF C, L1s, Parent, Private
<1>3. \A k, j : C(k) = C(j) => k = j
  BY DEF C
<1> QED
  BY <1>1, <1>2, <1>3

\* What Append makes.
LEMMA AppendMakes ==
    ASSUME NEW S, NEW p \in Seq(S), NEW z \in S, NEW r \in Seq(S), Len(r) = Len(p) + 1,
           r[Len(p) + 1] = z, \A i \in 1 .. Len(p) : r[i] = p[i]
    PROVE  Append(p, z) = r
<1>1. /\ Append(p, z) \in Seq(S) /\ Len(Append(p, z)) = Len(p) + 1 /\ Len(p) \in Nat
      /\ Append(p, z)[Len(p) + 1] = z /\ \A i \in 1 .. Len(p) : Append(p, z)[i] = p[i]
  OBVIOUS
<1>2. \A i \in 1 .. Len(p) + 1 : Append(p, z)[i] = r[i]
  BY <1>1
<1> QED
  BY <1>1, <1>2

LEMMA AppendSecond == ASSUME NEW x, NEW y PROVE Append(<<x>>, y) = <<x, y>>
<1> DEFINE S == {x, y}
<1>1. /\ <<x>> \in Seq(S) /\ y \in S /\ <<x, y>> \in Seq(S)
      /\ Len(<<x, y>>) = Len(<<x>>) + 1 /\ <<x, y>>[Len(<<x>>) + 1] = y
      /\ \A i \in 1 .. Len(<<x>>) : <<x, y>>[i] = <<x>>[i]
  OBVIOUS
<1> QED
  BY <1>1, AppendMakes

LEMMA AppendThird == ASSUME NEW x, NEW y, NEW z PROVE Append(<<x, y>>, z) = <<x, y, z>>
<1> DEFINE S == {x, y, z}
<1>1. /\ <<x, y>> \in Seq(S) /\ z \in S /\ <<x, y, z>> \in Seq(S)
      /\ Len(<<x, y, z>>) = Len(<<x, y>>) + 1 /\ <<x, y, z>>[Len(<<x, y>>) + 1] = z
      /\ \A i \in 1 .. Len(<<x, y>>) : <<x, y, z>>[i] = <<x, y>>[i]
  OBVIOUS
<1> QED
  BY <1>1, AppendMakes

\* Sequences of up to three elements.
LEMMA Short ==
    ASSUME NEW x, NEW y, NEW z
    PROVE  /\ Append(<<>>, x) = <<x>> /\ Append(<<x>>, y) = <<x, y>>
           /\ Append(<<x, y>>, z) = <<x, y, z>>
           /\ Head(<<x>>) = x /\ Head(<<x, y>>) = x /\ Head(<<x, y, z>>) = x
           /\ Tail(<<x>>) = <<>> /\ Tail(<<x, y>>) = <<y>> /\ Tail(<<x, y, z>>) = <<y, z>>
           /\ <<x>> # <<>> /\ <<x, y>> # <<>> /\ <<x, y, z>> # <<>>
           /\ <<x>> \o <<>> = <<x>> /\ <<>> \o <<x>> = <<x>>
<1>1. /\ Append(<<>>, x) = <<x>> /\ Append(<<x>>, y) = <<x, y>>
      /\ Append(<<x, y>>, z) = <<x, y, z>>
  <2>1. Append(<<>>, x) = <<x>>
    OBVIOUS
  <2>2. Append(<<x>>, y) = <<x, y>>
    BY AppendSecond
  <2>3. Append(<<x, y>>, z) = <<x, y, z>>
    BY AppendThird
  <2> QED
    BY <2>1, <2>2, <2>3
<1>2. Head(<<x>>) = x /\ Head(<<x, y>>) = x /\ Head(<<x, y, z>>) = x
  OBVIOUS
<1>3. Tail(<<x>>) = <<>> /\ Tail(<<x, y>>) = <<y>> /\ Tail(<<x, y, z>>) = <<y, z>>
  OBVIOUS
<1>4. <<x>> # <<>> /\ <<x, y>> # <<>> /\ <<x, y, z>> # <<>>
  OBVIOUS
<1>5. <<x>> \o <<>> = <<x>> /\ <<>> \o <<x>> = <<x>>
  OBVIOUS
<1> QED
  BY <1>1, <1>2, <1>3, <1>4, <1>5

LEMMA Elements ==
    ASSUME NEW x, NEW y, NEW z
    PROVE  /\ ToSet(<<>>) = {} /\ ToSet(<<x>>) = {x} /\ ToSet(<<x, y>>) = {x, y}
           /\ ToSet(<<x, y, z>>) = {x, y, z}
<1>1. ToSet(<<>>) = {} /\ ToSet(<<x>>) = {x} /\ ToSet(<<x, y>>) = {x, y}
  BY DEF ToSet
<1>2. ToSet(<<x, y, z>>) = {x, y, z}
  BY DEF ToSet
<1> QED
  BY <1>1, <1>2

\* Which sequences of events for an L1 hold the answer to its access.
LEMMA Returning ==
    ASSUME Private, NEW k \in L2s
    PROVE  /\ ~Answers(ToSet(<<>>)) /\ ~Answers(ToSet(<<Drop(k)>>))
           /\ \A t : ~Answers(ToSet(<<Order(t, k)>>))
           /\ \A t, x, y : /\ Answers(ToSet(<<Answer(k, t)>>))
                           /\ Answers(ToSet(<<x, Answer(k, t)>>))
                           /\ Answers(ToSet(<<Answer(k, t), y>>))
                           /\ Answers(ToSet(<<x, Answer(k, t), y>>))
<1>1. \A t : Order(t, k).c = NoL1 /\ Answer(k, t).c # NoL1
  BY OwnL1 DEF Order, Event, Answer
<1>2. Drop(k).c = NoL1
  BY <1>1 DEF Drop
<1>3. /\ ~Answers(ToSet(<<>>)) /\ ~Answers(ToSet(<<Drop(k)>>))
      /\ \A t : ~Answers(ToSet(<<Order(t, k)>>))
  <2>1. ToSet(<<>>) = {} /\ ToSet(<<Drop(k)>>) = {Drop(k)}
    BY Elements, Zenon
  <2>2. \A t : ToSet(<<Order(t, k)>>) = {Order(t, k)}
    BY Elements, Zenon
  <2> QED
    BY <1>1, <1>2, <2>1, <2>2 DEF Answers
<1>4. ASSUME NEW t, NEW x, NEW y
      PROVE  /\ Answers(ToSet(<<Answer(k, t)>>))
             /\ Answers(ToSet(<<x, Answer(k, t)>>))
             /\ Answers(ToSet(<<Answer(k, t), y>>))
             /\ Answers(ToSet(<<x, Answer(k, t), y>>))
  <2> DEFINE b == Answer(k, t)
  <2>1. ToSet(<<b>>) = {b}
    BY Elements, Zenon
  <2>2. ToSet(<<x, b>>) = {x, b}
    BY Elements, Zenon
  <2>3. ToSet(<<b, y>>) = {b, y}
    BY Elements, Zenon
  <2>4. ToSet(<<x, b, y>>) = {x, b, y}
    BY DEF ToSet
  <2> QED
    BY <1>1, <2>1, <2>2, <2>3, <2>4 DEF Answers
<1> QED
  BY <1>3, <1>4

\* CacheL1: a core's access.
LEMMA RequestSound ==
    ASSUME Private, NEW k \in L2s, NEW a, NEW s, NEW u, NEW d, NEW td, NEW tl, NEW D, NEW m,
           Sound(k, a, 0, s, u, d, td, tl, D, m), a # "M",
           NEW e, ~e.rep, e.t \in {"read", "write"}
    PROVE  Sound(k, "I", 1, s, u, d \cup {e}, td, tl, D, m)
<1>1. Access(k, "I", 1, u, d \cup {e}, td, tl, D, m)
  <2>1. ~Requests(d) /\ Requests(d \cup {e})
    BY DEF Sound, Access, One, Requests
  <2> QED
    BY <2>1 DEF Sound, Access, One
<1>2. ~Answers(ToSet(u))
  BY DEF Sound, Access, One
<1>3. Line(k, "I", s, u, d \cup {e})
  <2>1. Replies(d \cup {e}) <=> Replies(d)
    BY DEF Replies
  <2>2. \A t : Has(d, t) => Has(d \cup {e}, t)
    BY DEF Has
  <2>3. ~Modified(k, a, s, u, d)
    BY <1>2, Returning DEF Modified
  <2>4. \A t : ~Wanted(k, a, u, t)
    BY <1>2, Returning DEF Wanted
  <2>5. CASE Absent(k, a, s, u, d)
    BY <2>1, <2>5 DEF Absent, Line
  <2>6. CASE Clean(k, a, s, u, d)
    BY <2>1, <2>6 DEF Clean, Line
  <2>7. CASE Leaving(k, a, s, u, d)
    BY <2>2, <2>4, <2>7 DEF Leaving, Line
  <2>8. CASE Fetching(k, a, s, u, d)
    BY <2>2, <2>4, <2>8 DEF Fetching, Line
  <2> QED
    BY <2>3, <2>5, <2>6, <2>7, <2>8 DEF Sound, Line
<1> QED
  BY <1>1, <1>3 DEF Sound

\* What an L1 does with the events it can get.
LEMMA L1Table ==
    ASSUME Private, NEW k \in L2s
    PROVE  /\ \A a : /\ L1Next(a, Drop(k)) = "I" /\ (a # "M" => L1Sends(C(k), a, Drop(k)) = <<>>)
                     /\ L1Next(a, Answer(k, "nack")) = a /\ L1Sends(C(k), a, Answer(k, "nack")) = <<>>
                     /\ a # "M" => L1Next(a, Answer(k, "read")) = "E"
                     /\ L1Sends(C(k), a, Answer(k, "read")) = <<>>
                     /\ L1Next(a, Answer(k, "write")) = "M" /\ L1Sends(C(k), a, Answer(k, "write")) = <<>>
           /\ L1Next("M", Order("m_to_m", k)) = "I"
           /\ L1Sends(C(k), "M", Order("m_to_m", k)) = <<Order("m_to_m", k)>>
           /\ L1Next("M", Order("dir_rd", k)) = "E"
           /\ L1Sends(C(k), "M", Order("dir_rd", k)) = <<Answer(k, "evict")>>
           /\ \A t : Answer(k, t).t = t /\ Order(t, k).t = t
           /\ Drop(k).t = "evict"
<1>1. \A t : Answer(k, t).t = t /\ Order(t, k).t = t
  BY DEF Answer, Order, Event
<1>2. Drop(k).t = "evict"
  BY <1>1 DEF Drop
<1>3. ASSUME NEW a
      PROVE  /\ L1Next(a, Drop(k)) = "I" /\ (a # "M" => L1Sends(C(k), a, Drop(k)) = <<>>)
             /\ L1Next(a, Answer(k, "nack")) = a /\ L1Sends(C(k), a, Answer(k, "nack")) = <<>>
             /\ a # "M" => L1Next(a, Answer(k, "read")) = "E"
             /\ L1Sends(C(k), a, Answer(k, "read")) = <<>>
             /\ L1Next(a, Answer(k, "write")) = "M" /\ L1Sends(C(k), a, Answer(k, "write")) = <<>>
  BY <1>1, <1>2 DEF L1Next, L1Sends
<1>4. /\ L1Next("M", Order("m_to_m", k)) = "I"
      /\ L1Sends(C(k), "M", Order("m_to_m", k)) = <<Order("m_to_m", k)>>
      /\ L1Next("M", Order("dir_rd", k)) = "E"
  BY <1>1 DEF L1Next, L1Sends
<1>5. L1Sends(C(k), "M", Order("dir_rd", k)) = <<Answer(k, "evict")>>
  <2>1. Parent(C(k)) = k
    BY OwnL1
  <2>2. L1Sends(C(k), "M", Order("dir_rd", k)) = <<Event("evict", C(k), FALSE, Parent(C(k)), TRUE)>>
    <3> DEFINE y == Order("dir_rd", k)
               x == Event("evict", C(k), FALSE, Parent(C(k)), TRUE)
    <3>1. y.t = "dir_rd"
      BY <1>1
    <3>2. L1Sends(C(k), "M", y) = CASE y.t \in {"m_to_m", "m_to_s"} -> <<y>>
                                    [] y.t \in {"evict", "dir_rd"} /\ "M" = "M" -> <<x>>
                                    [] OTHER -> <<>>
      BY DEF L1Sends
    <3> HIDE DEF x, y
    <3>3. L1Sends(C(k), "M", y) = <<x>>
      BY <3>1, <3>2
    <3> QED
      BY <3>3 DEF x, y
  <2> QED
    BY <2>1, <2>2 DEF Answer
<1> QED
  BY <1>1, <1>2, <1>3, <1>4, <1>5

\* CacheL1: an event from L2, by the state L2 is in.  Line and Access after it.
Replied(k, a, o, s, u, d, td, tl, D, m) ==
    LET e == Head(u)
        sent == L1Sends(C(k), a, e)
        b == L1Next(a, e)
        n == IF e.t \in {"nack", "rd_bypass", "read", "write"} THEN o - 1 ELSE o
    IN  /\ ~(e.t = "dir_rd" /\ a \in {"S", "E"}) /\ b \in {"I", "E", "M"}
        /\ Access(k, b, n, Tail(u), d \cup ToSet(sent), td, tl, D, m)
        /\ Line(k, b, s, Tail(u), d \cup ToSet(sent))
        /\ \/ sent = <<>>
           \/ d = {} /\ sent \in {<<Order("m_to_m", k)>>, <<Answer(k, "evict")>>}

\* An answer that only the L1's own state depends on.
LEMMA ReplyAnswer ==
    ASSUME Private, NEW k \in L2s, NEW a, NEW o, NEW s, NEW u, NEW d, NEW td, NEW tl, NEW D, NEW m,
           Access(k, a, o, u, d, td, tl, D, m), NEW t \in {"nack", "read", "write"},
           Head(u) = Answer(k, t), a = "I", Answers(ToSet(u)), ~Answers(ToSet(Tail(u))),
           Line(k, IF t = "nack" THEN "I" ELSE IF t = "read" THEN "E" ELSE "M", s, Tail(u), d)
    PROVE  Replied(k, a, o, s, u, d, td, tl, D, m)
<1> DEFINE e == Head(u)
           b == IF t = "nack" THEN "I" ELSE IF t = "read" THEN "E" ELSE "M"
<1>1. e.t = t /\ L1Next(a, e) = b /\ L1Sends(C(k), a, e) = <<>>
  BY L1Table
<1>2. d \cup ToSet(L1Sends(C(k), a, e)) = d
  BY <1>1, Elements
<1>3. Access(k, b, o - 1, Tail(u), d, td, tl, D, m) /\ o - 1 = 0
  BY DEF Access, One
<1> HIDE DEF e
<1>4. (IF e.t \in {"nack", "rd_bypass", "read", "write"} THEN o - 1 ELSE o) = o - 1
  BY <1>1
<1> QED
  BY <1>1, <1>2, <1>3, <1>4 DEF Replied, e

\* An order to drop the line.
LEMMA ReplyDrop ==
    ASSUME Private, NEW k \in L2s, NEW a, NEW o, NEW s, NEW u, NEW d, NEW td, NEW tl, NEW D, NEW m,
           Access(k, a, o, u, d, td, tl, D, m), Head(u) = Drop(k), a # "M",
           Answers(ToSet(u)) <=> Answers(ToSet(Tail(u))), Line(k, "I", s, Tail(u), d)
    PROVE  Replied(k, a, o, s, u, d, td, tl, D, m)
<1> DEFINE e == Head(u)
<1>1. e.t = "evict" /\ L1Next(a, e) = "I" /\ L1Sends(C(k), a, e) = <<>>
  BY L1Table
<1>2. d \cup ToSet(L1Sends(C(k), a, e)) = d
  BY <1>1, Elements
<1>3. Access(k, "I", o, Tail(u), d, td, tl, D, m)
  BY DEF Access, One
<1> HIDE DEF e
<1>4. (IF e.t \in {"nack", "rd_bypass", "read", "write"} THEN o - 1 ELSE o) = o
  BY <1>1
<1> QED
  BY <1>1, <1>2, <1>3, <1>4 DEF Replied, e

\* An order to give a modified line up.
LEMMA ReplyWanted ==
    ASSUME Private, NEW k \in L2s, NEW o, NEW s, NEW d, NEW td, NEW tl, NEW D, NEW m,
           NEW t \in {"m_to_m", "dir_rd"}, NEW u, u = <<Order(t, k)>>,
           Access(k, "M", o, u, d, td, tl, D, m), d = {},
           NEW b, b = IF t = "m_to_m" THEN "I" ELSE "E",
           NEW x, x = IF t = "m_to_m" THEN Order("m_to_m", k) ELSE Answer(k, "evict"),
           Line(k, b, s, <<>>, {x})
    PROVE  Replied(k, "M", o, s, u, d, td, tl, D, m)
<1> DEFINE e == Head(u)
<1>1. e = Order(t, k) /\ Tail(u) = <<>>
  BY Short
<1>2. e.t = t /\ L1Next("M", e) = b /\ L1Sends(C(k), "M", e) = <<x>>
  BY <1>1, L1Table
<1>3. d \cup ToSet(L1Sends(C(k), "M", e)) = {x}
  BY <1>2, Elements
<1>4. x.rep
  BY DEF Order, Answer, Event
<1>5. ~Answers(ToSet(u)) /\ ~Answers(ToSet(Tail(u)))
  BY <1>1, Returning
<1>6. Access(k, b, o, <<>>, {x}, td, tl, D, m)
  BY <1>1, <1>4, <1>5 DEF Access, Requests, One
<1> HIDE DEF e
<1>7. (IF e.t \in {"nack", "rd_bypass", "read", "write"} THEN o - 1 ELSE o) = o
  BY <1>2
<1>8. <<x>> \in {<<Order("m_to_m", k)>>, <<Answer(k, "evict")>>}
  OBVIOUS
<1> QED
  BY <1>1, <1>2, <1>3, <1>6, <1>7, <1>8 DEF Replied, e

LEMMA ReplyAbsent ==
    ASSUME Private, NEW k \in L2s, NEW a, NEW o, NEW s, NEW u, NEW d, NEW td, NEW tl, NEW D, NEW m,
           Access(k, a, o, u, d, td, tl, D, m), Absent(k, a, s, u, d), u # <<>>
    PROVE  Replied(k, a, o, s, u, d, td, tl, D, m)
<1> DEFINE x == Drop(k)
           n == Answer(k, "nack")
           r == Answer(k, "read")
<1> HIDE DEF x, n, r
<1>1. /\ ~Answers(ToSet(<<>>)) /\ ~Answers(ToSet(<<x>>))
      /\ Answers(ToSet(<<n>>)) /\ Answers(ToSet(<<x, n>>)) /\ Answers(ToSet(<<n, x>>))
      /\ Answers(ToSet(<<r, x>>)) /\ Answers(ToSet(<<x, r, x>>))
  BY Returning DEF x, n, r
<1>2. \A b, v : Absent(k, b, s, v, d) => Line(k, b, s, v, d)
  BY DEF Line
<1>3. ASSUME NEW b, NEW v,
             \/ b = "I" /\ v \in {<<>>, <<x>>, <<n>>, <<x, n>>, <<n, x>>, <<r, x>>, <<x, r, x>>}
             \/ b = "E" /\ v = <<x>>
      PROVE  Line(k, b, s, v, d)
  BY <1>2, <1>3 DEF Absent, x, n, r
<1>4. CASE u = <<x>>
  <2>1. Head(u) = x /\ Tail(u) = <<>> /\ a # "M"
    BY <1>4, Short DEF Absent
  <2> QED
    BY <1>1, <1>3, <1>4, <2>1, ReplyDrop DEF x
<1>5. CASE u = <<n>> /\ a = "I"
  <2>1. Head(u) = n /\ Tail(u) = <<>>
    BY <1>5, Short
  <2> QED
    BY <1>1, <1>3, <1>5, <2>1, ReplyAnswer DEF n
<1>6. CASE u = <<x, n>> /\ a = "I"
  <2>1. Head(u) = x /\ Tail(u) = <<n>>
    BY <1>6, Short
  <2> QED
    BY <1>1, <1>3, <1>6, <2>1, ReplyDrop DEF x
<1>7. CASE u = <<n, x>> /\ a = "I"
  <2>1. Head(u) = n /\ Tail(u) = <<x>>
    BY <1>7, Short
  <2> QED
    BY <1>1, <1>3, <1>7, <2>1, ReplyAnswer DEF n
<1>8. CASE u = <<r, x>> /\ a = "I"
  <2>1. Head(u) = r /\ Tail(u) = <<x>>
    BY <1>8, Short
  <2> QED
    BY <1>1, <1>3, <1>8, <2>1, ReplyAnswer DEF r
<1>9. CASE u = <<x, r, x>> /\ a = "I"
  <2>1. Head(u) = x /\ Tail(u) = <<r, x>>
    BY <1>9, Short
  <2> QED
    BY <1>1, <1>3, <1>9, <2>1, ReplyDrop DEF x
<1> QED
  BY <1>4, <1>5, <1>6, <1>7, <1>8, <1>9 DEF Absent, x, n, r

LEMMA ReplyClean ==
    ASSUME Private, NEW k \in L2s, NEW a, NEW o, NEW s, NEW u, NEW d, NEW td, NEW tl, NEW D, NEW m,
           Access(k, a, o, u, d, td, tl, D, m), Clean(k, a, s, u, d), u # <<>>
    PROVE  Replied(k, a, o, s, u, d, td, tl, D, m)
<1> DEFINE x == Drop(k)
           n == Answer(k, "nack")
           r == Answer(k, "read")
<1> HIDE DEF x, n, r
<1>1. /\ ~Answers(ToSet(<<>>)) /\ Answers(ToSet(<<n>>)) /\ Answers(ToSet(<<r>>))
      /\ Answers(ToSet(<<x, r>>))
  BY Returning DEF x, n, r
<1>2. \A b, v : Clean(k, b, s, v, d) => Line(k, b, s, v, d)
  BY DEF Line
<1>3. ASSUME NEW b, NEW v, \/ b = "I" /\ v \in {<<>>, <<n>>, <<r>>, <<x, r>>}
                           \/ b = "E" /\ v = <<>>
      PROVE  Line(k, b, s, v, d)
  BY <1>2, <1>3 DEF Clean, x, n, r
<1>4. CASE u = <<n>> /\ a = "I"
  <2>1. Head(u) = n /\ Tail(u) = <<>>
    BY <1>4, Short
  <2> QED
    BY <1>1, <1>3, <1>4, <2>1, ReplyAnswer DEF n
<1>5. CASE u = <<r>> /\ a = "I"
  <2>1. Head(u) = r /\ Tail(u) = <<>>
    BY <1>5, Short
  <2> QED
    BY <1>1, <1>3, <1>5, <2>1, ReplyAnswer DEF r
<1>6. CASE u = <<x, r>> /\ a = "I"
  <2>1. Head(u) = x /\ Tail(u) = <<r>>
    BY <1>6, Short
  <2> QED
    BY <1>1, <1>3, <1>6, <2>1, ReplyDrop DEF x
<1> QED
  BY <1>4, <1>5, <1>6 DEF Clean, x, n, r

LEMMA ReplyModified ==
    ASSUME Private, NEW k \in L2s, NEW a, NEW o, NEW s, NEW u, NEW d, NEW td, NEW tl, NEW D, NEW m,
           Access(k, a, o, u, d, td, tl, D, m), Modified(k, a, s, u, d), u # <<>>
    PROVE  Replied(k, a, o, s, u, d, td, tl, D, m)
<1> DEFINE x == Drop(k)
           w == Answer(k, "write")
<1> HIDE DEF x, w
<1>1. ~Answers(ToSet(<<>>)) /\ Answers(ToSet(<<w>>)) /\ Answers(ToSet(<<x, w>>))
  BY Returning DEF x, w
<1>2. \A b, v : Modified(k, b, s, v, d) => Line(k, b, s, v, d)
  BY DEF Line
<1>3. ASSUME NEW b, NEW v, \/ b = "I" /\ v \in {<<w>>, <<x, w>>}
                           \/ b = "M" /\ v = <<>>
      PROVE  Line(k, b, s, v, d)
  BY <1>2, <1>3 DEF Modified, x, w
<1>4. CASE u = <<w>> /\ a = "I"
  <2>1. Head(u) = w /\ Tail(u) = <<>>
    BY <1>4, Short
  <2> QED
    BY <1>1, <1>3, <1>4, <2>1, ReplyAnswer DEF w
<1>5. CASE u = <<x, w>> /\ a = "I"
  <2>1. Head(u) = x /\ Tail(u) = <<w>>
    BY <1>5, Short
  <2> QED
    BY <1>1, <1>3, <1>5, <2>1, ReplyDrop DEF x
<1> QED
  BY <1>4, <1>5 DEF Modified, x, w

\* The two transient states in which L2 waits for its L1.
LEMMA ReplyMoving ==
    ASSUME Private, NEW k \in L2s, NEW a, NEW o, NEW s, NEW u, NEW d, NEW td, NEW tl, NEW D, NEW m,
           Access(k, a, o, u, d, td, tl, D, m),
           Leaving(k, a, s, u, d) \/ Fetching(k, a, s, u, d), u # <<>>
    PROVE  Replied(k, a, o, s, u, d, td, tl, D, m)
<1> DEFINE t == IF s.type = "tr_i" THEN "m_to_m" ELSE "dir_rd"
           x == Drop(k)
           w == Answer(k, "write")
           y == Order(t, k)
           b == IF t = "m_to_m" THEN "I" ELSE "E"
           z == IF t = "m_to_m" THEN Order("m_to_m", k) ELSE Answer(k, "evict")
<1>0. t \in {"m_to_m", "dir_rd"}
  OBVIOUS
<1>1. Wanted(k, a, u, t) /\ d = {}
  BY DEF Leaving, Fetching
<1>2. ASSUME NEW c, NEW v, Wanted(k, c, v, t) PROVE Line(k, c, s, v, d)
  BY <1>1, <1>2 DEF Leaving, Fetching, Line
<1>3. z.t = IF t = "m_to_m" THEN "m_to_m" ELSE "evict"
  BY L1Table
<1>4. Line(k, b, s, <<>>, {z})
  BY <1>3 DEF Leaving, Fetching, Line, Has
<1> HIDE DEF t, x, w, y, b, z
<1>5. ~Answers(ToSet(<<y>>)) /\ Answers(ToSet(<<w, y>>)) /\ Answers(ToSet(<<x, w, y>>))
  BY Returning DEF x, w, y
<1>6. /\ Wanted(k, "M", <<y>>, t) /\ Wanted(k, "I", <<w, y>>, t)
      /\ \/ a = "M" /\ u = <<y>>
         \/ a = "I" /\ u = <<w, y>>
         \/ a = "I" /\ u = <<x, w, y>>
  BY <1>1 DEF Wanted, x, w, y
<1>7. CASE a = "M" /\ u = <<y>>
  BY <1>0, <1>1, <1>4, <1>7, ReplyWanted DEF y, b, z
<1>8. CASE a = "I" /\ u = <<w, y>>
  <2>1. Head(u) = w /\ Tail(u) = <<y>>
    BY <1>8, Short
  <2> QED
    BY <1>2, <1>5, <1>6, <1>8, <2>1, ReplyAnswer DEF w
<1>9. CASE a = "I" /\ u = <<x, w, y>>
  <2>1. Head(u) = x /\ Tail(u) = <<w, y>>
    BY <1>9, Short
  <2> QED
    BY <1>2, <1>5, <1>6, <1>9, <2>1, ReplyDrop DEF x
<1> QED
  BY <1>6, <1>7, <1>8, <1>9

LEMMA ReplySound ==
    ASSUME Private, NEW k \in L2s, NEW a, NEW o, NEW s, NEW u, NEW d, NEW td, NEW tl, NEW D, NEW m,
           Sound(k, a, o, s, u, d, td, tl, D, m), u # <<>>
    PROVE  Replied(k, a, o, s, u, d, td, tl, D, m)
  BY ReplyAbsent, ReplyClean, ReplyModified, ReplyMoving DEF Sound, Line

-----------------------------------------------------------------------------
(* What an L2 does with the events it can get, by the state of its entry.   *)

Entries == [type : L2Types, l1l2 : L2Types, sharers : SUBSET L1s, pend : Evts \cup {NoEvent}]

Tells(k, t)   == {<<C(k), Answer(k, t)>>}
Commands(k, t) == {<<C(k), Order(t, k)>>}

\* Events are known by their fields.
LEMMA EventIs ==
    ASSUME NEW k, NEW e \in Events(k)
    PROVE  /\ e = Event(e.t, e.c, FALSE, k, e.rep)
           /\ e.c = C(k) /\ ~e.rep => e = Ask(k, e.t)
           /\ e.c = C(k) => \A t : As(e, t) = Answer(k, t)
           /\ e.c = NoL1 => \A t : As(e, t) = Order(t, k)
           /\ e.c = NoL1 /\ e.rep => e = Order(e.t, k)
           /\ e.c = C(k) /\ e.rep => e = Answer(k, e.t)
           /\ e.pf = FALSE /\ e.k = k
<1>1. e = [t |-> e.t, c |-> e.c, pf |-> e.pf, k |-> e.k, rep |-> e.rep]
  BY DEF Events
<1>2. e.pf = FALSE /\ e.k = k /\ e.rep \in BOOLEAN
  BY DEF Events
<1>3. e = Event(e.t, e.c, FALSE, k, e.rep)
  BY <1>1, <1>2 DEF Event
<1>4. \A t : As(e, t) = Event(t, e.c, FALSE, k, TRUE)
  <2> TAKE t
  <2> DEFINE b == [e EXCEPT !.t = t]
  <2>1. /\ b = [t |-> t, c |-> e.c, pf |-> e.pf, k |-> e.k, rep |-> e.rep]
        /\ As(e, t) = [b EXCEPT !.rep = TRUE]
    BY <1>1 DEF As
  <2> QED
    BY <1>2, <2>1 DEF Event
<1> QED
  BY <1>2, <1>3, <1>4 DEF Ask, Answer, Order

LEMMA EventFields ==
    ASSUME NEW k, NEW t
    PROVE  /\ Ask(k, t).t = t /\ Ask(k, t).c = C(k) /\ Ask(k, t).rep = FALSE
           /\ Ask(k, t).pf = FALSE /\ Ask(k, t).k = k
           /\ Answer(k, t).t = t /\ Answer(k, t).c = C(k) /\ Answer(k, t).rep = TRUE
           /\ Answer(k, t).pf = FALSE /\ Answer(k, t).k = k
           /\ Order(t, k).t = t /\ Order(t, k).c = NoL1 /\ Order(t, k).rep = TRUE
           /\ Order(t, k).pf = FALSE /\ Order(t, k).k = k
  BY DEF Ask, Answer, Order, Event

LEMMA EventTypes ==
    ASSUME NEW k, NEW t \in Kinds
    PROVE  Ask(k, t) \in Events(k) /\ Answer(k, t) \in Events(k) /\ Order(t, k) \in Events(k)
  BY DEF Ask, Answer, Order, Event, Events

LEMMA OneSharer == ASSUME NEW k PROVE Cardinality({C(k)}) = 1
  BY FS_Singleton

LEMMA OnReadTable ==
    ASSUME Private, NEW k \in L2s, NEW s \in Entries
    PROVE  LET e == Ask(k, "read")
           IN
           /\ s.type = "I" => OnRead(k, s, e) = Outcome(s, {}, <<e>>)
           /\ s.type \in {"E", "S"} /\ s.l1l2 = "E" /\ s.sharers = {C(k)}
                 => OnRead(k, s, e) = Outcome(s, Tells(k, "read"), <<>>)
           /\ s.type = "tr_m" => OnRead(k, s, e) = Outcome(s, Tells(k, "nack"), <<>>)
<1> DEFINE e == Ask(k, "read")
<1>1. /\ e.c = C(k) /\ e.pf = FALSE /\ e.t = "read" /\ e \in Events(k) /\ e.rep = FALSE
      /\ \A t : As(e, t) = Answer(k, t)
  <2>1. e.c = C(k) /\ e.pf = FALSE /\ e.t = "read" /\ e.rep = FALSE
    BY DEF Ask, Event
  <2>2. e \in Events(k)
    <3>1. "read" \in Kinds /\ "write" \in Kinds
      BY DEF Kinds, Data
    <3> QED
      BY <3>1, EventTypes
  <2> QED
    BY <2>1, <2>2, EventIs
<1> HIDE DEF e
<1>2. \A t : ToL1(e, t) = Tells(k, t)
  BY <1>1 DEF ToL1, Tells
<1>3. ToDir(e) = <<e>>
  BY <1>1 DEF ToDir, Events
<1>4. ASSUME s.type = "I" PROVE OnRead(k, s, e) = Outcome(s, {}, <<e>>)
  BY <1>1, <1>3, <1>4 DEF OnRead, Stable
<1>5. ASSUME s.type = "tr_m" PROVE OnRead(k, s, e) = Outcome(s, Tells(k, "nack"), <<>>)
  <2> DEFINE add == s.sharers \cup {e.c}
             x3 == Outcome([s EXCEPT !.sharers = add,
                                  !.l1l2 = CASE @ = "I" -> "E"
                                             [] @ = "E" /\ Cardinality(add) > 1 -> "S"
                                             [] OTHER -> @], ToL1(e, "read"), <<>>)
             x4 == CASE Cardinality(s.sharers) > 1 -> Abort(s)
                     [] s.sharers = {} -> Outcome([s EXCEPT !.l1l2 = "S", !.sharers = add],
                                                  ToL1(e, "read"), <<>>)
                     [] s.sharers = {e.c} -> Outcome(s, ToL1(e, "read"), <<>>)
                     [] OTHER -> Outcome([s EXCEPT !.l1l2 = "tr_s", !.sharers = {}],
                                         {<<c, As(e, "m_to_s")>> : c \in s.sharers}, <<>>)
  <2>1. OnRead(k, s, e) =
           CASE s.type = "I" -> Outcome(s, {}, ToDir(e))
             [] s.type # "I" /\ e.pf -> Outcome(s, {}, <<>>)
             [] s.type \in Stable /\ s.l1l2 \in {"I", "E", "S"} /\ ~e.pf -> x3
             [] s.type = "M" /\ s.l1l2 = "M" /\ ~e.pf -> x4
             [] OTHER -> IF Busy(s) THEN Outcome(s, ToL1(e, "nack"), <<>>) ELSE Abort(s)
    BY DEF OnRead
  <2> HIDE DEF x3, x4
  <2>2. Busy(s) /\ s.type \notin Stable
    BY <1>5 DEF Busy, Stable
  <2> QED
    BY <1>1, <1>2, <1>5, <2>1, <2>2
<1>6. ASSUME s.type \in {"E", "S"}, s.l1l2 = "E", s.sharers = {C(k)}
      PROVE  OnRead(k, s, e) = Outcome(s, Tells(k, "read"), <<>>)
  <2> DEFINE add == s.sharers \cup {e.c}
             s2 == [s EXCEPT !.sharers = add,
                             !.l1l2 = CASE @ = "I" -> "E"
                                        [] @ = "E" /\ Cardinality(add) > 1 -> "S"
                                        [] OTHER -> @]
  <2>1. add = {C(k)} /\ ~(Cardinality(add) > 1)
    BY <1>1, <1>6, OneSharer
  <2>2. s2 = s
    BY <1>6, <2>1 DEF Entries
  <2>3. OnRead(k, s, e) = Outcome(s2, ToL1(e, "read"), <<>>)
    BY <1>1, <1>6 DEF OnRead, Stable
  <2> QED
    BY <1>2, <2>2, <2>3
<1> QED
  BY <1>4, <1>5, <1>6 DEF e

LEMMA OnWriteTable ==
    ASSUME Private, NEW k \in L2s, NEW s \in Entries
    PROVE  LET e == Ask(k, "write")
           IN
           /\ s.type = "I" => OnWrite(k, s, e) = Outcome(s, {}, <<e>>)
           /\ s.type = "E" /\ s.sharers = {C(k)}
                 => OnWrite(k, s, e) = Outcome(Entry("tr_m", s.l1l2, s.sharers, s.pend), {}, <<e>>)
           /\ s.type = "S" /\ s.sharers = {C(k)}
                 => OnWrite(k, s, e) = Outcome(Entry("I", s.l1l2, {}, s.pend), {}, <<e>>)
           /\ s.type = "tr_m" => OnWrite(k, s, e) = Outcome(s, Tells(k, "nack"), <<>>)
<1> DEFINE e == Ask(k, "write")
<1>1. /\ e.c = C(k) /\ e.pf = FALSE /\ e.t = "write" /\ e \in Events(k) /\ e.rep = FALSE
      /\ \A t : As(e, t) = Answer(k, t)
  <2>1. e.c = C(k) /\ e.pf = FALSE /\ e.t = "write" /\ e.rep = FALSE
    BY DEF Ask, Event
  <2>2. e \in Events(k)
    <3>1. "read" \in Kinds /\ "write" \in Kinds
      BY DEF Kinds, Data
    <3> QED
      BY <3>1, EventTypes
  <2> QED
    BY <2>1, <2>2, EventIs
<1> HIDE DEF e
<1>2. \A t : ToL1(e, t) = Tells(k, t)
  BY <1>1 DEF ToL1, Tells
<1>3. ToDir(e) = <<e>>
  BY <1>1 DEF ToDir, Events
<1>4. s.type = "I" => OnWrite(k, s, e) = Outcome(s, {}, <<e>>)
  BY <1>3 DEF OnWrite
<1>5. ASSUME s.type = "tr_m" PROVE OnWrite(k, s, e) = Outcome(s, Tells(k, "nack"), <<>>)
  BY <1>1, <1>2, <1>5 DEF OnWrite, Busy
<1>6. ASSUME s.type = "E", s.sharers = {C(k)}
      PROVE  OnWrite(k, s, e) = Outcome(Entry("tr_m", s.l1l2, s.sharers, s.pend), {}, <<e>>)
  <2>1. [s EXCEPT !.type = "tr_m"] = Entry("tr_m", s.l1l2, s.sharers, s.pend)
    BY DEF Entries, Entry
  <2> QED
    BY <1>1, <1>3, <1>6, <2>1 DEF OnWrite
<1>7. ASSUME s.type = "S", s.sharers = {C(k)}
      PROVE  OnWrite(k, s, e) = Outcome(Entry("I", s.l1l2, {}, s.pend), {}, <<e>>)
  <2> DEFINE s2 == [s EXCEPT !.type = IF s.sharers # {} THEN "I" ELSE @, !.sharers = {}]
  <2>1. s2 = Entry("I", s.l1l2, {}, s.pend)
    <3> DEFINE s1 == [s EXCEPT !.type = IF s.sharers # {} THEN "I" ELSE @]
    <3>1. s1 = Entry("I", s.l1l2, s.sharers, s.pend)
      BY <1>7 DEF Entries, Entry
    <3>2. s2 = [s1 EXCEPT !.sharers = {}]
      OBVIOUS
    <3> HIDE DEF s1
    <3> QED
      BY <3>1, <3>2 DEF Entry
  <2>2. Evicts(k, s.sharers \ {e.c}) = {}
    BY <1>1, <1>7 DEF Evicts
  <2>3. OnWrite(k, s, e) = Outcome(s2, Evicts(k, s.sharers \ {e.c}), ToDir(e))
    BY <1>1, <1>7 DEF OnWrite
  <2> QED
    BY <1>3, <2>1, <2>2, <2>3
<1> QED
  BY <1>4, <1>5, <1>6, <1>7 DEF e

LEMMA Renamed ==
    ASSUME NEW k, NEW t, NEW v
    PROVE  As(Order(t, k), v) = Order(v, k) /\ As(Answer(k, t), v) = Answer(k, v)
<1>1. ASSUME NEW c PROVE As(Event(t, c, FALSE, k, TRUE), v) = Event(v, c, FALSE, k, TRUE)
  <2> DEFINE e == Event(t, c, FALSE, k, TRUE)
  <2>1. /\ e = [t |-> e.t, c |-> e.c, pf |-> e.pf, k |-> e.k, rep |-> e.rep]
        /\ e.c = c /\ e.pf = FALSE /\ e.k = k
    BY DEF Event
  <2> HIDE DEF e
  <2> DEFINE b == [e EXCEPT !.t = v]
  <2>2. /\ b = [t |-> v, c |-> e.c, pf |-> e.pf, k |-> e.k, rep |-> e.rep]
        /\ As(e, v) = [b EXCEPT !.rep = TRUE]
    BY <2>1 DEF As
  <2>3. As(e, v) = Event(v, c, FALSE, k, TRUE)
    BY <2>1, <2>2 DEF Event
  <2> QED
    BY <2>3 DEF e
<1> QED
  BY <1>1 DEF Order, Answer

\* The answers of an L1.
LEMMA OnL1Table ==
    ASSUME Private, NEW k \in L2s, NEW s \in Entries
    PROVE  /\ s.type = "tr_i" /\ s.l1l2 = "tr_i" /\ s.pend # NoEvent
                 => OnMoved(k, s, Order("m_to_m", k)) = Outcome(NoEntry, {}, <<s.pend>>)
           /\ s.type = "tr_s" =>
                 OnEvict(k, s, Answer(k, "evict")) =
                    Outcome(Entry("S", s.l1l2, s.sharers \cup {C(k)}, NoEvent), {}, <<s.pend>>)
<1>1. ASSUME s.type = "tr_i", s.l1l2 = "tr_i", s.pend # NoEvent
      PROVE  OnMoved(k, s, Order("m_to_m", k)) = Outcome(NoEntry, {}, <<s.pend>>)
  BY <1>1 DEF OnMoved
<1>2. ASSUME s.type = "tr_s"
      PROVE OnEvict(k, s, Answer(k, "evict")) =
               Outcome(Entry("S", s.l1l2, s.sharers \cup {C(k)}, NoEvent), {}, <<s.pend>>)
  <2>1. Answer(k, "evict").c = C(k)
    BY EventFields
  <2> QED
    BY <1>2, <2>1 DEF OnEvict
<1> QED
  BY <1>1, <1>2

\* The answers of the directory.
LEMMA OnAnswerTable ==
    ASSUME Private, NEW k \in L2s, NEW s \in Entries
    PROVE  /\ OnNack(k, s, Answer(k, "nack")) = Outcome(s, Tells(k, "nack"), <<>>)
           /\ s.type = "tr_m" /\ s.sharers = {C(k)} =>
                 OnWriteNd(k, s, Answer(k, "write_nd")) =
                    Outcome(Entry("M", "M", {C(k)}, s.pend), Tells(k, "write"), <<Order("e_to_m", k)>>)
           /\ s.type = "I" /\ s.sharers = {} =>
                 /\ OnData(k, s, Answer(k, "e_rd")) =
                       Outcome(Entry("E", "E", {C(k)}, s.pend), Tells(k, "read"), <<>>)
                 /\ OnData(k, s, Answer(k, "s_rd")) =
                       Outcome(Entry("S", "E", {C(k)}, s.pend), Tells(k, "read"), <<>>)
                 /\ OnData(k, s, Answer(k, "write")) =
                       Outcome(Entry("M", "M", {C(k)}, s.pend), Tells(k, "write"), <<>>)
<1>2. \A t : Answer(k, t).t = t /\ Answer(k, t).c = C(k) /\ Answer(k, t).pf = FALSE
  BY DEF Answer, Event
<1>1. ASSUME NEW t PROVE \A v : ToL1(Answer(k, t), v) = Tells(k, v)
  BY <1>2, Renamed DEF ToL1, Tells
<1>3. OnNack(k, s, Answer(k, "nack")) = Outcome(s, Tells(k, "nack"), <<>>)
  BY <1>1 DEF OnNack
<1>4. ASSUME s.type = "tr_m", s.sharers = {C(k)}
      PROVE  OnWriteNd(k, s, Answer(k, "write_nd")) =
                    Outcome(Entry("M", "M", {C(k)}, s.pend), Tells(k, "write"), <<Order("e_to_m", k)>>)
  <2> DEFINE r == Answer(k, "write_nd")
  <2>1. r.c = C(k) /\ ToL1(r, "write") = Tells(k, "write")
    BY <1>1, <1>2
  <2> HIDE DEF r
  <2>2. Evicts(k, s.sharers \ {r.c}) \cup ToL1(r, "write") = Tells(k, "write")
    BY <1>4, <2>1 DEF Evicts
  <2>3. OnWriteNd(k, s, r) = Outcome(Entry("M", "M", {r.c}, s.pend),
                                     Evicts(k, s.sharers \ {r.c}) \cup ToL1(r, "write"),
                                     <<Order("e_to_m", k)>>)
    BY <1>4 DEF OnWriteNd
  <2> QED
    BY <2>1, <2>2, <2>3 DEF r
<1>5. ASSUME s.type = "I", s.sharers = {}, NEW t \in Data
      PROVE  OnData(k, s, Answer(k, t)) =
               Outcome(Entry(IF t = "e_rd" THEN "E" ELSE IF t = "s_rd" THEN "S" ELSE "M",
                             IF t = "write" THEN "M" ELSE "E", {C(k)}, s.pend),
                       Tells(k, IF t = "write" THEN "write" ELSE "read"), <<>>)
  <2> DEFINE r == Answer(k, t)
             w == IF t = "write" THEN "write" ELSE "read"
  <2>1. r.c = C(k) /\ r.t = t /\ r.pf = FALSE /\ ToL1(r, w) = Tells(k, w)
    BY <1>1, <1>2
  <2> HIDE DEF r
  <2>2. Evicts(k, {}) \cup ToL1(r, w) = Tells(k, w)
    BY <2>1 DEF Evicts
  <2>3. {} \cup {r.c} = {C(k)}
    BY <2>1
  <2>4. OnData(k, s, r) =
          Outcome(Entry(IF t = "e_rd" THEN "E" ELSE IF t = "s_rd" THEN "S" ELSE "M",
                        IF t = "write" THEN "M" ELSE "E", {} \cup {r.c}, s.pend),
                  Evicts(k, {}) \cup ToL1(r, w), <<>>)
    BY <1>5, <2>1 DEF OnData, Data
  <2> QED
    BY <2>2, <2>3, <2>4 DEF r
<1>6. \A t \in Data : t \in {"e_rd", "s_rd", "write"}
  BY DEF Data
<1>7. "e_rd" \in Data /\ "s_rd" \in Data /\ "write" \in Data
  BY DEF Data
<1> QED
  BY <1>3, <1>4, <1>5, <1>7

\* The orders of the directory.
LEMMA OnOrderTable ==
    ASSUME Private, NEW k \in L2s, NEW s \in Entries
    PROVE  /\ \A t \in Sharing :
                 /\ s.type = "I" => OnToShared(k, s, Order(t, k)) =
                        Outcome(s, {}, <<Order(IF t = "e_to_s" THEN "e_to_s_nd" ELSE "s_to_s_nd", k)>>)
                 /\ s.type \in {"E", "S", "tr_m"} => OnToShared(k, s, Order(t, k)) =
                        Outcome(Entry("S", s.l1l2, s.sharers, s.pend), {}, <<Order(t, k)>>)
           /\ s.type = "I" => OnDirRd(k, s, Order("dir_rd", k)) =
                        Outcome(s, {}, <<Order("dir_rd_nd", k)>>)
           /\ s.type = "M" /\ s.l1l2 = "M" /\ s.sharers = {C(k)} => OnDirRd(k, s, Order("dir_rd", k)) =
                        Outcome(Entry("tr_s", "E", {}, Order("dir_rd", k)), Commands(k, "dir_rd"), <<>>)
           /\ \A t \in Dropping :
                 /\ s.type = "I" => OnInvalidate(k, s, Order(t, k)) =
                        Outcome(s, {}, <<Order("invalidate_nd", k)>>)
                 /\ s.type \in {"E", "S", "tr_m"} /\ s.l1l2 = "E" /\ s.sharers = {C(k)} =>
                        OnInvalidate(k, s, Order(t, k)) =
                           Outcome(NoEntry, Commands(k, "evict"), <<Order(t, k)>>)
                 /\ s.type = "M" /\ s.l1l2 = "M" /\ s.sharers = {C(k)} =>
                        OnInvalidate(k, s, Order(t, k)) =
                           Outcome(Entry("tr_i", "tr_i", {}, Order(t, k)), Commands(k, "m_to_m"), <<>>)
<1>1. \A t : Order(t, k).t = t
  BY DEF Order, Event
<1>2. \A t, v : As(Order(t, k), v) = Order(v, k)
  BY Renamed
<1>3. [s EXCEPT !.type = "S"] = Entry("S", s.l1l2, s.sharers, s.pend)
  BY DEF Entries, Entry
<1>4. \A t : s.sharers = {C(k)} => {<<c, Order(t, k)>> : c \in s.sharers} = Commands(k, t)
  BY DEF Commands
<1>5. s.sharers = {C(k)} => Cardinality(s.sharers) = 1
  BY OneSharer
<1>6. ASSUME NEW t \in Sharing
      PROVE  /\ s.type = "I" => OnToShared(k, s, Order(t, k)) =
                    Outcome(s, {}, <<Order(IF t = "e_to_s" THEN "e_to_s_nd" ELSE "s_to_s_nd", k)>>)
             /\ s.type \in {"E", "S", "tr_m"} => OnToShared(k, s, Order(t, k)) =
                    Outcome(Entry("S", s.l1l2, s.sharers, s.pend), {}, <<Order(t, k)>>)
  BY <1>1, <1>2, <1>3 DEF OnToShared, Sharing
<1>7. s.type = "I" => OnDirRd(k, s, Order("dir_rd", k)) = Outcome(s, {}, <<Order("dir_rd_nd", k)>>)
  BY <1>2 DEF OnDirRd
<1>8. ASSUME s.type = "M", s.l1l2 = "M", s.sharers = {C(k)}
      PROVE  OnDirRd(k, s, Order("dir_rd", k)) =
                    Outcome(Entry("tr_s", "E", {}, Order("dir_rd", k)), Commands(k, "dir_rd"), <<>>)
  BY <1>2, <1>4, <1>5, <1>8 DEF OnDirRd
<1>9. ASSUME NEW t \in Dropping, s.type = "I"
      PROVE  OnInvalidate(k, s, Order(t, k)) = Outcome(s, {}, <<Order("invalidate_nd", k)>>)
  BY <1>2, <1>9 DEF OnInvalidate
<1>10. ASSUME NEW t \in Dropping, s.type \in {"E", "S", "tr_m"}, s.l1l2 = "E", s.sharers = {C(k)}
       PROVE  OnInvalidate(k, s, Order(t, k)) = Outcome(NoEntry, Commands(k, "evict"), <<Order(t, k)>>)
  <2>1. Evicts(k, s.sharers) = Commands(k, "evict")
    BY <1>4, <1>10 DEF Evicts
  <2> QED
    BY <1>1, <1>2, <1>10, <2>1 DEF OnInvalidate
<1>11. ASSUME NEW t \in Dropping, s.type = "M", s.l1l2 = "M", s.sharers = {C(k)}
       PROVE  OnInvalidate(k, s, Order(t, k)) =
                Outcome(Entry("tr_i", "tr_i", {}, Order(t, k)), Commands(k, "m_to_m"), <<>>)
  BY <1>1, <1>2, <1>4, <1>5, <1>11 DEF OnInvalidate
<1> QED
  BY <1>6, <1>7, <1>8, <1>9, <1>10, <1>11

-----------------------------------------------------------------------------
(* An L2 serves an event of its L1.                                        *)

\* The queues as sets.
Sets(k, d, td, tl) ==
    /\ d \subseteq DnEvents(k) /\ td \subseteq DirEvents(k) /\ tl \subseteq L2Events(k)
    /\ \A x, y \in d : (x.rep <=> y.rep) => x = y
    /\ \A x, y \in td : (x.rep <=> y.rep) => x = y
    /\ \A x, y \in tl : x.c = y.c => x = y

\* L2 k, with entry s and events tl0 from the directory, has handled an event
\* with outcome q: the other events are d, td and tl.
Served(k, q, a, o, s, u, d, td, tl0, tl, D, m) ==
    LET td2 == td \cup ToSet(q.downs)
    IN  /\ q.fatal = FALSE /\ q.entry \in Entries
        /\ \E v : /\ \/ q.ups = {} /\ v = u
                     \/ \E x \in Events(k) : q.ups = {<<C(k), x>>} /\ v = Append(u, x)
                  /\ Sound(k, a, o, q.entry, v, d, td2, tl, D, m)
        /\ \/ q.downs = <<>>
           \/ \E y \in DirEvents(k) : q.downs = <<y>> /\ \A x \in td : ~(x.rep <=> y.rep)
        /\ D.type \in {"tr_s", "m_s"} => (Owes(q.entry, td2, tl) <=> Owes(s, td, tl0))
        /\ Has(tl0, "write_nd") \/ Has(td, "e_to_m") => Has(tl, "write_nd") \/ Has(td2, "e_to_m")

LEMMA Added ==
    ASSUME NEW S, NEW y
    PROVE  /\ \A t : Has(S \cup {y}, t) <=> Has(S, t) \/ y.t = t
           /\ Answers(S \cup {y}) <=> Answers(S) \/ y.c # NoL1
           /\ Asks(S \cup {y}) <=> Asks(S) \/ y.c = NoL1
           /\ Replies(S \cup {y}) <=> Replies(S) \/ y.rep
           /\ Requests(S \cup {y}) <=> Requests(S) \/ ~y.rep
  BY DEF Has, Answers, Asks, Replies, Requests

\* What the events of the queues are.
LEMMA SetFacts ==
    ASSUME Private, NEW k \in L2s, NEW d, NEW td, NEW tl, Sets(k, d, td, tl)
    PROVE  /\ \A t \in Data \cup {"nack", "write_nd"} : Has(tl, t) => Answers(tl)
           /\ Has(d, "m_to_m") \/ Has(d, "evict") => Replies(d)
           /\ Has(td, "read") \/ Has(td, "write") => Requests(td)
           /\ Requests(td) => Has(td, "read") \/ Has(td, "write")
           /\ Has(td, "e_to_m") => Replies(td)
<1>1. C(k) # NoL1
  BY OwnL1
<1>2. ASSUME NEW e \in tl, e.t \in Data \cup {"nack", "write_nd"} PROVE e.c # NoL1
  BY <1>1, <1>2 DEF Sets, L2Events, Data, Sharing, Dropping
<1>3. ASSUME NEW e \in d, e.t \in {"m_to_m", "evict"} PROVE e.rep
  BY <1>3 DEF Sets, DnEvents, Request
<1>4. ASSUME NEW e \in td, e.t \in {"read", "write"} PROVE ~e.rep
  BY <1>4 DEF Sets, DirEvents, Request, Shared, Fetched, Dropping
<1>5. ASSUME NEW e \in td, ~e.rep PROVE e.t \in {"read", "write"}
  BY <1>5 DEF Sets, DirEvents, Request
<1>6. ASSUME NEW e \in td, e.t = "e_to_m" PROVE e.rep
  BY <1>6 DEF Sets, DirEvents, Request
<1> QED
  BY <1>2, <1>3, <1>4, <1>5, <1>6 DEF Has, Answers, Replies, Requests

\* Taking the request out of the events of an L1.
LEMMA RequestTaken ==
    ASSUME NEW k, NEW d, NEW td, NEW tl, Sets(k, d, td, tl), NEW e \in d, ~e.rep, ~Replies(d)
    PROVE  d \ {e} = {} /\ Requests(d) /\ ~Requests(d \ {e}) /\ ~Replies(d \ {e})
  BY DEF Sets, Requests, Replies

\* L2 passes a request on to the directory; its entry becomes s2.
LEMMA PassOn ==
    ASSUME Private, NEW k \in L2s, NEW a, NEW o, NEW s, NEW u, NEW d, NEW td, NEW tl, NEW D, NEW m,
           Sound(k, a, o, s, u, d, td, tl, D, m), Sets(k, d, td, tl),
           NEW e \in d, ~e.rep, ~Replies(d), e.t \in {"read", "write"},
           NEW s2 \in Entries, s2.pend = s.pend,
           Line(k, a, s2, u, {}),
           \/ s2 = s /\ s.type = "I"
           \/ e.t = "write" /\ s.type = "E" /\ s2.type = "tr_m"
           \/ e.t = "write" /\ s.type = "S" /\ s2.type = "I"
    PROVE  /\ Sound(k, a, o, s2, u, d \ {e}, td \cup {e}, tl, D, m)
           /\ \A x \in td : ~(x.rep <=> e.rep)
           /\ Owes(s2, td \cup {e}, tl) <=> Owes(s, td, tl)
<1>1. d \ {e} = {} /\ Requests(d) /\ ~Requests(d \ {e})
  BY RequestTaken
<1>2. ~Requests(td) /\ ~Answers(tl) /\ ~Answers(ToSet(u)) /\ D.pend.k # k /\ o = 1
  BY <1>1 DEF Sound, Access, One
<1>3. \A x \in td : ~(x.rep <=> e.rep)
  <2>1. \A x \in td : x.rep
    BY <1>2 DEF Requests
  <2> QED
    BY <2>1
<1>4. /\ \A t : Has(td \cup {e}, t) <=> Has(td, t) \/ e.t = t
      /\ Replies(td \cup {e}) <=> Replies(td)
      /\ Requests(td \cup {e})
  BY Added
<1>5. Owes(s2, td \cup {e}, tl) <=> Owes(s, td, tl)
  BY <1>4 DEF Owes
<1>6. Access(k, a, o, u, d \ {e}, td \cup {e}, tl, D, m)
  BY <1>1, <1>2, <1>4 DEF Sound, Access, One
<1>7. ~Has(tl, "e_rd") /\ ~Has(tl, "s_rd") /\ ~Has(tl, "write") /\ ~Has(tl, "write_nd")
  BY <1>2, SetFacts DEF Data
<1>8. ~Has(td, "read") /\ ~Has(td, "write")
  BY <1>2, SetFacts
<1>9. /\ Holds(k, s, td, tl, D, m) /\ Gets(k, s, tl, D, m)
      /\ Wishes(k, s, td, tl, D) /\ Obeys(k, s, td, tl, D, m)
  BY DEF Sound, Place
<1>10. Holds(k, s2, td \cup {e}, tl, D, m)
  BY <1>4, <1>9 DEF Holds
<1>11. Gets(k, s2, tl, D, m)
  BY <1>7 DEF Gets
<1>12. Wishes(k, s2, td \cup {e}, tl, D)
  <2>1. s.type = "S" => D.type # "E"
    BY <1>9 DEF Holds, Sharer
  <2> QED
    BY <1>2, <1>4, <1>7, <1>8, <1>9, <2>1 DEF Wishes
<1>13. Obeys(k, s2, td \cup {e}, tl, D, m)
  BY <1>4, <1>5, <1>9 DEF Obeys
<1> QED
  BY <1>1, <1>3, <1>5, <1>6, <1>10, <1>11, <1>12, <1>13 DEF Sound, Place

\* L2 answers a request at once.
LEMMA AnswerNow ==
    ASSUME Private, NEW k \in L2s, NEW a, NEW o, NEW s \in Entries, NEW u, NEW d, NEW td, NEW tl,
           NEW D, NEW m, Sound(k, a, o, s, u, d, td, tl, D, m), Sets(k, d, td, tl),
           NEW e \in d, ~e.rep, Clean(k, a, s, u, d), NEW t \in {"nack", "read"}
    PROVE  Served(k, Outcome(s, Tells(k, t), <<>>), a, o, s, u, d \ {e}, td, tl, tl, D, m)
<1>0. ~Replies(d)
  BY DEF Clean
<1>1. d \ {e} = {} /\ Requests(d) /\ ~Requests(d \ {e}) /\ ~Replies(d \ {e})
  BY <1>0, RequestTaken
<1>2. ~Answers(ToSet(u)) /\ o = 1 /\ a = "I"
  BY <1>1 DEF Sound, Access, One
<1>3. u = <<>>
  BY <1>2, Returning DEF Clean
<1> DEFINE x == Answer(k, t)
           q == Outcome(s, Tells(k, t), <<>>)
<1>4. x \in Events(k)
  <2>1. t \in Kinds
    BY DEF Kinds
  <2> QED
    BY <2>1, EventTypes
<1>5. Append(u, x) = <<x>>
  BY <1>3, Short
<1>6. Answers(ToSet(<<x>>))
  BY Returning
<1>7. Access(k, a, o, <<x>>, d \ {e}, td, tl, D, m)
  BY <1>1, <1>2, <1>6 DEF Sound, Access, One
<1>8. Line(k, a, s, <<x>>, d \ {e})
  BY <1>1, <1>2 DEF Clean, Line
<1>9. Sound(k, a, o, s, <<x>>, d \ {e}, td, tl, D, m)
  BY <1>7, <1>8 DEF Sound
<1>10. q.ups = {<<C(k), x>>} /\ q.downs = <<>> /\ q.entry = s /\ q.fatal = FALSE
  BY DEF Outcome, Tells
<1>11. td \cup ToSet(<<>>) = td
  BY Elements
<1> HIDE DEF x, q
<1>12. Served(k, q, a, o, s, u, d \ {e}, td, tl, tl, D, m)
  BY <1>4, <1>5, <1>9, <1>10, <1>11 DEF Served
<1> QED
  BY <1>12 DEF q

\* L2 passes a request on.
LEMMA PassedOn ==
    ASSUME Private, NEW k \in L2s, NEW a, NEW o, NEW s, NEW u, NEW d, NEW td, NEW tl, NEW D, NEW m,
           Sound(k, a, o, s, u, d, td, tl, D, m), Sets(k, d, td, tl),
           NEW e \in d, ~e.rep, ~Replies(d),
           NEW s2 \in Entries, s2.pend = s.pend, Line(k, a, s2, u, {}),
           \/ s2 = s /\ s.type = "I"
           \/ e.t = "write" /\ s.type = "E" /\ s2.type = "tr_m"
           \/ e.t = "write" /\ s.type = "S" /\ s2.type = "I"
    PROVE  Served(k, Outcome(s2, {}, <<e>>), a, o, s, u, d \ {e}, td, tl, tl, D, m)
<1> DEFINE q == Outcome(s2, {}, <<e>>)
<1>1. e.t \in {"read", "write"} /\ e \in DirEvents(k)
  BY DEF Sets, DnEvents, DirEvents, Request
<1>2. /\ Sound(k, a, o, s2, u, d \ {e}, td \cup {e}, tl, D, m)
      /\ \A x \in td : ~(x.rep <=> e.rep)
      /\ Owes(s2, td \cup {e}, tl) <=> Owes(s, td, tl)
  BY <1>1, PassOn
<1>3. q.ups = {} /\ q.downs = <<e>> /\ q.entry = s2 /\ q.fatal = FALSE
  BY DEF Outcome
<1>4. td \cup ToSet(<<e>>) = td \cup {e}
  BY Elements
<1>5. Has(td, "e_to_m") => Has(td \cup {e}, "e_to_m")
  BY DEF Has
<1> HIDE DEF q
<1>6. Served(k, q, a, o, s, u, d \ {e}, td, tl, tl, D, m)
  BY <1>1, <1>2, <1>3, <1>4, <1>5 DEF Served
<1> QED
  BY <1>6 DEF q

\* CacheL2: a read or write of its L1.
LEMMA RequestServed ==
    ASSUME Private, NEW k \in L2s, NEW a, NEW o, NEW s \in Entries, NEW u, NEW d, NEW td, NEW tl,
           NEW D, NEW m, Sound(k, a, o, s, u, d, td, tl, D, m), Sets(k, d, td, tl),
           NEW e \in d, ~e.rep, ~Replies(d)
    PROVE  /\ e = Ask(k, "read") =>
                 Served(k, OnRead(k, s, e), a, o, s, u, d \ {e}, td, tl, tl, D, m)
           /\ e = Ask(k, "write") =>
                 Served(k, OnWrite(k, s, e), a, o, s, u, d \ {e}, td, tl, tl, D, m)
<1>1. Absent(k, a, s, u, d) \/ Clean(k, a, s, u, d)
  <2>1. ~Has(d, "m_to_m") /\ ~Has(d, "evict") /\ d # {}
    BY SetFacts
  <2> QED
    BY <2>1 DEF Sound, Line, Modified, Leaving, Fetching
<1>2. CASE Absent(k, a, s, u, d)
  <2>1. s.type = "I" /\ Line(k, a, s, u, {})
    BY <1>2 DEF Absent, Line, Replies
  <2>2. Served(k, Outcome(s, {}, <<e>>), a, o, s, u, d \ {e}, td, tl, tl, D, m)
    BY <2>1, PassedOn
  <2> QED
    BY <2>1, <2>2, OnReadTable, OnWriteTable
<1>3. CASE Clean(k, a, s, u, d)
  <2>1. s.type \in {"E", "S", "tr_m"} /\ s.l1l2 = "E" /\ s.sharers = {C(k)} /\ s.pend = NoEvent
    BY <1>3 DEF Clean
  <2>2. \A t \in {"nack", "read"} :
            Served(k, Outcome(s, Tells(k, t), <<>>), a, o, s, u, d \ {e}, td, tl, tl, D, m)
    BY <1>3, AnswerNow
  <2>3. e = Ask(k, "read") => Served(k, OnRead(k, s, e), a, o, s, u, d \ {e}, td, tl, tl, D, m)
    BY <2>1, <2>2, OnReadTable
  <2>4. u = <<>> /\ a = "I"
    <3>1. Requests(d)
      BY DEF Requests
    <3>2. ~Answers(ToSet(u)) /\ a = "I"
      BY <3>1 DEF Sound, Access, One
    <3> QED
      BY <1>3, <3>2, Returning DEF Clean
  <2>5. ASSUME e = Ask(k, "write"), s.type = "E"
        PROVE  Served(k, OnWrite(k, s, e), a, o, s, u, d \ {e}, td, tl, tl, D, m)
    <3> DEFINE s2 == Entry("tr_m", s.l1l2, s.sharers, s.pend)
    <3>1. s2 \in Entries /\ s2.type = "tr_m" /\ s2.pend = s.pend
      BY DEF Entry, Entries, L2Types
    <3>2. Line(k, a, s2, u, {})
      BY <2>1, <2>4 DEF Line, Clean, Entry, Replies
    <3>3. e.t = "write"
      BY <2>5 DEF Ask, Event
    <3> HIDE DEF s2
    <3>4. Served(k, Outcome(s2, {}, <<e>>), a, o, s, u, d \ {e}, td, tl, tl, D, m)
      BY <2>5, <3>1, <3>2, <3>3, PassedOn
    <3>5. OnWrite(k, s, e) = Outcome(s2, {}, <<e>>)
      BY <2>1, <2>5, OnWriteTable DEF s2
    <3> QED
      BY <3>4, <3>5
  <2>6. ASSUME e = Ask(k, "write"), s.type = "S"
        PROVE  Served(k, OnWrite(k, s, e), a, o, s, u, d \ {e}, td, tl, tl, D, m)
    <3> DEFINE s2 == Entry("I", s.l1l2, {}, s.pend)
    <3>1. s2 \in Entries /\ s2.type = "I" /\ s2.pend = s.pend
      BY DEF Entry, Entries, L2Types
    <3>2. Line(k, a, s2, u, {})
      BY <2>1, <2>4 DEF Line, Absent, Entry, Replies
    <3>3. e.t = "write"
      BY <2>6 DEF Ask, Event
    <3> HIDE DEF s2
    <3>4. Served(k, Outcome(s2, {}, <<e>>), a, o, s, u, d \ {e}, td, tl, tl, D, m)
      BY <2>6, <3>1, <3>2, <3>3, PassedOn
    <3>5. OnWrite(k, s, e) = Outcome(s2, {}, <<e>>)
      BY <2>1, <2>6, OnWriteTable DEF s2
    <3> QED
      BY <3>4, <3>5
  <2>7. ASSUME e = Ask(k, "write"), s.type = "tr_m"
        PROVE  Served(k, OnWrite(k, s, e), a, o, s, u, d \ {e}, td, tl, tl, D, m)
    <3>1. Served(k, Outcome(s, Tells(k, "nack"), <<>>), a, o, s, u, d \ {e}, td, tl, tl, D, m)
      BY <2>2
    <3>2. OnWrite(k, s, e) = Outcome(s, Tells(k, "nack"), <<>>)
      BY <2>7, OnWriteTable
    <3> QED
      BY <3>1, <3>2
  <2> QED
    BY <2>1, <2>3, <2>5, <2>6, <2>7
<1> QED
  BY <1>1, <1>2, <1>3

\* An answer of type w fits the order the directory waits for, when L2 k's entry is
\* s2 then.
Fits(k, w, s2, D) ==
    /\ s2.pend = NoEvent /\ k \in D.sharers
    /\ \/ w \in Shared /\ D.type = "tr_s" /\ s2.type \in {"I", "S"}
       \/ w \in Fetched /\ D.type = "m_s" /\ D.sharers = {k} /\ s2.type \in {"I", "S"}
       \/ w \in Dropping /\ D.type = "tr_m" /\ Waits(D) /\ s2.type = "I"

\* Nothing but a nack or orders is left in tl.
Empty(tl) == ~Asks(tl) /\ \A t \in Data \cup {"write_nd"} : ~Has(tl, t)

Settled(k, s2, td, y, tl, D, m) ==
    /\ Place(k, s2, td \cup {y}, tl, D, m) /\ Owes(s2, td \cup {y}, tl)
    /\ \A x \in td : ~(x.rep <=> y.rep)
    /\ Requests(td \cup {y}) <=> Requests(td)

\* L2 answers an order of the directory; its entry becomes s2 and the events from
\* the directory tl2.
LEMMA Paid ==
    ASSUME Private, NEW k \in L2s, NEW s, NEW td, NEW tl, NEW D, NEW m, Place(k, s, td, tl, D, m),
           NEW t, NEW s2, Fits(k, t, s2, D), s2.type = "S" => s.type # "I",
           NEW tl2, Empty(tl2), ~Replies(td), NEW y, y = Order(t, k)
    PROVE  Settled(k, s2, td, y, tl2, D, m)
<1>0. /\ s2.pend = NoEvent /\ k \in D.sharers
      /\ \/ t \in Shared /\ D.type = "tr_s" /\ s2.type \in {"I", "S"}
         \/ t \in Fetched /\ D.type = "m_s" /\ D.sharers = {k} /\ s2.type \in {"I", "S"}
         \/ t \in Dropping /\ D.type = "tr_m" /\ Waits(D) /\ s2.type = "I"
  BY DEF Fits
<1>1. y.t = t /\ y.rep /\ y.c = NoL1
  BY DEF Order, Event
<1>2. t \notin {"read", "write", "e_to_m"}
  BY <1>0 DEF Shared, Fetched, Dropping
<1>3. /\ \A w : Has(td \cup {y}, w) <=> Has(td, w) \/ t = w
      /\ Replies(td \cup {y})
      /\ Requests(td \cup {y}) <=> Requests(td)
  BY <1>1 DEF Has, Replies, Requests
<1>4. ~Has(tl2, "e_rd") /\ ~Has(tl2, "s_rd") /\ ~Has(tl2, "write") /\ ~Has(tl2, "write_nd")
  BY DEF Data, Empty
<1>5. /\ Wishes(k, s, td, tl, D)
      /\ Obeys(k, s, td, tl, D, m)
  BY DEF Place
<1>6. Holds(k, s2, td \cup {y}, tl2, D, m)
  BY <1>0, <1>3 DEF Holds, Sharer
<1>7. Gets(k, s2, tl2, D, m)
  BY <1>0, <1>4 DEF Gets
<1>8. Wishes(k, s2, td \cup {y}, tl2, D)
  BY <1>0, <1>2, <1>3, <1>5 DEF Wishes
<1>9. Obeys(k, s2, td \cup {y}, tl2, D, m)
  <2>1. \A x \in td : ~x.rep
    BY DEF Replies
  <2>2. \A x \in td \cup {y} : x.rep =>
          /\ k \in D.sharers
          /\ x.t \in Shared => D.type = "tr_s" /\ s2.type \in {"I", "S"}
          /\ x.t \in Fetched => D.type = "m_s" /\ s2.type \in {"I", "S"}
          /\ x.t \in Dropping => D.type = "tr_m" /\ Waits(D) /\ s2.type = "I"
          /\ x.t = "e_to_m" => Upgrading(k, D, m) /\ s2.type = "M"
    BY <1>0, <1>1, <1>2, <2>1 DEF Shared, Fetched, Dropping
  <2>3. Owes(s2, td \cup {y}, tl2)
    BY <1>3 DEF Owes
  <2> QED
    BY <1>0, <2>2, <2>3 DEF Obeys, Asks, Empty
<1>10. \A x \in td : ~(x.rep <=> y.rep)
  BY <1>1 DEF Replies
<1> QED
  BY <1>3, <1>6, <1>7, <1>8, <1>9, <1>10 DEF Place, Owes, Settled

LEMMA OrderTypes ==
    ASSUME NEW k, NEW t \in Shared \cup Fetched \cup Dropping \cup {"e_to_m"}
    PROVE  Order(t, k) \in DirEvents(k) /\ Order(t, k) # NoEvent /\ Order(t, k) \in Events(k)
<1>1. t \in Kinds /\ t # "none"
  BY DEF Kinds, Shared, Fetched, Dropping
<1>2. Order(t, k) \in Events(k)
  BY <1>1, EventTypes
<1>3. Order(t, k).t = t /\ Order(t, k).c = NoL1 /\ Order(t, k).rep /\ NoEvent.t = "none"
  BY DEF Order, Event, NoEvent
<1> QED
  BY <1>1, <1>2, <1>3 DEF DirEvents

\* CacheL2: the L1 gives its modified line up.
LEMMA MovedServed ==
    ASSUME Private, NEW k \in L2s, NEW a, NEW o, NEW s \in Entries, NEW u, NEW d, NEW td, NEW tl,
           NEW D, NEW m, Sound(k, a, o, s, u, d, td, tl, D, m), Sets(k, d, td, tl),
           NEW e \in d, e = Order("m_to_m", k)
    PROVE  Served(k, OnMoved(k, s, e), a, o, s, u, d \ {e}, td, tl, tl, D, m)
<1>1. e.t = "m_to_m" /\ e.rep
  BY DEF Order, Event
<1>2. Replies(d) /\ d # {}
  BY <1>1 DEF Replies
<1>3. \A x \in d : x.rep => x = e
  BY <1>1 DEF Sets
<1>4. Leaving(k, a, s, u, d)
  <2>1. ~Has(d, "evict")
    <3>1. Has(d, "evict") => \E x \in d : x.rep /\ x.t = "evict"
      BY DEF Has, Sets, DnEvents, Request
    <3> QED
      BY <1>1, <1>3, <3>1
  <2> QED
    BY <1>2, <2>1 DEF Sound, Line, Absent, Clean, Modified, Fetching
<1>5. PICK t \in Dropping : s.pend = Order(t, k)
  BY <1>4 DEF Leaving
<1>6. s.type = "tr_i" /\ s.l1l2 = "tr_i" /\ a = "I" /\ u = <<>>
  BY <1>2, <1>4 DEF Leaving
<1> DEFINE y == Order(t, k)
           q == Outcome(NoEntry, {}, <<y>>)
<1>7. y \in DirEvents(k) /\ y # NoEvent
  BY OrderTypes
<1>8. OnMoved(k, s, e) = q
  BY <1>5, <1>6, <1>7, OnL1Table
<1>9. q.ups = {} /\ q.downs = <<y>> /\ q.entry = NoEntry /\ q.fatal = FALSE
  BY DEF Outcome
<1>10. NoEntry.type = "I" /\ NoEntry.l1l2 = "I" /\ NoEntry.sharers = {} /\ NoEntry.pend = NoEvent
  BY DEF NoEntry, Entry
<1>11. NoEntry \in Entries
  BY DEF NoEntry, Entry, Entries, L2Types
<1> HIDE DEF q
<1>12. /\ Place(k, s, td, tl, D, m) /\ Access(k, a, o, u, d, td, tl, D, m)
  BY DEF Sound
<1>13. /\ D.sharers = {k} /\ D.type = "tr_m" /\ Waits(D) /\ ~Asks(tl) /\ ~Replies(td)
       /\ \A w \in Data \cup {"write_nd"} : ~Has(tl, w)
  BY <1>5, <1>6, <1>7, <1>12 DEF Place, Holds, Obeys, Gets, Data
<1>14. /\ Place(k, NoEntry, td \cup {y}, tl, D, m) /\ Owes(NoEntry, td \cup {y}, tl)
       /\ \A x \in td : ~(x.rep <=> y.rep)
       /\ Requests(td \cup {y}) <=> Requests(td)
  <2>1. Fits(k, t, NoEntry, D)
    BY <1>10, <1>13 DEF Fits
  <2>2. Empty(tl)
    BY <1>13 DEF Empty
  <2>3. Settled(k, NoEntry, td, y, tl, D, m)
    BY <1>10, <1>12, <1>13, <2>1, <2>2, Paid
  <2> QED
    BY <2>3 DEF Settled
<1>15. Requests(d \ {e}) <=> Requests(d)
  BY <1>1 DEF Requests
<1>16. Access(k, a, o, u, d \ {e}, td \cup {y}, tl, D, m)
  BY <1>12, <1>14, <1>15 DEF Access, One
<1>17. Line(k, a, NoEntry, u, d \ {e})
  <2>1. ~Replies(d \ {e})
    BY <1>3 DEF Replies
  <2> QED
    BY <1>6, <1>10, <2>1 DEF Line, Absent
<1>18. td \cup ToSet(<<y>>) = td \cup {y}
  BY Elements
<1>19. /\ Owes(s, td, tl)
       /\ Has(td, "e_to_m") => Has(td \cup {y}, "e_to_m")
  BY <1>5, <1>7 DEF Owes, Has
<1> HIDE DEF y
<1>20. Served(k, q, a, o, s, u, d \ {e}, td, tl, tl, D, m)
  BY <1>7, <1>9, <1>11, <1>14, <1>16, <1>17, <1>18, <1>19 DEF Served, Sound
<1> QED
  BY <1>8, <1>20

\* CacheL2: the L1 writes its modified line back and keeps it clean.
LEMMA EvictServed ==
    ASSUME Private, NEW k \in L2s, NEW a, NEW o, NEW s \in Entries, NEW u, NEW d, NEW td, NEW tl,
           NEW D, NEW m, Sound(k, a, o, s, u, d, td, tl, D, m), Sets(k, d, td, tl),
           NEW e \in d, e = Answer(k, "evict")
    PROVE  /\ Served(k, OnEvict(k, s, e), a, o, s, u, d \ {e}, td, tl, tl, D, m)
           /\ s.type # "I"
<1>1. e.t = "evict" /\ e.rep
  BY DEF Answer, Event
<1>2. Replies(d) /\ d # {}
  BY <1>1 DEF Replies
<1>3. \A x \in d : x.rep => x = e
  BY <1>1 DEF Sets
<1>4. Fetching(k, a, s, u, d)
  <2>1. ~Has(d, "m_to_m")
    <3>1. Has(d, "m_to_m") => \E x \in d : x.rep /\ x.t = "m_to_m"
      BY DEF Has, Sets, DnEvents, Request
    <3> QED
      BY <1>1, <1>3, <3>1
  <2> QED
    BY <1>2, <2>1 DEF Sound, Line, Absent, Clean, Modified, Leaving
<1> DEFINE y == Order("dir_rd", k)
           s2 == Entry("S", "E", {C(k)}, NoEvent)
           q == Outcome(s2, {}, <<y>>)
<1>6. /\ s.type = "tr_s" /\ s.l1l2 = "E" /\ s.sharers = {} /\ s.pend = y
      /\ a \in {"I", "E"} /\ u = <<>>
  BY <1>2, <1>4 DEF Fetching
<1>7. y \in DirEvents(k) /\ y # NoEvent
  BY OrderTypes DEF Fetched
<1>8. OnEvict(k, s, e) = q
  <2>1. s.sharers \cup {C(k)} = {C(k)}
    BY <1>6
  <2> QED
    BY <1>6, <2>1, OnL1Table
<1>9. q.ups = {} /\ q.downs = <<y>> /\ q.entry = s2 /\ q.fatal = FALSE
  BY DEF Outcome
<1>10. s2.type = "S" /\ s2.l1l2 = "E" /\ s2.sharers = {C(k)} /\ s2.pend = NoEvent
  BY DEF Entry
<1>11. s2 \in Entries
  BY OwnL1 DEF Entry, Entries, L2Types, Stable
<1> HIDE DEF q, s2
<1>12. /\ Place(k, s, td, tl, D, m) /\ Access(k, a, o, u, d, td, tl, D, m)
  BY DEF Sound
<1>13. /\ D.sharers = {k} /\ D.type = "m_s" /\ ~Asks(tl) /\ ~Replies(td)
       /\ \A w \in Data \cup {"write_nd"} : ~Has(tl, w)
  BY <1>6, <1>7, <1>12 DEF Place, Holds, Obeys, Gets, Data
<1>14. /\ Place(k, s2, td \cup {y}, tl, D, m) /\ Owes(s2, td \cup {y}, tl)
       /\ \A x \in td : ~(x.rep <=> y.rep)
       /\ Requests(td \cup {y}) <=> Requests(td)
  <2>1. Fits(k, "dir_rd", s2, D)
    BY <1>10, <1>13 DEF Fits, Fetched
  <2>2. Empty(tl) /\ s.type # "I"
    BY <1>6, <1>13 DEF Empty
  <2>3. Settled(k, s2, td, y, tl, D, m)
    BY <1>12, <1>13, <2>1, <2>2, Paid
  <2> QED
    BY <2>3 DEF Settled
<1>15. Requests(d \ {e}) <=> Requests(d)
  BY <1>1 DEF Requests
<1>16. Access(k, a, o, u, d \ {e}, td \cup {y}, tl, D, m)
  BY <1>12, <1>14, <1>15 DEF Access, One
<1>17. Line(k, a, s2, u, d \ {e})
  <2>1. ~Replies(d \ {e})
    BY <1>3 DEF Replies
  <2> QED
    BY <1>6, <1>10, <2>1 DEF Line, Clean
<1>18. td \cup ToSet(<<y>>) = td \cup {y}
  BY Elements
<1>19. /\ Owes(s, td, tl)
       /\ Has(td, "e_to_m") => Has(td \cup {y}, "e_to_m")
  BY <1>6, <1>7 DEF Owes, Has
<1> HIDE DEF y
<1>20. Served(k, q, a, o, s, u, d \ {e}, td, tl, tl, D, m)
  BY <1>7, <1>9, <1>11, <1>14, <1>16, <1>17, <1>18, <1>19 DEF Served, Sound
<1> QED
  BY <1>6, <1>8, <1>20

-----------------------------------------------------------------------------
(* An L2 serves an answer of the directory.                                *)

\* What is left when L2 k has taken answer e from tl.
Taken(k, a, o, u, d, td, tl, e, D) ==
    /\ o = 1 /\ a = "I" /\ ~Requests(d) /\ ~Requests(td) /\ ~Answers(ToSet(u)) /\ D.pend.k # k
    /\ Answers(tl) /\ ~Answers(tl \ {e}) /\ (Asks(tl \ {e}) <=> Asks(tl))
    /\ \A x \in tl \ {e} : x.c = NoL1
    /\ \A t \in Data \cup {"nack", "write_nd"} : ~Has(tl \ {e}, t) /\ (Has(tl, t) => e.t = t)
    /\ \A t \in Sharing \cup Dropping \cup {"dir_rd"} : Has(tl, t) => Has(tl \ {e}, t)

LEMMA AnswerTaken ==
    ASSUME Private, NEW k \in L2s, NEW a, NEW o, NEW s, NEW u, NEW d, NEW td, NEW tl, NEW D, NEW m,
           Sound(k, a, o, s, u, d, td, tl, D, m), Sets(k, d, td, tl), NEW e \in tl, e.c = C(k)
    PROVE  Taken(k, a, o, u, d, td, tl, e, D)
<1>1. C(k) # NoL1
  BY OwnL1
<1>2. Answers(tl)
  BY <1>1 DEF Answers
<1>3. \A x \in tl : x.c \in {NoL1, C(k)}
  BY DEF Sets, L2Events, Events
<1>4. \A x \in tl \ {e} : x.c = NoL1
  BY <1>3 DEF Sets
<1>5. ~Answers(tl \ {e}) /\ (Asks(tl \ {e}) <=> Asks(tl))
  BY <1>1, <1>4 DEF Answers, Asks
<1>6. \A t \in Data \cup {"nack", "write_nd"} : ~Has(tl \ {e}, t) /\ (Has(tl, t) => e.t = t)
  BY <1>1, <1>4 DEF Has, Sets, L2Events, Data, Sharing, Dropping
<1>7. e.t \in Data \cup {"nack", "write_nd"}
  BY <1>1 DEF Sets, L2Events
<1>8. \A t \in Sharing \cup Dropping \cup {"dir_rd"} : Has(tl, t) => Has(tl \ {e}, t)
  BY <1>7 DEF Has, Data, Sharing, Dropping
<1>9. o = 1 /\ a = "I" /\ ~Requests(d) /\ ~Requests(td) /\ ~Answers(ToSet(u)) /\ D.pend.k # k
  BY <1>2 DEF Sound, Access, One
<1> QED
  BY <1>2, <1>4, <1>5, <1>6, <1>8, <1>9 DEF Taken

\* The states an answer of the directory can meet.
LEMMA AnswerMeets ==
    ASSUME Private, NEW k \in L2s, NEW a, NEW s, NEW u, NEW d,
           Line(k, a, s, u, d), a = "I", ~Answers(ToSet(u)), s.type \in {"I", "S", "tr_m"}
    PROVE  \/ Absent(k, a, s, u, d) /\ u \in {<<>>, <<Drop(k)>>}
           \/ Clean(k, a, s, u, d) /\ u = <<>>
<1>1. Absent(k, a, s, u, d) \/ Clean(k, a, s, u, d)
  BY DEF Line, Modified, Leaving, Fetching
<1>2. CASE Absent(k, a, s, u, d)
  BY <1>2, Returning DEF Absent
<1>3. CASE Clean(k, a, s, u, d)
  BY <1>3, Returning DEF Clean
<1> QED
  BY <1>1, <1>2, <1>3

\* The access returns to the L1.
LEMMA Returned ==
    ASSUME Private, NEW k \in L2s, NEW a, NEW o, NEW u, NEW d, NEW td, NEW tl, NEW D, NEW m,
           Access(k, a, o, u, d, td, tl, D, m), NEW e, Taken(k, a, o, u, d, td, tl, e, D),
           NEW t, NEW td2, ~Requests(td2), u \in {<<>>, <<Drop(k)>>}
    PROVE  Access(k, a, o, Append(u, Answer(k, t)), d, td2, tl \ {e}, D, m)
<1> DEFINE x == Answer(k, t)
           y == Drop(k)
           v == Append(u, x)
<1>1. Append(<<>>, x) = <<x>> /\ Append(<<y>>, x) = <<y, x>>
  BY Short, Zenon
<1>2. Answers(ToSet(<<x>>)) /\ Answers(ToSet(<<y, x>>))
  BY Returning
<1> HIDE DEF x
<1>3. Answers(ToSet(v))
  BY <1>1, <1>2
<1> HIDE DEF v
<1>4. Access(k, a, o, v, d, td2, tl \ {e}, D, m)
  BY <1>3 DEF Taken, Access, One
<1> QED
  BY <1>4 DEF x, v

LEMMA Appended ==
    ASSUME NEW k, NEW u \in {<<>>, <<Drop(k)>>}, NEW x
    PROVE  \/ u = <<>> /\ Append(u, x) = <<x>>
           \/ u = <<Drop(k)>> /\ Append(u, x) = <<Drop(k), x>>
<1>1. Append(<<>>, x) = <<x>>
  BY Short, Zenon
<1> DEFINE y == Drop(k)
<1>2. Append(<<y>>, x) = <<y, x>>
  BY Short, Zenon
<1> QED
  BY <1>1, <1>2

\* The invariant when L2 k has passed an answer with outcome q on.
LEMMA Passed ==
    ASSUME Private, NEW k \in L2s, NEW a, NEW o, NEW s, NEW u, NEW d, NEW td, NEW tl0, NEW tl, NEW D,
           NEW m, NEW t \in {"nack", "read", "write"}, NEW s2 \in Entries, NEW x, x = Answer(k, t),
           Access(k, a, o, Append(u, x), d, td, tl, D, m), Line(k, a, s2, Append(u, x), d),
           Place(k, s2, td, tl, D, m), Owes(s2, td, tl) <=> Owes(s, td, tl0),
           ~Has(tl0, "write_nd")
    PROVE  Served(k, Outcome(s2, Tells(k, t), <<>>), a, o, s, u, d, td, tl0, tl, D, m)
<1> DEFINE q == Outcome(s2, Tells(k, t), <<>>)
<1>1. x \in Events(k)
  <2>1. t \in Kinds
    BY DEF Kinds, Data
  <2> QED
    BY <2>1, EventTypes
<1>2. q.ups = {<<C(k), x>>} /\ q.downs = <<>> /\ q.entry = s2 /\ q.fatal = FALSE
  BY DEF Outcome, Tells
<1>3. td \cup ToSet(<<>>) = td
  BY Elements
<1>4. Sound(k, a, o, s2, Append(u, x), d, td, tl, D, m)
  BY DEF Sound
<1> HIDE DEF q
<1>5. Served(k, q, a, o, s, u, d, td, tl0, tl, D, m)
  BY <1>1, <1>2, <1>3, <1>4 DEF Served
<1> QED
  BY <1>5 DEF q

\* CacheL2: et_nack.
LEMMA NackServed ==
    ASSUME Private, NEW k \in L2s, NEW a, NEW o, NEW s \in Entries, NEW u, NEW d, NEW td, NEW tl,
           NEW D, NEW m, Sound(k, a, o, s, u, d, td, tl, D, m), Sets(k, d, td, tl),
           NEW e \in tl, e.c = C(k), e.t = "nack"
    PROVE  Served(k, OnNack(k, s, Answer(k, "nack")), a, o, s, u, d, td, tl, tl \ {e}, D, m)
<1> DEFINE x == Answer(k, "nack")
<1>1. Place(k, s, td, tl, D, m) /\ Line(k, a, s, u, d) /\ Access(k, a, o, u, d, td, tl, D, m)
  BY DEF Sound
<1>2. Has(tl, "nack") /\ s.type \in {"I", "S", "tr_m"}
  BY <1>1 DEF Has, Place, Gets
<1>0. Taken(k, a, o, u, d, td, tl, e, D)
  BY AnswerTaken
<1>3. /\ a = "I" /\ ~Answers(ToSet(u)) /\ ~Requests(td) /\ D.pend.k # k
      /\ (Asks(tl \ {e}) <=> Asks(tl))
      /\ \A w \in Data \cup {"nack", "write_nd"} : ~Has(tl \ {e}, w) /\ (Has(tl, w) => e.t = w)
      /\ \A w \in Sharing \cup Dropping \cup {"dir_rd"} : Has(tl, w) => Has(tl \ {e}, w)
  BY <1>0 DEF Taken
<1>4. \/ Absent(k, a, s, u, d) /\ u \in {<<>>, <<Drop(k)>>}
      \/ Clean(k, a, s, u, d) /\ u = <<>>
  BY <1>1, <1>2, <1>3, AnswerMeets
<1>5. u \in {<<>>, <<Drop(k)>>}
  BY <1>4
<1>12. Access(k, a, o, Append(u, x), d, td, tl \ {e}, D, m)
  BY <1>0, <1>1, <1>3, <1>5, Returned
<1>13. \/ u = <<>> /\ Append(u, x) = <<x>>
       \/ u = <<Drop(k)>> /\ Append(u, x) = <<Drop(k), x>>
  BY <1>5, Appended
<1>6. Line(k, a, s, Append(u, x), d)
  BY <1>3, <1>4, <1>13 DEF Absent, Clean, Line
<1>7. ~Has(tl, "write_nd")
  BY <1>3
<1>8. Place(k, s, td, tl \ {e}, D, m)
  <2>0. Has(tl, "e_to_s") => Has(tl \ {e}, "e_to_s")
    BY <1>3 DEF Sharing
  <2>1. Holds(k, s, td, tl \ {e}, D, m)
    BY <1>1, <1>3, <1>7, <2>0 DEF Place, Holds, Exclusive, Sharer, Writer
  <2>2. Gets(k, s, tl \ {e}, D, m)
    BY <1>3 DEF Gets, Data
  <2>3. Wishes(k, s, td, tl \ {e}, D)
    <3>1. ~Has(tl, "e_rd")
      BY <1>3 DEF Data
    <3> QED
      BY <1>1, <3>1 DEF Place, Wishes
  <2>4. Obeys(k, s, td, tl \ {e}, D, m)
    BY <1>1, <1>3 DEF Place, Obeys, Owes
  <2> QED
    BY <2>1, <2>2, <2>3, <2>4 DEF Place
<1>9. Owes(s, td, tl \ {e}) <=> Owes(s, td, tl)
  BY <1>3 DEF Owes
<1>10. OnNack(k, s, x) = Outcome(s, Tells(k, "nack"), <<>>)
  BY OnAnswerTable
<1> HIDE DEF x
<1>11. x = Answer(k, "nack")
  BY DEF x
<1> QED
  BY <1>6, <1>7, <1>8, <1>9, <1>10, <1>11, <1>12, Passed

\* CacheL2: the data a request asked for, et_e_rd, et_s_rd and et_write.
LEMMA DataServed ==
    ASSUME Private, NEW k \in L2s, NEW a, NEW o, NEW s \in Entries, NEW u, NEW d, NEW td, NEW tl,
           NEW D, NEW m, Sound(k, a, o, s, u, d, td, tl, D, m), Sets(k, d, td, tl),
           NEW e \in tl, e.c = C(k), NEW t \in Data, e.t = t
    PROVE  Served(k, OnData(k, s, Answer(k, t)), a, o, s, u, d, td, tl, tl \ {e}, D, m)
<1> DEFINE w == IF t = "write" THEN "write" ELSE "read"
           x == Answer(k, w)
           type == IF t = "e_rd" THEN "E" ELSE IF t = "s_rd" THEN "S" ELSE "M"
           s2 == Entry(type, IF t = "write" THEN "M" ELSE "E", {C(k)}, NoEvent)
<1>1. Place(k, s, td, tl, D, m) /\ Line(k, a, s, u, d) /\ Access(k, a, o, u, d, td, tl, D, m)
  BY DEF Sound
<1>2. Has(tl, t)
  BY DEF Has
<1>3. t \in {"e_rd", "s_rd", "write"}
  BY DEF Data
<1>4. /\ s.type = "I"
      /\ t = "e_rd" => Exclusive(k, tl, D)
      /\ t = "s_rd" => Sharer(k, tl, D)
      /\ t = "write" => Writer(k, tl, D)
  BY <1>1, <1>2, <1>3 DEF Place, Gets
<1>5. Taken(k, a, o, u, d, td, tl, e, D)
  BY AnswerTaken
<1>6. /\ a = "I" /\ ~Answers(ToSet(u)) /\ ~Requests(td) /\ ~Requests(d) /\ D.pend.k # k
      /\ (Asks(tl \ {e}) <=> Asks(tl))
      /\ \A v \in Data \cup {"nack", "write_nd"} : ~Has(tl \ {e}, v) /\ (Has(tl, v) => e.t = v)
      /\ \A v \in Sharing \cup Dropping \cup {"dir_rd"} : Has(tl, v) => Has(tl \ {e}, v)
  BY <1>5 DEF Taken
<1>7. Absent(k, a, s, u, d) /\ u \in {<<>>, <<Drop(k)>>}
  <2>1. \/ Absent(k, a, s, u, d) /\ u \in {<<>>, <<Drop(k)>>}
        \/ Clean(k, a, s, u, d) /\ u = <<>>
    BY <1>1, <1>4, <1>6, AnswerMeets
  <2> QED
    BY <1>4, <2>1 DEF Clean
<1>8. s.sharers = {} /\ s.pend = NoEvent /\ ~Replies(d)
  BY <1>7 DEF Absent
<1>9. OnData(k, s, Answer(k, t)) = Outcome(s2, Tells(k, w), <<>>)
  <2>1. CASE t = "e_rd"
    BY <1>4, <1>8, <2>1, OnAnswerTable
  <2>2. CASE t = "s_rd"
    BY <1>4, <1>8, <2>2, OnAnswerTable
  <2>3. CASE t = "write"
    BY <1>4, <1>8, <2>3, OnAnswerTable
  <2> QED
    BY <1>3, <2>1, <2>2, <2>3
<1>10. /\ s2.type = type /\ s2.l1l2 = IF t = "write" THEN "M" ELSE "E"
       /\ s2.sharers = {C(k)} /\ s2.pend = NoEvent
  BY DEF Entry
<1>11. s2 \in Entries
  BY OwnL1 DEF Entry, Entries, L2Types, Stable
<1>12. w \in {"nack", "read", "write"}
  OBVIOUS
<1> HIDE DEF s2
<1>13. Access(k, a, o, Append(u, x), d, td, tl \ {e}, D, m)
  BY <1>1, <1>5, <1>6, <1>7, Returned
<1>14. \/ u = <<>> /\ Append(u, x) = <<x>>
       \/ u = <<Drop(k)>> /\ Append(u, x) = <<Drop(k), x>>
  BY <1>7, Appended
<1>15. d = {}
  BY <1>6, <1>8 DEF Requests, Replies
<1>16. Line(k, a, s2, Append(u, x), d)
  <2>1. CASE t = "write"
    BY <1>6, <1>10, <1>14, <1>15, <2>1 DEF Line, Modified
  <2>2. CASE t # "write"
    BY <1>3, <1>6, <1>8, <1>10, <1>14, <2>2 DEF Line, Clean
  <2> QED
    BY <2>1, <2>2
<1>17. ~Has(tl, "write_nd")
  BY <1>3, <1>6
<1>18. \A y \in td : y.rep => (t = "s_rd" /\ (y.t \in Shared \cup Fetched))
  <2> SUFFICES ASSUME NEW y \in td, y.rep PROVE t = "s_rd" /\ (y.t \in Shared \cup Fetched)
    OBVIOUS
  <2>1. Obeys(k, s, td, tl, D, m)
    BY <1>1 DEF Place
  <2>2. ~Asks(tl)
    BY <2>1 DEF Obeys, Replies
  <2>3. y.t \in Shared \cup Fetched \cup Dropping \cup {"e_to_m"}
    BY DEF Sets, DirEvents, Request
  <2>4. /\ y.t \in Shared => D.type = "tr_s"
        /\ y.t \in Fetched => D.type = "m_s"
        /\ y.t \in Dropping => D.type = "tr_m" /\ Waits(D)
        /\ y.t # "e_to_m"
    BY <1>4, <2>1 DEF Obeys
  <2>5. ~Has(tl, "e_to_s")
    <3>1. \A v \in tl : v.t = "e_to_s" => v.c = NoL1
      BY DEF Sets, L2Events, Data
    <3> QED
      BY <2>2, <3>1 DEF Has, Asks
  <2> QED
    BY <1>3, <1>4, <2>2, <2>3, <2>4, <2>5 DEF Exclusive, Sharer, Writer
<1>19. Place(k, s2, td, tl \ {e}, D, m)
  <2>0. Has(tl, "e_to_s") => Has(tl \ {e}, "e_to_s")
    BY <1>6 DEF Sharing
  <2>1. Holds(k, s2, td, tl \ {e}, D, m)
    BY <1>3, <1>4, <1>6, <1>10, <2>0 DEF Holds, Exclusive, Sharer, Writer
  <2>2. Gets(k, s2, tl \ {e}, D, m)
    BY <1>6 DEF Gets, Data
  <2>3. Wishes(k, s2, td, tl \ {e}, D)
    <3>1. ~Has(td, "read") /\ ~Has(td, "write")
      BY <1>6, SetFacts
    <3>2. t # "e_rd" => D.type # "E"
      BY <1>3, <1>4 DEF Sharer, Writer
    <3> QED
      BY <1>6, <1>10, <3>1, <3>2 DEF Wishes
  <2>4. Obeys(k, s2, td, tl \ {e}, D, m)
    <3>1. Obeys(k, s, td, tl, D, m)
      BY <1>1 DEF Place
    <3>2. \A y \in td : y.rep =>
          /\ k \in D.sharers
          /\ y.t \in Shared => D.type = "tr_s" /\ s2.type \in {"I", "S"}
          /\ y.t \in Fetched => D.type = "m_s" /\ s2.type \in {"I", "S"}
          /\ y.t \in Dropping => D.type = "tr_m" /\ Waits(D) /\ s2.type = "I"
          /\ y.t = "e_to_m" => Upgrading(k, D, m) /\ s2.type = "M"
      BY <1>10, <1>18, <3>1 DEF Obeys, Shared, Fetched, Dropping
    <3> QED
      BY <1>6, <1>8, <1>10, <3>1, <3>2 DEF Obeys, Owes
  <2> QED
    BY <2>1, <2>2, <2>3, <2>4 DEF Place
<1>20. Owes(s2, td, tl \ {e}) <=> Owes(s, td, tl)
  BY <1>6, <1>8, <1>10 DEF Owes
<1>21. x = Answer(k, w)
  OBVIOUS
<1> HIDE DEF x, w
<1> QED
  BY <1>9, <1>11, <1>12, <1>13, <1>16, <1>17, <1>19, <1>20, <1>21, Passed

\* CacheL2: et_write_nd, the upgrade of an exclusive line is granted.
LEMMA UpgradeServed ==
    ASSUME Private, NEW k \in L2s, NEW a, NEW o, NEW s \in Entries, NEW u, NEW d, NEW td, NEW tl,
           NEW D, NEW m, Sound(k, a, o, s, u, d, td, tl, D, m), Sets(k, d, td, tl),
           NEW e \in tl, e.c = C(k), e.t = "write_nd"
    PROVE  Served(k, OnWriteNd(k, s, Answer(k, "write_nd")), a, o, s, u, d, td, tl, tl \ {e}, D, m)
<1> DEFINE x == Answer(k, "write")
           y == Order("e_to_m", k)
           s2 == Entry("M", "M", {C(k)}, NoEvent)
           q == Outcome(s2, Tells(k, "write"), <<y>>)
<1>1. Place(k, s, td, tl, D, m) /\ Line(k, a, s, u, d) /\ Access(k, a, o, u, d, td, tl, D, m)
  BY DEF Sound
<1>2. s.type = "tr_m" /\ Upgrading(k, D, m)
  <2>1. Has(tl, "write_nd")
    BY DEF Has
  <2> QED
    BY <1>1, <2>1 DEF Place, Gets
<1>3. Taken(k, a, o, u, d, td, tl, e, D)
  BY AnswerTaken
<1>4. /\ a = "I" /\ ~Answers(ToSet(u)) /\ ~Requests(td) /\ ~Requests(d) /\ D.pend.k # k
      /\ (Asks(tl \ {e}) <=> Asks(tl))
      /\ \A v \in Data \cup {"nack", "write_nd"} : ~Has(tl \ {e}, v)
  BY <1>3 DEF Taken
<1>5. Clean(k, a, s, u, d) /\ u = <<>>
  <2>1. \/ Absent(k, a, s, u, d) /\ u \in {<<>>, <<Drop(k)>>}
        \/ Clean(k, a, s, u, d) /\ u = <<>>
    BY <1>1, <1>2, <1>4, AnswerMeets
  <2> QED
    BY <1>2, <2>1 DEF Absent
<1>6. s.sharers = {C(k)} /\ s.pend = NoEvent /\ ~Replies(d)
  BY <1>5 DEF Clean
<1>7. OnWriteNd(k, s, Answer(k, "write_nd")) = q
  BY <1>2, <1>6, OnAnswerTable
<1>8. s2.type = "M" /\ s2.l1l2 = "M" /\ s2.sharers = {C(k)} /\ s2.pend = NoEvent
  BY DEF Entry
<1>9. s2 \in Entries
  BY OwnL1 DEF Entry, Entries, L2Types, Stable
<1>10. y \in DirEvents(k) /\ y.t = "e_to_m" /\ y.rep
  BY OrderTypes DEF Order, Event
<1>11. x \in Events(k)
  <2>1. "write" \in Kinds
    BY DEF Kinds, Data
  <2> QED
    BY <2>1, EventTypes
<1>12. q.ups = {<<C(k), x>>} /\ q.downs = <<y>> /\ q.entry = s2 /\ q.fatal = FALSE
  BY DEF Outcome, Tells
<1> HIDE DEF s2, q, y
<1>13. ~Asks(tl) /\ ~Replies(td)
  <2>1. Obeys(k, s, td, tl, D, m) /\ D.type = "tr_m" /\ ~Waits(D)
    BY <1>1, <1>2 DEF Place, Upgrading
  <2>2. \A v \in tl : v.c # NoL1
    BY <2>1, OwnL1 DEF Obeys, Sets, L2Events
  <2>3. \A v \in td : ~v.rep
    BY <1>2, <2>1 DEF Obeys, Sets, DirEvents, Request
  <2> QED
    BY <2>2, <2>3 DEF Asks, Replies
<1>14. /\ \A v : Has(td \cup {y}, v) <=> Has(td, v) \/ v = "e_to_m"
       /\ Replies(td \cup {y}) /\ ~Requests(td \cup {y})
  BY <1>4, <1>10 DEF Has, Replies, Requests
<1>15. Access(k, a, o, Append(u, x), d, td \cup {y}, tl \ {e}, D, m)
  <2>1. u \in {<<>>, <<Drop(k)>>}
    BY <1>5
  <2> QED
    BY <1>1, <1>3, <1>14, <2>1, Returned
<1>16. Append(u, x) = <<x>>
  BY <1>5, Short
<1>17. d = {}
  BY <1>4, <1>6 DEF Requests, Replies
<1>18. Line(k, a, s2, Append(u, x), d)
  BY <1>4, <1>8, <1>16, <1>17 DEF Line, Modified
<1>19. Place(k, s2, td \cup {y}, tl \ {e}, D, m)
  <2>1. Holds(k, s2, td \cup {y}, tl \ {e}, D, m)
    BY <1>2, <1>8, <1>14 DEF Holds
  <2>2. Gets(k, s2, tl \ {e}, D, m)
    BY <1>4 DEF Gets, Data
  <2>3. Wishes(k, s2, td \cup {y}, tl \ {e}, D)
    <3>1. ~Has(td, "read") /\ ~Has(td, "write")
      BY <1>4, SetFacts
    <3>2. D.type # "E"
      BY <1>2 DEF Upgrading
    <3> QED
      BY <1>4, <1>14, <3>1, <3>2 DEF Wishes
  <2>4. Obeys(k, s2, td \cup {y}, tl \ {e}, D, m)
    <3>1. \A v \in tl \ {e} : v.c # NoL1
      BY <1>13 DEF Asks
    <3>2. \A v \in td \cup {y} : v.rep => v = y
      BY <1>13 DEF Replies
    <3>3. k \in D.sharers /\ ~Waits(D)
      BY <1>2 DEF Upgrading
    <3>4. y.t \notin Shared \cup Fetched \cup Dropping
      BY <1>10 DEF Shared, Fetched, Dropping
    <3> QED
      BY <1>2, <1>4, <1>8, <1>13, <3>1, <3>2, <3>3, <3>4 DEF Obeys
  <2> QED
    BY <2>1, <2>2, <2>3, <2>4 DEF Place
<1>20. td \cup ToSet(<<y>>) = td \cup {y}
  BY Elements
<1>21. \A v \in td : ~(v.rep <=> y.rep)
  BY <1>10, <1>13 DEF Replies
<1>22. Sound(k, a, o, s2, Append(u, x), d, td \cup {y}, tl \ {e}, D, m)
  BY <1>15, <1>18, <1>19 DEF Sound
<1>23. D.type \notin {"tr_s", "m_s"}
  BY <1>2 DEF Upgrading
<1>24. Has(td \cup {y}, "e_to_m")
  BY <1>14
<1> HIDE DEF x
<1>25. Served(k, q, a, o, s, u, d, td, tl, tl \ {e}, D, m)
  BY <1>9, <1>10, <1>11, <1>12, <1>20, <1>21, <1>22, <1>23, <1>24 DEF Served
<1> QED
  BY <1>7, <1>25

-----------------------------------------------------------------------------
(* An L2 serves an order of the directory: the data that was sent before it *)
(* has arrived.                                                            *)

\* L2 k takes order e from tl.
Bidden(k, s, td, tl, e, D) ==
    /\ s.pend = NoEvent /\ ~Replies(td) /\ k \in D.sharers /\ Owes(s, td, tl)
    /\ e.t \in Sharing \cup Dropping \cup {"dir_rd"}
    /\ e.t \in Sharing => D.type = "tr_s"
    /\ e.t = "dir_rd" => D.type = "m_s"
    /\ e.t \in Dropping => D.type = "tr_m" /\ Waits(D)
    /\ Empty(tl \ {e}) /\ (Answers(tl \ {e}) <=> Answers(tl)) /\ ~Has(tl, "write_nd")

LEMMA OrderTaken ==
    ASSUME Private, NEW k \in L2s, NEW s, NEW d, NEW td, NEW tl, NEW D, NEW m,
           Place(k, s, td, tl, D, m), Sets(k, d, td, tl), NEW e \in tl, e.c = NoL1,
           \A t \in Data : ~Has(tl, t)
    PROVE  Bidden(k, s, td, tl, e, D)
<1>1. Obeys(k, s, td, tl, D, m) /\ Gets(k, s, tl, D, m) /\ Asks(tl)
  BY DEF Place, Asks
<1>2. s.pend = NoEvent /\ ~Replies(td) /\ k \in D.sharers /\ Owes(s, td, tl)
  BY <1>1 DEF Obeys, Owes
<1>3. e.t \in Sharing \cup Dropping \cup {"dir_rd"}
  BY OwnL1 DEF Sets, L2Events
<1>4. /\ e.t \in Sharing => D.type = "tr_s"
      /\ e.t = "dir_rd" => D.type = "m_s"
      /\ e.t \in Dropping => D.type = "tr_m" /\ Waits(D)
  BY <1>1 DEF Obeys
<1>5. \A x \in tl \ {e} : x.c # NoL1
  BY DEF Sets
<1>6. ~Asks(tl \ {e}) /\ (Answers(tl \ {e}) <=> Answers(tl))
  BY <1>5 DEF Asks, Answers
<1>7. ~Has(tl, "write_nd")
  BY <1>1, <1>3, <1>4 DEF Gets, Upgrading
<1>8. \A t \in Data \cup {"write_nd"} : ~Has(tl \ {e}, t)
  BY <1>7 DEF Has
<1> QED
  BY <1>2, <1>3, <1>4, <1>6, <1>7, <1>8 DEF Bidden, Empty

LEMMA AppendSet ==
    ASSUME NEW S, NEW q \in Seq(S), NEW x \in S
    PROVE  ToSet(Append(q, x)) = ToSet(q) \cup {x}
<1>1. /\ Len(q) \in Nat /\ DOMAIN q = 1 .. Len(q) /\ DOMAIN Append(q, x) = 1 .. Len(q) + 1
      /\ Append(q, x)[Len(q) + 1] = x /\ \A i \in 1 .. Len(q) : Append(q, x)[i] = q[i]
  OBVIOUS
<1> DEFINE r == Append(q, x)
           n == Len(q)
<1> HIDE DEF r, n
<1>2. /\ n \in Nat /\ DOMAIN q = 1 .. n /\ DOMAIN r = 1 .. n + 1
      /\ r[n + 1] = x /\ \A i \in 1 .. n : r[i] = q[i]
  BY <1>1 DEF r, n
<1>3. ToSet(r) = ToSet(q) \cup {x}
  BY <1>2 DEF ToSet
<1> QED
  BY <1>3 DEF r

\* What an L2 without pending order can be.
LEMMA Unpended ==
    ASSUME NEW k \in L2s, NEW a, NEW s, NEW u, NEW d, Line(k, a, s, u, d), s.pend = NoEvent
    PROVE  Absent(k, a, s, u, d) \/ Clean(k, a, s, u, d) \/ Modified(k, a, s, u, d)
<1>1. \A t \in Dropping \cup {"dir_rd"} : Order(t, k) # NoEvent
  BY OrderTypes DEF Fetched
<1> QED
  BY <1>1 DEF Line, Leaving, Fetching

\* L2 answers order e at once with y, and may tell its L1 to drop the line.
LEMMA OrderPaid ==
    ASSUME Private, NEW k \in L2s, NEW a, NEW o, NEW s, NEW u \in Seq(Evts), NEW d, NEW td, NEW tl,
           NEW D, NEW m, Access(k, a, o, u, d, td, tl, D, m), Place(k, s, td, tl, D, m),
           NEW e, Bidden(k, s, td, tl, e, D),
           NEW s2 \in Entries, s2.type = "S" => s.type # "I", NEW w, Fits(k, w, s2, D),
           NEW y, y = Order(w, k),
           NEW ups, NEW v,
           \/ ups = {} /\ v = u
           \/ ups = Commands(k, "evict") /\ v = Append(u, Drop(k)),
           Line(k, a, s2, v, d)
    PROVE  Served(k, Outcome(s2, ups, <<y>>), a, o, s, u, d, td, tl, tl \ {e}, D, m)
<1> DEFINE q == Outcome(s2, ups, <<y>>)
           tl2 == tl \ {e}
<1>1. q.ups = ups /\ q.downs = <<y>> /\ q.entry = s2 /\ q.fatal = FALSE
  BY DEF Outcome
<1>2. Drop(k) \in Events(k) /\ Drop(k).c = NoL1
  <2>1. "evict" \in Kinds
    BY DEF Kinds
  <2> QED
    BY <2>1, EventTypes DEF Drop, Order, Event
<1>3. Answers(ToSet(v)) <=> Answers(ToSet(u))
  <2>1. CASE v = u
    BY <2>1
  <2>2. CASE v = Append(u, Drop(k))
    <3>1. Drop(k) \in Evts
      BY <1>2 DEF Evts
    <3>2. ToSet(v) = ToSet(u) \cup {Drop(k)}
      BY <2>2, <3>1, AppendSet
    <3> QED
      BY <1>2, <3>2 DEF Answers
  <2> QED
    BY <2>1, <2>2
<1>4. /\ Empty(tl2) /\ ~Replies(td) /\ s.pend = NoEvent
      /\ (Answers(tl2) <=> Answers(tl)) /\ ~Has(tl, "write_nd") /\ Owes(s, td, tl)
  BY DEF Bidden
<1> HIDE DEF q, tl2
<1>5. Settled(k, s2, td, y, tl2, D, m)
  BY <1>4, Paid
<1>6. /\ Place(k, s2, td \cup {y}, tl2, D, m) /\ Owes(s2, td \cup {y}, tl2)
      /\ \A x \in td : ~(x.rep <=> y.rep)
      /\ Requests(td \cup {y}) <=> Requests(td)
  BY <1>5 DEF Settled
<1>7. Access(k, a, o, v, d, td \cup {y}, tl2, D, m)
  BY <1>3, <1>4, <1>6 DEF Access, One
<1>8. Sound(k, a, o, s2, v, d, td \cup {y}, tl2, D, m)
  BY <1>6, <1>7 DEF Sound
<1>9. td \cup ToSet(<<y>>) = td \cup {y}
  BY Elements
<1>10. y \in DirEvents(k)
  BY OrderTypes DEF Fits
<1>11. Has(td, "e_to_m") => Has(td \cup {y}, "e_to_m")
  BY DEF Has
<1>12. \/ ups = {} /\ v = u
       \/ \E x \in Events(k) : ups = {<<C(k), x>>} /\ v = Append(u, x)
  BY <1>2 DEF Commands, Drop
<1>13. Served(k, q, a, o, s, u, d, td, tl, tl2, D, m)
  BY <1>1, <1>4, <1>6, <1>8, <1>9, <1>10, <1>11, <1>12 DEF Served
<1> QED
  BY <1>13 DEF q, tl2

LEMMA WantedBy ==
    ASSUME NEW k, NEW a, NEW u, NEW w,
           \/ a = "M" /\ u = <<>>
           \/ a = "I" /\ u \in {<<Answer(k, "write")>>, <<Drop(k), Answer(k, "write")>>}
    PROVE  Wanted(k, a, Append(u, Order(w, k)), w)
<1>1. Append(<<>>, Order(w, k)) = <<Order(w, k)>>
  BY Short, Zenon
<1>2. Append(<<Answer(k, "write")>>, Order(w, k)) = <<Answer(k, "write"), Order(w, k)>>
  BY AppendSecond
<1>3. Append(<<Drop(k), Answer(k, "write")>>, Order(w, k)) =
         <<Drop(k), Answer(k, "write"), Order(w, k)>>
  BY AppendThird
<1> QED
  BY <1>1, <1>2, <1>3 DEF Wanted

\* L2 asks its L1 for the modified line that order e wants.
LEMMA OrderHeld ==
    ASSUME Private, NEW k \in L2s, NEW a, NEW o, NEW s, NEW u \in Seq(Evts), NEW d, NEW td, NEW tl,
           NEW D, NEW m, Access(k, a, o, u, d, td, tl, D, m), Place(k, s, td, tl, D, m),
           NEW e, Bidden(k, s, td, tl, e, D), Modified(k, a, s, u, d),
           NEW t \in Dropping \cup {"dir_rd"}, e.t = t,
           NEW w, w = IF t = "dir_rd" THEN "dir_rd" ELSE "m_to_m",
           NEW s2, s2 = IF t = "dir_rd" THEN Entry("tr_s", "E", {}, Order(t, k))
                        ELSE Entry("tr_i", "tr_i", {}, Order(t, k))
    PROVE  Served(k, Outcome(s2, Commands(k, w), <<>>), a, o, s, u, d, td, tl, tl \ {e}, D, m)
<1> DEFINE q == Outcome(s2, Commands(k, w), <<>>)
           tl2 == tl \ {e}
           x == Order(w, k)
           v == Append(u, x)
<1>1. x \in Events(k) /\ x.c = NoL1
  <2>1. w \in Kinds
    BY DEF Kinds, Fetched
  <2> QED
    BY <2>1, EventTypes DEF Order, Event
<1>2. q.ups = {<<C(k), x>>} /\ q.downs = <<>> /\ q.entry = s2 /\ q.fatal = FALSE
  BY DEF Outcome, Commands
<1>3. Order(t, k) # NoEvent /\ Order(t, k) \in Events(k)
  BY OrderTypes DEF Fetched
<1>4. /\ s2.pend = Order(t, k) /\ s2.sharers = {}
      /\ t = "dir_rd" => s2.type = "tr_s" /\ s2.l1l2 = "E"
      /\ t # "dir_rd" => s2.type = "tr_i" /\ s2.l1l2 = "tr_i"
  BY DEF Entry
<1>5. s2 \in Entries
  <2>1. Order(t, k) \in Evts
    BY <1>3 DEF Evts
  <2> QED
    BY <2>1 DEF Entry, Entries, L2Types, Stable
<1>6. Answers(ToSet(v)) <=> Answers(ToSet(u))
  <2>1. x \in Evts
    BY <1>1 DEF Evts
  <2>2. ToSet(v) = ToSet(u) \cup {x}
    BY <2>1, AppendSet
  <2> QED
    BY <1>1, <2>2 DEF Answers
<1>7. /\ s.type = "M" /\ d = {}
      /\ \/ a = "M" /\ u = <<>>
         \/ a = "I" /\ u \in {<<Answer(k, "write")>>, <<Drop(k), Answer(k, "write")>>}
  BY DEF Modified
<1>8. Wanted(k, a, v, w)
  BY <1>7, WantedBy
<1>9. Line(k, a, s2, v, d)
  <2>1. CASE t = "dir_rd"
    BY <1>4, <1>7, <1>8, <2>1 DEF Line, Fetching
  <2>2. CASE t # "dir_rd"
    BY <1>4, <1>7, <1>8, <2>2 DEF Line, Leaving
  <2> QED
    BY <2>1, <2>2
<1>10. /\ ~Asks(tl2) /\ ~Replies(td) /\ k \in D.sharers /\ (Answers(tl2) <=> Answers(tl))
       /\ ~Has(tl, "write_nd") /\ Owes(s, td, tl)
       /\ t = "dir_rd" => D.type = "m_s"
       /\ t # "dir_rd" => D.type = "tr_m" /\ Waits(D)
  BY DEF Bidden, Empty
<1>11. \A z \in Data \cup {"write_nd"} : ~Has(tl2, z)
  BY DEF Bidden, Empty
<1>12. ~Has(tl2, "nack")
  <2>1. ~Has(tl, "nack")
    BY <1>7 DEF Place, Gets
  <2> QED
    BY <2>1 DEF Has
<1> HIDE DEF q, tl2, x, v
<1>13. Access(k, a, o, v, d, td, tl2, D, m)
  BY <1>6, <1>10 DEF Access, One
<1>14. Place(k, s2, td, tl2, D, m)
  <2>1. Holds(k, s, td, tl, D, m) /\ Wishes(k, s, td, tl, D) /\ Obeys(k, s, td, tl, D, m)
    BY DEF Place
  <2>2. D.sharers = {k}
    BY <1>7, <2>1 DEF Holds, Writer, Upgrading
  <2>3. Holds(k, s2, td, tl2, D, m)
    BY <1>4, <1>10, <2>2 DEF Holds
  <2>4. Gets(k, s2, tl2, D, m)
    BY <1>11, <1>12 DEF Gets, Data
  <2>5. Wishes(k, s2, td, tl2, D)
    BY <1>7, <1>10, <2>1 DEF Wishes
  <2>6. Obeys(k, s2, td, tl2, D, m)
    BY <1>3, <1>4, <1>10 DEF Obeys, Owes, Asks, Replies
  <2> QED
    BY <2>3, <2>4, <2>5, <2>6 DEF Place
<1>15. Owes(s2, td, tl2)
  BY <1>3, <1>4 DEF Owes
<1>16. td \cup ToSet(<<>>) = td
  BY Elements
<1>17. Sound(k, a, o, s2, v, d, td, tl2, D, m)
  BY <1>9, <1>13, <1>14 DEF Sound
<1>18. \E z \in Events(k) : q.ups = {<<C(k), z>>} /\ v = Append(u, z)
  BY <1>1, <1>2 DEF v
<1>19. Served(k, q, a, o, s, u, d, td, tl, tl2, D, m)
  BY <1>2, <1>5, <1>10, <1>15, <1>16, <1>17, <1>18 DEF Served
<1> QED
  BY <1>19 DEF q, tl2

\* CacheL2: et_e_to_s and et_s_to_s.
LEMMA SharingServed ==
    ASSUME Private, NEW k \in L2s, NEW a, NEW o, NEW s \in Entries, NEW u \in Seq(Evts), NEW d, NEW td,
           NEW tl, NEW D, NEW m, Sound(k, a, o, s, u, d, td, tl, D, m),
           NEW e, Bidden(k, s, td, tl, e, D), NEW t \in Sharing, e.t = t
    PROVE  Served(k, OnToShared(k, s, Order(t, k)), a, o, s, u, d, td, tl, tl \ {e}, D, m)
<1>1. Access(k, a, o, u, d, td, tl, D, m) /\ Line(k, a, s, u, d) /\ Place(k, s, td, tl, D, m)
  BY DEF Sound
<1>2. D.type = "tr_s" /\ s.pend = NoEvent /\ k \in D.sharers
  BY DEF Bidden
<1>3. s.type # "M"
  BY <1>1, <1>2 DEF Place, Holds, Writer, Upgrading
<1>4. Absent(k, a, s, u, d) \/ Clean(k, a, s, u, d)
  BY <1>1, <1>2, <1>3, Unpended DEF Modified
<1>5. CASE Absent(k, a, s, u, d)
  <2> DEFINE w == IF t = "e_to_s" THEN "e_to_s_nd" ELSE "s_to_s_nd"
             y == Order(w, k)
  <2>1. s.type = "I"
    BY <1>5 DEF Absent
  <2>2. Fits(k, w, s, D)
    BY <1>2, <2>1 DEF Fits, Shared
  <2>3. OnToShared(k, s, Order(t, k)) = Outcome(s, {}, <<y>>)
    BY <2>1, OnOrderTable
  <2>4. y = Order(w, k)
    OBVIOUS
  <2> HIDE DEF w, y
  <2>5. Served(k, Outcome(s, {}, <<y>>), a, o, s, u, d, td, tl, tl \ {e}, D, m)
    BY <1>1, <2>1, <2>2, <2>4, OrderPaid
  <2> QED
    BY <2>3, <2>5
<1>6. CASE Clean(k, a, s, u, d)
  <2> DEFINE s2 == Entry("S", s.l1l2, s.sharers, s.pend)
             y == Order(t, k)
  <2>1. s.type \in {"E", "S", "tr_m"}
    BY <1>6 DEF Clean
  <2>2. s2.type = "S" /\ s2.l1l2 = s.l1l2 /\ s2.sharers = s.sharers /\ s2.pend = NoEvent
    BY <1>2 DEF Entry
  <2>3. s2 \in Entries
    BY DEF Entry, Entries, L2Types, Stable
  <2>4. OnToShared(k, s, Order(t, k)) = Outcome(s2, {}, <<y>>)
    BY <2>1, OnOrderTable
  <2>5. y = Order(t, k)
    OBVIOUS
  <2> HIDE DEF s2, y
  <2>6. Fits(k, t, s2, D)
    BY <1>2, <2>2 DEF Fits, Shared, Sharing
  <2>7. Line(k, a, s2, u, d)
    BY <1>6, <2>2 DEF Clean, Line
  <2>8. s2.type = "S" => s.type # "I"
    BY <2>1
  <2>9. Served(k, Outcome(s2, {}, <<y>>), a, o, s, u, d, td, tl, tl \ {e}, D, m)
    BY <1>1, <2>3, <2>5, <2>6, <2>7, <2>8, OrderPaid
  <2> QED
    BY <2>4, <2>9
<1> QED
  BY <1>4, <1>5, <1>6

\* CacheL2: et_dir_rd.
LEMMA FetchServed ==
    ASSUME Private, NEW k \in L2s, NEW a, NEW o, NEW s \in Entries, NEW u \in Seq(Evts), NEW d, NEW td,
           NEW tl, NEW D, NEW m, Sound(k, a, o, s, u, d, td, tl, D, m),
           NEW e, Bidden(k, s, td, tl, e, D), e.t = "dir_rd", D.sharers = {k}, Asks(tl)
    PROVE  Served(k, OnDirRd(k, s, Order("dir_rd", k)), a, o, s, u, d, td, tl, tl \ {e}, D, m)
<1>1. Access(k, a, o, u, d, td, tl, D, m) /\ Line(k, a, s, u, d) /\ Place(k, s, td, tl, D, m)
  BY DEF Sound
<1>2. D.type = "m_s" /\ s.pend = NoEvent /\ k \in D.sharers /\ ~Replies(td)
  BY DEF Bidden
<1>3. s.type \notin {"E", "S", "tr_m"}
  BY <1>1, <1>2 DEF Place, Holds, Exclusive, Sharer, Upgrading
<1>4. Absent(k, a, s, u, d) \/ Modified(k, a, s, u, d)
  BY <1>1, <1>2, <1>3, Unpended DEF Clean
<1>5. CASE Absent(k, a, s, u, d)
  <2> DEFINE w == "dir_rd_nd"
             y == Order(w, k)
  <2>1. s.type = "I"
    BY <1>5 DEF Absent
  <2>2. Fits(k, w, s, D)
    BY <1>2, <2>1 DEF Fits, Fetched
  <2>3. OnDirRd(k, s, Order("dir_rd", k)) = Outcome(s, {}, <<y>>)
    BY <2>1, OnOrderTable
  <2>4. y = Order(w, k)
    OBVIOUS
  <2> HIDE DEF w, y
  <2>5. Served(k, Outcome(s, {}, <<y>>), a, o, s, u, d, td, tl, tl \ {e}, D, m)
    BY <1>1, <2>1, <2>2, <2>4, OrderPaid
  <2> QED
    BY <2>3, <2>5
<1>6. CASE Modified(k, a, s, u, d)
  <2> DEFINE t == "dir_rd"
             s2 == Entry("tr_s", "E", {}, Order(t, k))
  <2>1. s.type = "M" /\ s.l1l2 = "M" /\ s.sharers = {C(k)}
    BY <1>6 DEF Modified
  <2>2. OnDirRd(k, s, Order("dir_rd", k)) = Outcome(s2, Commands(k, t), <<>>)
    BY <2>1, OnOrderTable
  <2>3. /\ t \in Dropping \cup {"dir_rd"} /\ e.t = t
        /\ t = IF t = "dir_rd" THEN "dir_rd" ELSE "m_to_m"
        /\ s2 = IF t = "dir_rd" THEN Entry("tr_s", "E", {}, Order(t, k))
                ELSE Entry("tr_i", "tr_i", {}, Order(t, k))
    OBVIOUS
  <2> HIDE DEF t, s2
  <2>4. Served(k, Outcome(s2, Commands(k, t), <<>>), a, o, s, u, d, td, tl, tl \ {e}, D, m)
    BY <1>1, <1>6, <2>3, OrderHeld
  <2> QED
    BY <2>2, <2>4
<1> QED
  BY <1>4, <1>5, <1>6

LEMMA DropAppended ==
    ASSUME NEW k, NEW a, NEW s, NEW u, NEW d, Clean(k, a, s, u, d)
    PROVE  Absent(k, a, NoEntry, Append(u, Drop(k)), d)
<1> DEFINE x == Drop(k)
           n == Answer(k, "nack")
           r == Answer(k, "read")
<1>1. Append(<<>>, Drop(k)) = <<Drop(k)>>
  BY Short, Zenon
<1>2. Append(<<Answer(k, "nack")>>, Drop(k)) = <<Answer(k, "nack"), Drop(k)>>
  BY AppendSecond
<1>3. Append(<<Answer(k, "read")>>, Drop(k)) = <<Answer(k, "read"), Drop(k)>>
  BY AppendSecond
<1>4. Append(<<Drop(k), Answer(k, "read")>>, Drop(k)) = <<Drop(k), Answer(k, "read"), Drop(k)>>
  BY AppendThird
<1>5. NoEntry.type = "I" /\ NoEntry.l1l2 = "I" /\ NoEntry.sharers = {} /\ NoEntry.pend = NoEvent
  BY DEF NoEntry, Entry
<1>6. ~Replies(d)
  BY DEF Clean
<1> HIDE DEF x, n, r
<1>7. Append(<<>>, x) = <<x>> /\ Append(<<n>>, x) = <<n, x>> /\ Append(<<r>>, x) = <<r, x>>
  BY <1>1, <1>2, <1>3 DEF x, n, r
<1>8. Append(<<x, r>>, x) = <<x, r, x>>
  BY <1>4 DEF x, r
<1>9. \/ a = "I" /\ u \in {<<>>, <<n>>, <<r>>, <<x, r>>}
      \/ a = "E" /\ u = <<>>
  BY DEF Clean, x, n, r
<1>10. \/ a = "I" /\ Append(u, x) \in {<<x>>, <<n, x>>, <<r, x>>, <<x, r, x>>}
       \/ a = "E" /\ Append(u, x) = <<x>>
  BY <1>7, <1>8, <1>9
<1> QED
  BY <1>5, <1>6, <1>10 DEF Absent, x, n, r

\* CacheL2: et_invalidate and et_invalidate_nd.
LEMMA DropServed ==
    ASSUME Private, NEW k \in L2s, NEW a, NEW o, NEW s \in Entries, NEW u \in Seq(Evts), NEW d, NEW td,
           NEW tl, NEW D, NEW m, Sound(k, a, o, s, u, d, td, tl, D, m),
           NEW e, Bidden(k, s, td, tl, e, D), NEW t \in Dropping, e.t = t
    PROVE  Served(k, OnInvalidate(k, s, Order(t, k)), a, o, s, u, d, td, tl, tl \ {e}, D, m)
<1>1. Access(k, a, o, u, d, td, tl, D, m) /\ Line(k, a, s, u, d) /\ Place(k, s, td, tl, D, m)
  BY DEF Sound
<1>2. D.type = "tr_m" /\ Waits(D) /\ s.pend = NoEvent /\ k \in D.sharers
  BY DEF Bidden
<1>3. Absent(k, a, s, u, d) \/ Clean(k, a, s, u, d) \/ Modified(k, a, s, u, d)
  BY <1>1, <1>2, Unpended
<1>4. CASE Absent(k, a, s, u, d)
  <2> DEFINE w == "invalidate_nd"
             y == Order(w, k)
  <2>1. s.type = "I"
    BY <1>4 DEF Absent
  <2>2. Fits(k, w, s, D)
    BY <1>2, <2>1 DEF Fits, Dropping
  <2>3. OnInvalidate(k, s, Order(t, k)) = Outcome(s, {}, <<y>>)
    BY <2>1, OnOrderTable
  <2>4. y = Order(w, k)
    OBVIOUS
  <2> HIDE DEF w, y
  <2>5. Served(k, Outcome(s, {}, <<y>>), a, o, s, u, d, td, tl, tl \ {e}, D, m)
    BY <1>1, <2>1, <2>2, <2>4, OrderPaid
  <2> QED
    BY <2>3, <2>5
<1>5. CASE Clean(k, a, s, u, d)
  <2> DEFINE y == Order(t, k)
             v == Append(u, Drop(k))
             ups == Commands(k, "evict")
  <2>1. s.type \in {"E", "S", "tr_m"} /\ s.l1l2 = "E" /\ s.sharers = {C(k)}
    BY <1>5 DEF Clean
  <2>2. OnInvalidate(k, s, Order(t, k)) = Outcome(NoEntry, ups, <<y>>)
    BY <2>1, OnOrderTable
  <2>3. /\ y = Order(t, k)
        /\ \/ ups = {} /\ v = u
           \/ ups = Commands(k, "evict") /\ v = Append(u, Drop(k))
    OBVIOUS
  <2>4. NoEntry.type = "I" /\ NoEntry.pend = NoEvent /\ NoEntry \in Entries
    BY DEF NoEntry, Entry, Entries, L2Types
  <2>5. Fits(k, t, NoEntry, D)
    BY <1>2, <2>4 DEF Fits
  <2>6. Line(k, a, NoEntry, v, d)
    BY <1>5, DropAppended DEF Line
  <2> HIDE DEF y, v, ups
  <2>7. Served(k, Outcome(NoEntry, ups, <<y>>), a, o, s, u, d, td, tl, tl \ {e}, D, m)
    BY <1>1, <2>3, <2>4, <2>5, <2>6, OrderPaid
  <2> QED
    BY <2>2, <2>7
<1>6. CASE Modified(k, a, s, u, d)
  <2> DEFINE w == "m_to_m"
             s2 == Entry("tr_i", "tr_i", {}, Order(t, k))
  <2>1. s.type = "M" /\ s.l1l2 = "M" /\ s.sharers = {C(k)}
    BY <1>6 DEF Modified
  <2>2. OnInvalidate(k, s, Order(t, k)) = Outcome(s2, Commands(k, w), <<>>)
    BY <2>1, OnOrderTable
  <2>3. /\ t \in Dropping \cup {"dir_rd"} /\ e.t = t
        /\ w = IF t = "dir_rd" THEN "dir_rd" ELSE "m_to_m"
        /\ s2 = IF t = "dir_rd" THEN Entry("tr_s", "E", {}, Order(t, k))
                ELSE Entry("tr_i", "tr_i", {}, Order(t, k))
    BY DEF Dropping
  <2> HIDE DEF w, s2
  <2>4. Served(k, Outcome(s2, Commands(k, w), <<>>), a, o, s, u, d, td, tl, tl \ {e}, D, m)
    BY <1>1, <1>6, <2>3, OrderHeld
  <2> QED
    BY <2>2, <2>4
<1> QED
  BY <1>3, <1>4, <1>5, <1>6

-----------------------------------------------------------------------------
(* The L2s while the directory handles an event: their lines do not change. *)

\* The directory's step leaves L2 k the events td to it, and sends L2 k those of G.
Sendable(k, tl, G) ==
    \/ G = {}
    \/ \E x \in L2Events(k) : /\ G = {x} /\ \A y \in tl : y.c # x.c
                              /\ x.t \in Data => ~Asks(tl)
Sees(k, a, o, s, u, d, td, tl, G, D, m) ==
    /\ Sendable(k, tl, G)
    /\ Access(k, a, o, u, d, td, tl \cup G, D, m)
    /\ Place(k, s, td, tl \cup G, D, m)

\* An L2 that owes the directory nothing; one that does not have the line either.
Still(s, td, tl) == ~Asks(tl) /\ ~Replies(td) /\ s.pend = NoEvent
Idle(s, td, tl)  == s.type = "I" /\ s.pend = NoEvent /\ ~Replies(td) /\ Empty(tl)

\* The types of orders and answers.
LEMMA DirKinds ==
    ASSUME Private, NEW k \in L2s, NEW d, NEW td, NEW tl, Sets(k, d, td, tl)
    PROVE  /\ \A e \in tl : e.c = NoL1 => e.t \in Sharing \cup Dropping \cup {"dir_rd"}
           /\ \A e \in tl : e.c # NoL1 => e.t \in Data \cup {"nack", "write_nd"} /\ e.c = C(k)
           /\ \A e \in td : e.rep => e.t \in Shared \cup Fetched \cup Dropping \cup {"e_to_m"}
           /\ \A e \in td : ~e.rep => e.t \in {"read", "write"}
<1>1. C(k) # NoL1
  BY OwnL1
<1>2. /\ \A e \in tl : e.c = NoL1 => e.t \in Sharing \cup Dropping \cup {"dir_rd"}
      /\ \A e \in tl : e.c # NoL1 => e.t \in Data \cup {"nack", "write_nd"} /\ e.c = C(k)
  BY <1>1 DEF Sets, L2Events
<1>3. /\ \A e \in td : e.rep => e.t \in Shared \cup Fetched \cup Dropping \cup {"e_to_m"}
      /\ \A e \in td : ~e.rep => e.t \in {"read", "write"}
  BY DEF Sets, DirEvents, Request
<1> QED
  BY <1>2, <1>3

LEMMA Pended ==
    ASSUME NEW k, NEW a, NEW s, NEW u, NEW d, Line(k, a, s, u, d), s.type \notin {"tr_s", "tr_i"}
    PROVE  s.pend = NoEvent
  BY DEF Line, Absent, Clean, Modified, Leaving, Fetching

LEMMA IsStill ==
    ASSUME Private, NEW k \in L2s, NEW a, NEW o, NEW s, NEW u, NEW d, NEW td, NEW tl, NEW D, NEW m,
           Sound(k, a, o, s, u, d, td, tl, D, m), Sets(k, d, td, tl),
           \/ D.type \in Stable \cup {"tr_e", "none"}
           \/ k \notin D.sharers
           \/ D.type = "tr_m" /\ ~Waits(D) /\ m # <<>>
    PROVE  Still(s, td, tl) /\ s.type \notin {"tr_s", "tr_i"}
<1>1. Holds(k, s, td, tl, D, m) /\ Obeys(k, s, td, tl, D, m) /\ Line(k, a, s, u, d)
  BY DEF Sound, Place
<1>2. \A e \in tl : e.c # NoL1
  <2>1. \A e \in tl : e.c = NoL1 => e.t \in Sharing \cup Dropping \cup {"dir_rd"}
    BY DirKinds
  <2> QED
    BY <1>1, <2>1 DEF Obeys, Stable
<1>3. \A e \in td : ~e.rep
  <2>1. \A e \in td : e.rep => e.t \in Shared \cup Fetched \cup Dropping \cup {"e_to_m"}
    BY DirKinds
  <2> QED
    BY <1>1, <2>1 DEF Obeys, Stable, Upgrading
<1>4. s.type \notin {"tr_s", "tr_i"}
  BY <1>1 DEF Holds, Stable
<1>5. s.pend = NoEvent
  BY <1>1, <1>4, Pended
<1> QED
  BY <1>2, <1>3, <1>4, <1>5 DEF Still, Asks, Replies

LEMMA IsIdle ==
    ASSUME Private, NEW k \in L2s, NEW a, NEW o, NEW s, NEW u, NEW d, NEW td, NEW tl, NEW D, NEW m,
           Sound(k, a, o, s, u, d, td, tl, D, m), Sets(k, d, td, tl), s \in Entries,
           \/ k \notin D.sharers
           \/ D.type = "tr_e"
           \/ D.type = "tr_m" /\ ~Waits(D) /\ m # <<>>
    PROVE  Idle(s, td, tl)
<1>1. Still(s, td, tl) /\ s.type \notin {"tr_s", "tr_i"}
  BY IsStill
<1>2. Holds(k, s, td, tl, D, m) /\ Gets(k, s, tl, D, m)
  BY DEF Sound, Place
<1>3. s.type \in {"I", "E", "S", "M", "tr_m"}
  BY <1>1 DEF Entries, L2Types, Stable
<1>4. ~Exclusive(k, tl, D) /\ ~Sharer(k, tl, D) /\ ~Writer(k, tl, D) /\ ~Upgrading(k, D, m)
  BY DEF Exclusive, Sharer, Writer, Upgrading
<1>5. s.type = "I"
  BY <1>2, <1>3, <1>4 DEF Holds
<1>6. ~Has(tl, "e_rd") /\ ~Has(tl, "s_rd") /\ ~Has(tl, "write") /\ ~Has(tl, "write_nd")
  BY <1>2, <1>4 DEF Gets
<1> QED
  BY <1>1, <1>5, <1>6 DEF Idle, Still, Empty, Data

\* An idle L2 can be in its place whatever the directory does with others.
LEMMA IdleStays ==
    ASSUME Private, NEW k \in L2s, NEW s, NEW td, NEW tl, Idle(s, td, tl), NEW D, NEW m,
           k \in D.sharers => D.type # "E" /\ ~(D.type = "tr_m" /\ Waits(D))
    PROVE  Place(k, s, td, tl, D, m)
<1>1. s.type = "I" /\ ~Owes(s, td, tl) /\ ~Asks(tl) /\ ~Replies(td) /\ s.pend = NoEvent
  BY DEF Idle, Empty, Owes
<1>2. ~Has(tl, "e_rd") /\ ~Has(tl, "s_rd") /\ ~Has(tl, "write") /\ ~Has(tl, "write_nd")
  BY DEF Idle, Empty, Data
<1>3. Holds(k, s, td, tl, D, m)
  BY <1>1 DEF Holds
<1>4. Gets(k, s, tl, D, m)
  BY <1>1, <1>2 DEF Gets
<1>5. Wishes(k, s, td, tl, D)
  BY <1>1 DEF Wishes
<1>6. Obeys(k, s, td, tl, D, m)
  BY <1>1 DEF Obeys, Asks, Replies
<1> QED
  BY <1>3, <1>4, <1>5, <1>6 DEF Place

\* An idle L2 gets the answer x it waits for.
LEMMA IdleGets ==
    ASSUME Private, NEW k \in L2s, NEW s, NEW td, NEW tl, Idle(s, td, tl), NEW D, NEW m,
           NEW x, x.c = C(k), x.t \in Data \cup {"nack"}, ~Requests(td), D.pend.k # k,
           k \in D.sharers => ~(D.type = "tr_m" /\ Waits(D)) /\ (D.type = "E" => x.t = "e_rd"),
           x.t = "e_rd" => D.type = "E" /\ D.sharers = {k},
           x.t = "s_rd" => D.type = "S" /\ k \in D.sharers,
           x.t = "write" => D.type = "M" /\ D.sharers = {k}
    PROVE  Place(k, s, td, tl \cup {x}, D, m)
<1>1. s.type = "I" /\ ~Owes(s, td, tl) /\ ~Asks(tl) /\ ~Replies(td) /\ s.pend = NoEvent
  BY DEF Idle, Empty, Owes
<1>2. ~Has(tl, "e_rd") /\ ~Has(tl, "s_rd") /\ ~Has(tl, "write") /\ ~Has(tl, "write_nd")
  BY DEF Idle, Empty, Data
<1>3. x.c # NoL1 /\ x.t # "write_nd"
  BY OwnL1 DEF Data
<1>4. /\ \A t : Has(tl \cup {x}, t) <=> (Has(tl, t) \/ x.t = t)
      /\ ~Asks(tl \cup {x})
  BY <1>1, <1>3 DEF Has, Asks
<1>5. Holds(k, s, td, tl \cup {x}, D, m)
  BY <1>1 DEF Holds
<1>6. Gets(k, s, tl \cup {x}, D, m)
  BY <1>1, <1>2, <1>3, <1>4 DEF Gets, Exclusive, Sharer, Writer
<1>7. Wishes(k, s, td, tl \cup {x}, D)
  BY <1>1, <1>4 DEF Wishes
<1>8. Obeys(k, s, td, tl \cup {x}, D, m)
  BY <1>1, <1>4 DEF Obeys, Owes, Asks, Replies
<1> QED
  BY <1>5, <1>6, <1>7, <1>8 DEF Place

\* The request of an L2 is taken from the events to the directory.
LEMMA AskTaken ==
    ASSUME Private, NEW k \in L2s, NEW a, NEW o, NEW s, NEW u, NEW d, NEW td, NEW tl, NEW D, NEW m,
           Access(k, a, o, u, d, td, tl, D, m), Sets(k, d, td, tl), NEW e \in td, ~e.rep
    PROVE  /\ Requests(td) /\ ~Requests(td \ {e}) /\ (Replies(td \ {e}) <=> Replies(td))
           /\ ~Answers(tl) /\ ~Reads(k, m) /\ D.pend.k # k /\ o = 1
           /\ ~Requests(d) /\ ~Answers(ToSet(u))
<1>1. Requests(td) /\ ~Requests(td \ {e})
  BY DEF Requests, Sets
<1>2. Replies(td \ {e}) <=> Replies(td)
  BY DEF Replies
<1>3. /\ ~Answers(tl) /\ ~Reads(k, m) /\ D.pend.k # k /\ o = 1
      /\ ~Requests(d) /\ ~Answers(ToSet(u))
  BY <1>1 DEF Access, One
<1> QED
  BY <1>1, <1>2, <1>3

\* The request e of L2 k is nacked.
LEMMA NackSeen ==
    ASSUME Private, NEW k \in L2s, NEW a, NEW o, NEW s, NEW u, NEW d, NEW td, NEW tl, NEW D, NEW m,
           Sound(k, a, o, s, u, d, td, tl, D, m), Sets(k, d, td, tl), NEW e \in td, ~e.rep,
           D.type = "E" => e.t = "read", NEW x \in L2Events(k), x.c = C(k), x.t = "nack"
    PROVE  Sees(k, a, o, s, u, d, td \ {e}, tl, {x}, D, m)
<1>1. Access(k, a, o, u, d, td, tl, D, m) /\ Place(k, s, td, tl, D, m)
  BY DEF Sound
<1>2. /\ Requests(td) /\ ~Requests(td \ {e}) /\ (Replies(td \ {e}) <=> Replies(td))
      /\ ~Answers(tl) /\ ~Reads(k, m) /\ D.pend.k # k /\ o = 1
      /\ ~Requests(d) /\ ~Answers(ToSet(u))
  BY <1>1, AskTaken
<1>3. x.c # NoL1
  BY OwnL1
<1>4. /\ \A t : Has(tl \cup {x}, t) <=> (Has(tl, t) \/ t = "nack")
      /\ Answers(tl \cup {x}) /\ (Asks(tl \cup {x}) <=> Asks(tl))
  BY <1>3 DEF Has, Asks, Answers
<1>5. \A y \in tl : y.c # x.c
  BY <1>2, <1>3 DEF Answers
<1>6. Access(k, a, o, u, d, td \ {e}, tl \cup {x}, D, m)
  BY <1>1, <1>2, <1>4 DEF Access, One
<1>7. e.t \in {"read", "write"} /\ Has(td, e.t)
  BY DirKinds DEF Has
<1>8. ~Has(td \ {e}, "read") /\ ~Has(td \ {e}, "write")
  BY <1>2 DEF Has, Requests, Sets, DirEvents, Request, Shared, Fetched, Dropping
<1>9. Holds(k, s, td, tl, D, m) /\ Gets(k, s, tl, D, m) /\ Wishes(k, s, td, tl, D) /\ Obeys(k, s, td, tl, D, m)
  BY <1>1 DEF Place
<1>10. s.type \in {"I", "S", "tr_m"} /\ (D.type = "E" => s.type = "I")
  BY <1>7, <1>9 DEF Wishes
<1>11. Has(td, "e_to_m") => Has(td \ {e}, "e_to_m")
  BY <1>7 DEF Has
<1>12. Holds(k, s, td \ {e}, tl \cup {x}, D, m)
  BY <1>2, <1>4, <1>9, <1>10, <1>11 DEF Holds, Exclusive, Sharer, Writer
<1>13. Gets(k, s, tl \cup {x}, D, m)
  BY <1>4, <1>9, <1>10 DEF Gets, Exclusive, Sharer, Writer
<1>14. Wishes(k, s, td \ {e}, tl \cup {x}, D)
  BY <1>2, <1>4, <1>8, <1>9 DEF Wishes
<1>15. Obeys(k, s, td \ {e}, tl \cup {x}, D, m)
  BY <1>2, <1>3, <1>4, <1>9 DEF Obeys, Owes
<1>16. Place(k, s, td \ {e}, tl \cup {x}, D, m)
  BY <1>12, <1>13, <1>14, <1>15 DEF Place
<1>17. x.t \notin Data
  BY DEF Data
<1> QED
  BY <1>5, <1>6, <1>16, <1>17 DEF Sees, Sendable

\* The sharer k is asked to share the line with the L2 whose read is pending in D2.
AskedOf(k, D, D2, x) ==
    /\ D.type \in Stable /\ k \in D.sharers /\ (D.type # "S" => D.sharers = {k}) /\ D.pend.k # k
    /\ D2.sharers = D.sharers /\ D2.type = (IF D.type = "M" THEN "m_s" ELSE "tr_s") /\ D2.pend.k # k
    /\ x \in L2Events(k) /\ x.c = NoL1
    /\ x.t = IF D.type = "E" THEN "e_to_s" ELSE IF D.type = "M" THEN "dir_rd" ELSE "s_to_s"

LEMMA AskedSeen ==
    ASSUME Private, NEW k \in L2s, NEW a, NEW o, NEW s, NEW u, NEW d, NEW td, NEW tl, NEW D, NEW m,
           Sound(k, a, o, s, u, d, td, tl, D, m), Sets(k, d, td, tl),
           NEW D2, NEW x, AskedOf(k, D, D2, x)
    PROVE  Sees(k, a, o, s, u, d, td, tl, {x}, D2, m) /\ Owes(s, td, tl \cup {x})
<1>0. /\ D.type \in Stable /\ k \in D.sharers /\ (D.type # "S" => D.sharers = {k}) /\ D.pend.k # k
      /\ D2.sharers = D.sharers /\ D2.type = (IF D.type = "M" THEN "m_s" ELSE "tr_s") /\ D2.pend.k # k
      /\ x \in L2Events(k) /\ x.c = NoL1
      /\ x.t = IF D.type = "E" THEN "e_to_s" ELSE IF D.type = "M" THEN "dir_rd" ELSE "s_to_s"
  BY DEF AskedOf
<1> USE <1>0
<1>1. Access(k, a, o, u, d, td, tl, D, m) /\ Place(k, s, td, tl, D, m)
  BY DEF Sound
<1>2. Still(s, td, tl) /\ s.type \notin {"tr_s", "tr_i"}
  BY IsStill
<1>3. ~Asks(tl) /\ ~Replies(td) /\ s.pend = NoEvent
  BY <1>2 DEF Still
<1>4. /\ \A t : Has(tl \cup {x}, t) <=> (Has(tl, t) \/ x.t = t)
      /\ Asks(tl \cup {x}) /\ (Answers(tl \cup {x}) <=> Answers(tl))
  BY DEF Has, Asks, Answers
<1>5. \A y \in tl : y.c # x.c
  BY <1>3 DEF Asks
<1>6. Access(k, a, o, u, d, td, tl \cup {x}, D2, m)
  BY <1>1, <1>4 DEF Access, One
<1>7. Holds(k, s, td, tl, D, m) /\ Gets(k, s, tl, D, m) /\ Wishes(k, s, td, tl, D) /\ Obeys(k, s, td, tl, D, m)
  BY <1>1 DEF Place
<1>8. ~Upgrading(k, D, m) /\ D.type \in {"E", "S", "M"}
  BY DEF Upgrading, Stable
<1>9. Exclusive(k, tl, D) => Exclusive(k, tl \cup {x}, D2)
  BY <1>4, <1>8 DEF Exclusive
<1>10. Sharer(k, tl, D) => Sharer(k, tl \cup {x}, D2)
  BY <1>8 DEF Sharer
<1>11. Writer(k, tl, D) => Writer(k, tl \cup {x}, D2)
  BY <1>4, <1>8 DEF Writer
<1>12. Holds(k, s, td, tl \cup {x}, D2, m)
  BY <1>2, <1>7, <1>8, <1>9, <1>10, <1>11 DEF Holds
<1>13. x.t \notin Data \cup {"write_nd", "nack"}
  BY <1>8 DEF Data
<1>14. Gets(k, s, tl \cup {x}, D2, m)
  BY <1>4, <1>7, <1>8, <1>9, <1>10, <1>11, <1>13 DEF Gets, Data
<1>15. Wishes(k, s, td, tl \cup {x}, D2)
  BY <1>7 DEF Wishes
<1>16. Obeys(k, s, td, tl \cup {x}, D2, m)
  <2>1. \A e \in tl \cup {x} : e.c = NoL1 => e = x
    BY <1>3 DEF Asks
  <2>2. \A e \in td : ~e.rep
    BY <1>3 DEF Replies
  <2>3. /\ k \in D2.sharers
        /\ x.t \in Sharing => D2.type = "tr_s"
        /\ x.t = "dir_rd" => D2.type = "m_s"
        /\ x.t \notin Dropping /\ D2.type # "tr_m"
    BY <1>8 DEF Sharing, Dropping
  <2> QED
    BY <1>3, <2>1, <2>2, <2>3 DEF Obeys
<1>17. Place(k, s, td, tl \cup {x}, D2, m)
  BY <1>12, <1>14, <1>15, <1>16 DEF Place
<1>18. Owes(s, td, tl \cup {x})
  BY <1>4 DEF Owes
<1> QED
  BY <1>5, <1>6, <1>13, <1>17, <1>18 DEF Sees, Sendable

\* Another sharer of the line.
LEMMA OtherSharer ==
    ASSUME Private, NEW k \in L2s, NEW a, NEW o, NEW s, NEW u, NEW d, NEW td, NEW tl, NEW D, NEW m,
           Sound(k, a, o, s, u, d, td, tl, D, m), Sets(k, d, td, tl), D.type = "S", D.pend.k # k,
           NEW D2, D2.sharers = D.sharers, D2.type = "tr_s", D2.pend.k # k
    PROVE  Sees(k, a, o, s, u, d, td, tl, {}, D2, m) /\ ~Owes(s, td, tl)
<1>1. Access(k, a, o, u, d, td, tl, D, m) /\ Place(k, s, td, tl, D, m)
  BY DEF Sound
<1>2. Still(s, td, tl) /\ s.type \notin {"tr_s", "tr_i"}
  BY IsStill DEF Stable
<1>3. ~Asks(tl) /\ ~Replies(td) /\ s.pend = NoEvent
  BY <1>2 DEF Still
<1>4. Holds(k, s, td, tl, D, m) /\ Gets(k, s, tl, D, m) /\ Wishes(k, s, td, tl, D)
  BY <1>1 DEF Place
<1>5. Access(k, a, o, u, d, td, tl, D2, m)
  BY <1>1 DEF Access, One
<1>6. ~Exclusive(k, tl, D) /\ ~Writer(k, tl, D) /\ ~Upgrading(k, D, m)
  BY DEF Exclusive, Writer, Upgrading
<1>7. Sharer(k, tl, D) => Sharer(k, tl, D2)
  BY DEF Sharer
<1>8. Holds(k, s, td, tl, D2, m)
  BY <1>2, <1>4, <1>6, <1>7 DEF Holds
<1>9. Gets(k, s, tl, D2, m)
  BY <1>4, <1>6, <1>7 DEF Gets
<1>10. Wishes(k, s, td, tl, D2)
  BY <1>4 DEF Wishes
<1>11. Obeys(k, s, td, tl, D2, m)
  BY <1>3 DEF Obeys, Asks, Replies
<1>12. Place(k, s, td, tl, D2, m)
  BY <1>8, <1>9, <1>10, <1>11 DEF Place
<1>13. tl \cup {} = tl
  OBVIOUS
<1> QED
  BY <1>3, <1>5, <1>12, <1>13 DEF Sees, Sendable, Owes

\* The sharer k is told to drop the line; its own write may be the one that waits.
LEMMA DroppedSeen ==
    ASSUME Private, NEW k \in L2s, NEW a, NEW o, NEW s, NEW u, NEW d, NEW td, NEW tl, NEW D, NEW m,
           Sound(k, a, o, s, u, d, td, tl, D, m), Sets(k, d, td, tl),
           D.type \in Stable, k \in D.sharers, D.type # "S" => D.sharers = {k}, D.pend.k # k,
           NEW D2, D2.sharers = D.sharers, D2.type = "tr_m", Waits(D2), D2.pend.t = "write",
           NEW td2,
           \/ td2 = td /\ D2.pend.k # k
           \/ D.type = "S" /\ D2.pend.k = k /\ \E e \in td : ~e.rep /\ e.t = "write" /\ td2 = td \ {e},
           NEW x \in L2Events(k), x.c = NoL1, x.t \in Dropping
    PROVE  Sees(k, a, o, s, u, d, td2, tl, {x}, D2, m)
<1>1. Access(k, a, o, u, d, td, tl, D, m) /\ Place(k, s, td, tl, D, m)
  BY DEF Sound
<1>2. Still(s, td, tl) /\ s.type \notin {"tr_s", "tr_i"}
  BY IsStill
<1>3. ~Asks(tl) /\ ~Replies(td) /\ s.pend = NoEvent
  BY <1>2 DEF Still
<1>4. /\ \A t : Has(tl \cup {x}, t) <=> (Has(tl, t) \/ x.t = t)
      /\ Asks(tl \cup {x}) /\ (Answers(tl \cup {x}) <=> Answers(tl))
  BY DEF Has, Asks, Answers
<1>5. \A y \in tl : y.c # x.c
  BY <1>3 DEF Asks
<1>6. td2 \subseteq td /\ ~Replies(td2) /\ \A t : Has(td2, t) => Has(td, t)
  BY <1>3 DEF Replies, Has
<1>7. Access(k, a, o, u, d, td2, tl \cup {x}, D2, m)
  <2>1. CASE td2 = td /\ D2.pend.k # k
    BY <1>1, <1>4, <2>1 DEF Access, One
  <2>2. CASE D2.pend.k = k /\ \E e \in td : ~e.rep /\ e.t = "write" /\ td2 = td \ {e}
    <3>1. PICK e \in td : ~e.rep /\ e.t = "write" /\ td2 = td \ {e}
      BY <2>2
    <3>2. Requests(td) /\ ~Requests(td2)
      BY <1>1, <3>1, AskTaken
    <3> QED
      BY <1>1, <1>4, <2>2, <3>2 DEF Access, One
  <2> QED
    BY <2>1, <2>2
<1>8. Holds(k, s, td, tl, D, m) /\ Gets(k, s, tl, D, m) /\ Wishes(k, s, td, tl, D)
  BY <1>1 DEF Place
<1>9. ~Upgrading(k, D, m) /\ D.type \in {"E", "S", "M"}
  BY DEF Upgrading, Stable
<1>10. Exclusive(k, tl, D) => Exclusive(k, tl \cup {x}, D2)
  BY <1>4, <1>9 DEF Exclusive
<1>11. Sharer(k, tl, D) => Sharer(k, tl \cup {x}, D2)
  BY <1>4, <1>9 DEF Sharer
<1>12. Writer(k, tl, D) => Writer(k, tl \cup {x}, D2)
  BY <1>4, <1>9 DEF Writer
<1>13. Holds(k, s, td2, tl \cup {x}, D2, m)
  BY <1>2, <1>8, <1>9, <1>10, <1>11, <1>12 DEF Holds
<1>14. x.t \notin Data \cup {"write_nd", "nack"}
  BY DEF Data, Dropping
<1>15. Gets(k, s, tl \cup {x}, D2, m)
  BY <1>4, <1>8, <1>9, <1>10, <1>11, <1>12, <1>14 DEF Gets, Data
<1>16. Wishes(k, s, td2, tl \cup {x}, D2)
  <2>1. D2.pend.k = k => s.type \in {"I", "S"}
    <3>1. SUFFICES ASSUME D2.pend.k = k PROVE s.type \in {"I", "S"}
      OBVIOUS
    <3>2. Has(td, "write") /\ D.type = "S"
      BY <3>1 DEF Has
    <3> QED
      BY <1>8, <1>9, <3>2 DEF Wishes, Holds, Exclusive
  <2> QED
    BY <1>6, <1>8, <2>1 DEF Wishes
<1>17. Obeys(k, s, td2, tl \cup {x}, D2, m)
  <2>1. \A e \in tl \cup {x} : e.c = NoL1 => e = x
    BY <1>3 DEF Asks
  <2>2. \A e \in td2 : ~e.rep
    BY <1>6 DEF Replies
  <2>3. x.t \notin Sharing \cup {"dir_rd"}
    BY DEF Sharing, Dropping
  <2>4. Owes(s, td2, tl \cup {x})
    BY <1>4 DEF Owes
  <2> QED
    BY <1>3, <1>6, <2>1, <2>2, <2>3, <2>4 DEF Obeys
<1>18. Place(k, s, td2, tl \cup {x}, D2, m)
  BY <1>13, <1>15, <1>16, <1>17 DEF Place
<1> QED
  BY <1>5, <1>7, <1>14, <1>18 DEF Sees, Sendable

\* The directory grants L2 k its upgrade.
LEMMA UpgradeSeen ==
    ASSUME Private, NEW k \in L2s, NEW a, NEW o, NEW s, NEW u, NEW d, NEW td, NEW tl, NEW D, NEW m,
           Sound(k, a, o, s, u, d, td, tl, D, m), Sets(k, d, td, tl), NEW e \in td, ~e.rep,
           D.type = "E", D.sharers = {k}, m = <<>>,
           NEW D2, D2.sharers = D.sharers, D2.type = "tr_m", ~Waits(D2), D2.pend.k # k,
           NEW x \in L2Events(k), x.c = C(k), x.t = "write_nd"
    PROVE  Sees(k, a, o, s, u, d, td \ {e}, tl, {x}, D2, m)
<1>1. Access(k, a, o, u, d, td, tl, D, m) /\ Place(k, s, td, tl, D, m)
  BY DEF Sound
<1>2. Still(s, td, tl)
  BY IsStill DEF Stable
<1>3. ~Asks(tl) /\ ~Replies(td) /\ s.pend = NoEvent
  BY <1>2 DEF Still
<1>4. /\ Requests(td) /\ ~Requests(td \ {e}) /\ (Replies(td \ {e}) <=> Replies(td))
      /\ ~Answers(tl) /\ ~Reads(k, m) /\ D.pend.k # k /\ o = 1
      /\ ~Requests(d) /\ ~Answers(ToSet(u))
  BY <1>1, AskTaken
<1>5. x.c # NoL1
  BY OwnL1
<1>6. /\ \A t : Has(tl \cup {x}, t) <=> (Has(tl, t) \/ t = "write_nd")
      /\ Answers(tl \cup {x}) /\ ~Asks(tl \cup {x})
  BY <1>3, <1>5 DEF Has, Asks, Answers
<1>7. \A y \in tl : y.c # x.c
  BY <1>4, <1>5 DEF Answers
<1>8. Access(k, a, o, u, d, td \ {e}, tl \cup {x}, D2, m)
  BY <1>1, <1>4, <1>6 DEF Access, One
<1>9. s.type = "tr_m"
  BY <1>1, <1>4 DEF Place, Wishes
<1>10. Upgrading(k, D2, m)
  BY DEF Upgrading
<1>11. Holds(k, s, td \ {e}, tl \cup {x}, D2, m)
  BY <1>6, <1>9, <1>10 DEF Holds
<1>12. Gets(k, s, tl \cup {x}, D2, m)
  <2>1. Gets(k, s, tl, D, m)
    BY <1>1 DEF Place
  <2> QED
    BY <1>6, <1>9, <1>10, <2>1 DEF Gets
<1>13. Wishes(k, s, td \ {e}, tl \cup {x}, D2)
  <2>1. ~Has(td \ {e}, "read")
    BY <1>4 DEF Has, Requests, Sets, DirEvents, Request, Shared, Fetched, Dropping
  <2> QED
    BY <1>9, <2>1 DEF Wishes
<1>14. Obeys(k, s, td \ {e}, tl \cup {x}, D2, m)
  BY <1>3, <1>4, <1>6 DEF Obeys, Asks, Replies
<1>15. Place(k, s, td \ {e}, tl \cup {x}, D2, m)
  BY <1>11, <1>12, <1>13, <1>14 DEF Place
<1>16. x.t \notin Data
  BY DEF Data
<1> QED
  BY <1>7, <1>8, <1>15, <1>16 DEF Sees, Sendable

\* An idle L2 sees the directory's step, which may move its access.
LEMMA IdleSees ==
    ASSUME Private, NEW k \in L2s, NEW a, NEW o, NEW s, NEW u, NEW d, NEW td0, NEW td, NEW tl,
           NEW D, NEW m, NEW D2, NEW m2,
           Idle(s, td, tl), Access(k, a, o, u, d, td0, tl, D, m),
           One(Requests(td0)) + One(Reads(k, m)) + One(D.pend.k = k)
              = One(Requests(td)) + One(Reads(k, m2)) + One(D2.pend.k = k),
           k \in D2.sharers => D2.type # "E" /\ ~(D2.type = "tr_m" /\ Waits(D2))
    PROVE  Sees(k, a, o, s, u, d, td, tl, {}, D2, m2) /\ ~Owes(s, td, tl)
<1>1. Place(k, s, td, tl, D2, m2)
  BY IdleStays
<1>2. Access(k, a, o, u, d, td, tl, D2, m2)
  BY DEF Access, One
<1>3. tl \cup {} = tl
  OBVIOUS
<1>4. ~Owes(s, td, tl)
  BY DEF Idle, Empty, Owes
<1> QED
  BY <1>1, <1>2, <1>3, <1>4 DEF Sees, Sendable

\* An idle L2 gets the answer x to its access.
AnswerOf(k, D2, x) ==
    /\ x \in L2Events(k) /\ x.c = C(k) /\ x.t \in Data \cup {"nack"}
    /\ k \in D2.sharers => ~(D2.type = "tr_m" /\ Waits(D2)) /\ (D2.type = "E" => x.t = "e_rd")
    /\ x.t = "e_rd" => D2.type = "E" /\ D2.sharers = {k}
    /\ x.t = "s_rd" => D2.type = "S" /\ k \in D2.sharers
    /\ x.t = "write" => D2.type = "M" /\ D2.sharers = {k}

LEMMA IdleAnswered ==
    ASSUME Private, NEW k \in L2s, NEW a, NEW o, NEW s, NEW u, NEW d, NEW td0, NEW td, NEW tl,
           NEW D, NEW m, NEW D2, NEW m2,
           Idle(s, td, tl), Access(k, a, o, u, d, td0, tl, D, m),
           Requests(td0) \/ Reads(k, m) \/ D.pend.k = k,
           ~Requests(td), ~Reads(k, m2), D2.pend.k # k, NEW x, AnswerOf(k, D2, x)
    PROVE  Sees(k, a, o, s, u, d, td, tl, {x}, D2, m2)
<1>0. /\ x \in L2Events(k) /\ x.c = C(k) /\ x.t \in Data \cup {"nack"}
      /\ k \in D2.sharers => ~(D2.type = "tr_m" /\ Waits(D2)) /\ (D2.type = "E" => x.t = "e_rd")
      /\ x.t = "e_rd" => D2.type = "E" /\ D2.sharers = {k}
      /\ x.t = "s_rd" => D2.type = "S" /\ k \in D2.sharers
      /\ x.t = "write" => D2.type = "M" /\ D2.sharers = {k}
  BY DEF AnswerOf
<1> USE <1>0
<1>1. Place(k, s, td, tl \cup {x}, D2, m2)
  BY IdleGets
<1>2. x.c # NoL1
  BY OwnL1
<1>3. Answers(tl \cup {x})
  BY <1>2 DEF Answers
<1>4. ~Answers(tl)
  BY DEF Access, One
<1>5. Access(k, a, o, u, d, td, tl \cup {x}, D2, m2)
  BY <1>3, <1>4 DEF Access, One
<1>6. \A y \in tl : y.c # x.c
  BY <1>2, <1>4 DEF Answers
<1>7. ~Asks(tl)
  BY DEF Idle, Empty
<1> QED
  BY <1>1, <1>5, <1>6, <1>7 DEF Sees, Sendable

\* The directory takes the reply e of L2 k.
LEMMA ReplyTaken ==
    ASSUME Private, NEW k \in L2s, NEW s, NEW d, NEW td, NEW tl, NEW D, NEW m,
           Place(k, s, td, tl, D, m), Sets(k, d, td, tl), NEW e \in td, e.rep
    PROVE  /\ Replies(td) /\ ~Replies(td \ {e}) /\ (Requests(td \ {e}) <=> Requests(td))
           /\ ~Asks(tl) /\ s.pend = NoEvent /\ k \in D.sharers
           /\ \A t : Has(td \ {e}, t) => Has(td, t)
<1>1. Replies(td) /\ ~Replies(td \ {e})
  BY DEF Replies, Sets
<1>2. Requests(td \ {e}) <=> Requests(td)
  BY DEF Requests
<1>3. ~Asks(tl) /\ s.pend = NoEvent /\ k \in D.sharers
  BY <1>1 DEF Place, Obeys
<1>4. \A t : Has(td \ {e}, t) => Has(td, t)
  BY DEF Has
<1> QED
  BY <1>1, <1>2, <1>3, <1>4

\* L2 k reports that its upgrade is done.
LEMMA GrantedSeen ==
    ASSUME Private, NEW k \in L2s, NEW a, NEW o, NEW s, NEW u, NEW d, NEW td, NEW tl, NEW D, NEW m,
           Sound(k, a, o, s, u, d, td, tl, D, m), Sets(k, d, td, tl), NEW e \in td, e.rep, e.t = "e_to_m",
           NEW D2, D2.sharers = D.sharers, D2.type = "M", D2.pend = NoEvent
    PROVE  Sees(k, a, o, s, u, d, td \ {e}, tl, {}, D2, m) /\ Upgrading(k, D, m)
<1>1. Access(k, a, o, u, d, td, tl, D, m) /\ Place(k, s, td, tl, D, m)
  BY DEF Sound
<1>2. /\ Replies(td) /\ ~Replies(td \ {e}) /\ (Requests(td \ {e}) <=> Requests(td))
      /\ ~Asks(tl) /\ s.pend = NoEvent /\ k \in D.sharers
      /\ \A t : Has(td \ {e}, t) => Has(td, t)
  BY <1>1, ReplyTaken
<1>3. Upgrading(k, D, m) /\ s.type = "M"
  BY <1>1 DEF Place, Obeys
<1>4. D.pend = NoEvent /\ D2.sharers = {k} /\ NoEvent.k # k
  BY <1>3, OwnL1 DEF Upgrading, Waits, NoEvent, Event
<1>5. Access(k, a, o, u, d, td \ {e}, tl, D2, m)
  BY <1>1, <1>2, <1>4 DEF Access, One
<1>6. Holds(k, s, td \ {e}, tl, D2, m)
  BY <1>3, <1>4 DEF Holds, Writer
<1>7. Gets(k, s, tl, D2, m)
  BY <1>1, <1>3 DEF Place, Gets
<1>8. Wishes(k, s, td \ {e}, tl, D2)
  BY <1>1, <1>2, <1>3, <1>4 DEF Place, Wishes
<1>9. Obeys(k, s, td \ {e}, tl, D2, m)
  BY <1>2 DEF Obeys, Asks, Replies
<1>10. Place(k, s, td \ {e}, tl, D2, m)
  BY <1>6, <1>7, <1>8, <1>9 DEF Place
<1>11. tl \cup {} = tl
  OBVIOUS
<1> QED
  BY <1>3, <1>5, <1>10, <1>11 DEF Sees, Sendable

\* L2 k reports that it has dropped the line.
LEMMA DropIdle ==
    ASSUME Private, NEW k \in L2s, NEW a, NEW o, NEW s, NEW u, NEW d, NEW td, NEW tl, NEW D, NEW m,
           Sound(k, a, o, s, u, d, td, tl, D, m), Sets(k, d, td, tl), NEW e \in td, e.rep, e.t \in Dropping
    PROVE  Idle(s, td \ {e}, tl) /\ D.type = "tr_m" /\ Waits(D) /\ k \in D.sharers
           /\ (Requests(td \ {e}) <=> Requests(td))
<1>1. Place(k, s, td, tl, D, m)
  BY DEF Sound
<1>2. /\ Replies(td) /\ ~Replies(td \ {e}) /\ (Requests(td \ {e}) <=> Requests(td))
      /\ ~Asks(tl) /\ s.pend = NoEvent /\ k \in D.sharers
  BY <1>1, ReplyTaken
<1>3. D.type = "tr_m" /\ Waits(D) /\ s.type = "I"
  BY <1>1 DEF Place, Obeys
<1>4. ~Has(tl, "e_rd") /\ ~Has(tl, "s_rd") /\ ~Has(tl, "write") /\ ~Has(tl, "write_nd")
  BY <1>1, <1>2, <1>3 DEF Place, Gets, Exclusive, Sharer, Writer, Upgrading
<1> QED
  BY <1>2, <1>3, <1>4 DEF Idle, Empty, Data

\* Another L2 has dropped the line; more have to.
LEMMA LeftSeen ==
    ASSUME Private, NEW k \in L2s, NEW a, NEW o, NEW s, NEW u, NEW d, NEW td, NEW tl, NEW D, NEW m,
           Sound(k, a, o, s, u, d, td, tl, D, m), Sets(k, d, td, tl),
           D.type = "tr_m", Waits(D), NEW j \in D.sharers, j # k,
           NEW D2, D2.sharers = D.sharers \ {j}, D2.type = "tr_m", D2.pend = D.pend
    PROVE  Sees(k, a, o, s, u, d, td, tl, {}, D2, m)
<1>1. Access(k, a, o, u, d, td, tl, D, m) /\ Place(k, s, td, tl, D, m)
  BY DEF Sound
<1>2. Holds(k, s, td, tl, D, m) /\ Gets(k, s, tl, D, m) /\ Wishes(k, s, td, tl, D) /\ Obeys(k, s, td, tl, D, m)
  BY <1>1 DEF Place
<1>3. D.sharers # {k} /\ (k \in D2.sharers <=> k \in D.sharers) /\ Waits(D2)
  BY DEF Waits
<1>4. ~Exclusive(k, tl, D) /\ ~Writer(k, tl, D) /\ ~Upgrading(k, D, m)
  BY <1>3 DEF Exclusive, Writer, Upgrading
<1>5. Sharer(k, tl, D) => Sharer(k, tl, D2)
  BY <1>3 DEF Sharer
<1>6. Holds(k, s, td, tl, D2, m)
  BY <1>2, <1>3, <1>4, <1>5 DEF Holds
<1>7. Gets(k, s, tl, D2, m)
  BY <1>2, <1>4, <1>5 DEF Gets
<1>8. Wishes(k, s, td, tl, D2)
  BY <1>2 DEF Wishes
<1>9. Obeys(k, s, td, tl, D2, m)
  BY <1>2, <1>3, <1>4 DEF Obeys
<1>10. Place(k, s, td, tl, D2, m)
  BY <1>6, <1>7, <1>8, <1>9 DEF Place
<1>11. Access(k, a, o, u, d, td, tl, D2, m)
  BY <1>1 DEF Access
<1>12. tl \cup {} = tl
  OBVIOUS
<1> QED
  BY <1>10, <1>11, <1>12 DEF Sees, Sendable

\* L2 k reports that it shares the line.
LEMMA SharedSeen ==
    ASSUME Private, NEW k \in L2s, NEW a, NEW o, NEW s, NEW u, NEW d, NEW td, NEW tl, NEW D, NEW m,
           Sound(k, a, o, s, u, d, td, tl, D, m), Sets(k, d, td, tl), NEW e \in td, e.rep,
           e.t \in Shared \cup Fetched, D.pend.k # k,
           NEW D2, D.sharers \subseteq D2.sharers, D2.type = "S", D2.pend = NoEvent
    PROVE  Sees(k, a, o, s, u, d, td \ {e}, tl, {}, D2, m)
<1>1. Access(k, a, o, u, d, td, tl, D, m) /\ Place(k, s, td, tl, D, m)
  BY DEF Sound
<1>2. /\ Replies(td) /\ ~Replies(td \ {e}) /\ (Requests(td \ {e}) <=> Requests(td))
      /\ ~Asks(tl) /\ s.pend = NoEvent /\ k \in D.sharers
      /\ \A t : Has(td \ {e}, t) => Has(td, t)
  BY <1>1, ReplyTaken
<1>3. s.type \in {"I", "S"} /\ D.type \in {"tr_s", "m_s"} /\ k \in D2.sharers
  BY <1>1, <1>2 DEF Place, Obeys
<1>4. NoEvent.k # k
  BY OwnL1 DEF NoEvent, Event
<1>5. Access(k, a, o, u, d, td \ {e}, tl, D2, m)
  BY <1>1, <1>2, <1>4 DEF Access, One
<1>6. Holds(k, s, td \ {e}, tl, D2, m)
  BY <1>3 DEF Holds, Sharer
<1>7. ~Has(tl, "e_to_s")
  BY <1>2 DEF Has, Asks, Sets, L2Events, Data
<1>8. ~Has(tl, "e_rd") /\ ~Has(tl, "write") /\ ~Has(tl, "write_nd")
  BY <1>1, <1>2, <1>3, <1>7 DEF Place, Gets, Exclusive, Writer, Upgrading
<1>9. Gets(k, s, tl, D2, m)
  BY <1>1, <1>3, <1>8 DEF Place, Gets, Sharer
<1>10. Wishes(k, s, td \ {e}, tl, D2)
  BY <1>1, <1>2, <1>3, <1>4 DEF Place, Wishes
<1>11. Obeys(k, s, td \ {e}, tl, D2, m)
  BY <1>2 DEF Obeys, Asks, Replies
<1>12. Place(k, s, td \ {e}, tl, D2, m)
  BY <1>6, <1>9, <1>10, <1>11 DEF Place
<1>13. tl \cup {} = tl
  OBVIOUS
<1> QED
  BY <1>5, <1>12, <1>13 DEF Sees, Sendable

\* Another L2 shares the line.
LEMMA SharedOther ==
    ASSUME Private, NEW k \in L2s, NEW a, NEW o, NEW s, NEW u, NEW d, NEW td, NEW tl, NEW D, NEW m,
           Sound(k, a, o, s, u, d, td, tl, D, m), Sets(k, d, td, tl), ~Owes(s, td, tl),
           D.type \in {"tr_s", "m_s"}, D.sharers # {k}, D.pend.k # k,
           NEW D2, D.sharers \subseteq D2.sharers, D2.type = "S", D2.pend = NoEvent
    PROVE  Sees(k, a, o, s, u, d, td, tl, {}, D2, m)
<1>1. Access(k, a, o, u, d, td, tl, D, m) /\ Place(k, s, td, tl, D, m)
  BY DEF Sound
<1>2. Holds(k, s, td, tl, D, m) /\ Gets(k, s, tl, D, m) /\ Wishes(k, s, td, tl, D) /\ Obeys(k, s, td, tl, D, m)
  BY <1>1 DEF Place
<1>3. ~Asks(tl) /\ ~Replies(td) /\ s.pend = NoEvent
  BY DEF Owes
<1>4. ~Exclusive(k, tl, D) /\ ~Writer(k, tl, D) /\ ~Upgrading(k, D, m)
  BY DEF Exclusive, Writer, Upgrading
<1>5. Sharer(k, tl, D) => Sharer(k, tl, D2)
  BY DEF Sharer
<1>6. NoEvent.k # k
  BY OwnL1 DEF NoEvent, Event
<1>7. Access(k, a, o, u, d, td, tl, D2, m)
  BY <1>1, <1>6 DEF Access, One
<1>8. Holds(k, s, td, tl, D2, m)
  BY <1>2, <1>4, <1>5 DEF Holds
<1>9. Gets(k, s, tl, D2, m)
  BY <1>2, <1>4, <1>5 DEF Gets
<1>10. Wishes(k, s, td, tl, D2)
  BY <1>2, <1>6 DEF Wishes
<1>11. Obeys(k, s, td, tl, D2, m)
  BY <1>3 DEF Obeys, Asks, Replies
<1>12. Place(k, s, td, tl, D2, m)
  BY <1>8, <1>9, <1>10, <1>11 DEF Place
<1>13. tl \cup {} = tl
  OBVIOUS
<1> QED
  BY <1>7, <1>12, <1>13 DEF Sees, Sendable

-----------------------------------------------------------------------------
(* The directory handles an event.                                         *)

\* The parts of the invariant about L2 k, on the values of its variables.
Settles(k) == Sound(k, l1[C(k)], out[C(k)], l2[k], up[C(k)],
                    ToSet(dn[C(k)]), ToSet(todir[k]), ToSet(toL2[k]), dir, mc)
Splits(k)  == Sets(k, ToSet(dn[C(k)]), ToSet(todir[k]), ToSet(toL2[k]))

LEMMA NodeFacts ==
    ASSUME Inv, NEW k \in L2s
    PROVE  /\ Settles(k) /\ Splits(k) /\ l2[k] \in Entries
           /\ Queues(k, dn[C(k)], todir[k], toL2[k])
<1>1. Node(k) /\ Frame
  BY DEF Inv
<1>2. Settles(k) /\ Queues(k, dn[C(k)], todir[k], toL2[k])
  BY <1>1 DEF Node, Settles, Sound
<1>3. l2[k] \in Entries
  BY <1>1 DEF Frame, Entries
<1>4. Splits(k)
  <2>1. /\ ToSet(dn[C(k)]) \subseteq DnEvents(k) /\ ToSet(todir[k]) \subseteq DirEvents(k)
        /\ ToSet(toL2[k]) \subseteq L2Events(k)
    BY <1>2 DEF Queues, ToSet
  <2> QED
    BY <1>2, <2>1 DEF Splits, Sets, Queues
<1> QED
  BY <1>2, <1>3, <1>4

\* The events of the set `sends' for L2 j, and those L2 j still has at the
\* directory when event e of L2 k is taken.
To(sends, j)  == {x[2] : x \in {y \in sends : y[1] = j}}
Rest(k, e, j) == IF j = k THEN ToSet(todir[j]) \ {e} ELSE ToSet(todir[j])

\* L2 j sees the step; it owes an answer after it.
Meets(j, td, G, D, m) ==
    Sees(j, l1[C(j)], out[C(j)], l2[j], up[C(j)], ToSet(dn[C(j)]), td, ToSet(toL2[j]), G, D, m)
Indebted(j, td, G) == Owes(l2[j], td, ToSet(toL2[j]) \cup G)

\* Event e of L2 k is handled: the entry is D, G[j] is sent to L2 j, m is what
\* the controller then has to read.
Handled(k, e, D, sends, m) ==
    /\ Home(D, m)
    /\ \A j \in L2s : Meets(j, Rest(k, e, j), To(sends, j), D, m)
    /\ D.type \in {"tr_s", "m_s"} =>
          \E j \in L2s : /\ Indebted(j, Rest(k, e, j), To(sends, j))
                         /\ \A i \in L2s : Indebted(i, Rest(k, e, i), To(sends, i)) => i = j
    /\ D.type = "tr_m" /\ ~Waits(D) /\ m = <<>> =>
          \E j \in L2s : \/ Has(ToSet(toL2[j]) \cup To(sends, j), "write_nd")
                         \/ Has(Rest(k, e, j), "e_to_m")

LEMMA ToNone == ASSUME NEW j PROVE To({}, j) = {}
  BY DEF To

LEMMA ToOne ==
    ASSUME NEW k, NEW x
    PROVE  To({<<k, x>>}, k) = {x} /\ \A j : j # k => To({<<k, x>>}, j) = {}
<1> DEFINE p == <<k, x>>
<1>1. p[1] = k /\ p[2] = x
  OBVIOUS
<1> HIDE DEF p
<1>2. {y \in {p} : y[1] = k} = {p}
  BY <1>1
<1>3. To({p}, k) = {x}
  BY <1>1, <1>2 DEF To
<1>4. ASSUME NEW j, j # k PROVE To({p}, j) = {}
  BY <1>1, <1>4 DEF To
<1> QED
  BY <1>3, <1>4 DEF p

\* The requests and the replies an L2 sends.
LEMMA AtDirectory ==
    ASSUME Private, Inv, NEW k \in L2s, NEW e \in ToSet(todir[k])
    PROVE  /\ e \in Events(k) /\ e.k = k
           /\ ~e.rep => e = Ask(k, e.t) /\ e.c = C(k) /\ e.t \in {"read", "write"}
           /\ e.rep => e.c = NoL1 /\ e.t \in Shared \cup Fetched \cup Dropping \cup {"e_to_m"}
<1>1. e \in DirEvents(k)
  BY NodeFacts DEF Splits, Sets
<1>2. e \in Events(k) /\ e.k = k /\ (e.c = C(k) /\ ~e.rep => e = Ask(k, e.t))
  BY <1>1, EventIs DEF DirEvents
<1> QED
  BY <1>1, <1>2 DEF DirEvents, Request

\* What the directory sends.
LEMMA Sending ==
    ASSUME NEW k, NEW e \in Events(k), NEW t
    PROVE  /\ UL(e, t) = <<k, Event(t, e.c, FALSE, k, k \in Local)>>
           /\ ULpp(e, t) = <<k, Event(t, e.c, FALSE, k, TRUE)>>
<1>1. e = [t |-> e.t, c |-> e.c, pf |-> e.pf, k |-> e.k, rep |-> e.rep] /\ e.pf = FALSE /\ e.k = k
  BY DEF Events
<1>2. ASSUME NEW r PROVE [e EXCEPT !.t = t, !.rep = r] = Event(t, e.c, FALSE, k, r)
  <2> DEFINE v == [e EXCEPT !.t = t]
  <2>1. v = [t |-> t, c |-> e.c, pf |-> e.pf, k |-> e.k, rep |-> e.rep]
    BY <1>1
  <2>2. [e EXCEPT !.t = t, !.rep = r] = [v EXCEPT !.rep = r]
    BY <1>1
  <2> HIDE DEF v
  <2>3. \A h, c, f, g, b : v = [t |-> h, c |-> c, pf |-> f, k |-> g, rep |-> b]
                            => [v EXCEPT !.rep = r] = [t |-> h, c |-> c, pf |-> f, k |-> g, rep |-> r]
    OBVIOUS
  <2>4. [v EXCEPT !.rep = r] = [t |-> t, c |-> e.c, pf |-> e.pf, k |-> e.k, rep |-> r]
    BY <2>1, <2>3, Zenon
  <2>5. [e EXCEPT !.t = t, !.rep = r] = [t |-> t, c |-> e.c, pf |-> e.pf, k |-> e.k, rep |-> r]
    BY <2>2, <2>4, Zenon
  <2> QED
    BY <1>1, <2>5, Zenon DEF Event
<1>3. UL(e, t) = <<k, [e EXCEPT !.t = t, !.rep = k \in Local]>>
  BY <1>1, Zenon DEF UL
<1>4. ULpp(e, t) = <<k, [e EXCEPT !.t = t, !.rep = TRUE]>>
  BY <1>1, Zenon DEF ULpp
<1> QED
  BY <1>2, <1>3, <1>4, Zenon

LEMMA AnswerSent ==
    ASSUME Private, NEW k \in L2s, NEW e \in Events(k), e.c = C(k)
    PROVE  /\ \A t \in Data \cup {"nack", "write_nd"} :
                 ULpp(e, t) = <<k, Answer(k, t)>> /\ Answer(k, t) \in L2Events(k)
           /\ \A t \in Data \cup {"nack"} :
                 /\ UL(e, t) = <<k, Event(t, C(k), FALSE, k, k \in Local)>>
                 /\ Event(t, C(k), FALSE, k, k \in Local) \in L2Events(k)
<1>1. ASSUME NEW t \in Data \cup {"nack", "write_nd"}, NEW r \in BOOLEAN, t \in Data /\ k \in Local => r
      PROVE  Event(t, C(k), FALSE, k, r) \in L2Events(k)
  BY <1>1 DEF L2Events, Events, Kinds, Data, Event
<1>2. ASSUME NEW t \in Data \cup {"nack", "write_nd"}
      PROVE  ULpp(e, t) = <<k, Answer(k, t)>> /\ Answer(k, t) \in L2Events(k)
  <2>1. Answer(k, t) \in L2Events(k)
    BY <1>1 DEF Answer
  <2>2. ULpp(e, t) = <<k, Answer(k, t)>>
    BY Sending, Zenon DEF Answer
  <2> QED
    BY <2>1, <2>2
<1>3. ASSUME NEW t \in Data \cup {"nack"}
      PROVE  /\ UL(e, t) = <<k, Event(t, C(k), FALSE, k, k \in Local)>>
             /\ Event(t, C(k), FALSE, k, k \in Local) \in L2Events(k)
  <2> DEFINE r == k \in Local
  <2>1. r \in BOOLEAN /\ (t \in Data /\ k \in Local => r)
    OBVIOUS
  <2>2. UL(e, t) = <<k, Event(t, C(k), FALSE, k, r)>>
    BY Sending, Zenon
  <2> HIDE DEF r
  <2>3. Event(t, C(k), FALSE, k, r) \in L2Events(k)
    BY <1>1, <2>1
  <2> QED
    BY <2>2, <2>3, Zenon DEF r
<1> QED
  BY <1>2, <1>3, Zenon

LEMMA OrderSent ==
    ASSUME Private, NEW k \in L2s, NEW t \in Sharing \cup Dropping \cup {"dir_rd"}
    PROVE  LET x == Event(t, NoL1, FALSE, k, k \in Local)
           IN  Tell(k, t) = <<k, x>> /\ x \in L2Events(k) /\ x.c = NoL1 /\ x.t = t
<1> DEFINE y == Event(t, NoL1, FALSE, k, FALSE)
           r == k \in Local
           x == Event(t, NoL1, FALSE, k, r)
<1>1. y.c = NoL1 /\ y \in Events(k)
  BY DEF Events, Kinds, Event, Sharing, Dropping, Fetched
<1>2. Tell(k, t) = UL(y, t)
  BY DEF Tell
<1> HIDE DEF y
<1>3. Tell(k, t) = <<k, x>>
  BY <1>1, <1>2, Sending, Zenon
<1>4. r \in BOOLEAN /\ (r <=> k \in Local)
  OBVIOUS
<1> HIDE DEF r
<1>5. x.c = NoL1 /\ x.t = t /\ x.rep = r
  BY DEF Event
<1>6. x \in Events(k)
  BY <1>4 DEF Events, Kinds, Event, Sharing, Dropping, Fetched
<1>7. x \in L2Events(k)
  BY <1>4, <1>5, <1>6 DEF L2Events
<1> QED
  BY <1>3, <1>5, <1>7 DEF r

\* The reads at the controller.
LEMMA ReadsOf ==
    ASSUME Private, Inv, NEW j \in L2s
    PROVE  /\ mc = <<>> \/ \E k \in L2s, t \in {"read", "write"} : mc = <<Ask(k, t)>> /\ dir.sharers = {k}
           /\ \A t : Reads(j, <<Ask(j, t)>>)
           /\ \A k \in L2s : \A t : k # j => ~Reads(j, <<Ask(k, t)>>)
           /\ ~Reads(j, <<>>) /\ mc \o <<>> = mc
           /\ NoEvent.k # j
<1>1. mc = <<>> \/ \E k \in L2s, t \in {"read", "write"} : mc = <<Ask(k, t)>> /\ dir.sharers = {k}
  BY DEF Inv, Home, Reading
<1>2. \A k \in L2s : \A t : <<Ask(k, t)>> # <<>> /\ <<Ask(k, t)>>[1].k = k
  BY DEF Ask, Event
<1>3. mc \o <<>> = mc
  BY <1>1
<1>4. NoEvent.k # j
  BY OwnL1 DEF NoEvent, Event
<1> QED
  BY <1>1, <1>2, <1>3, <1>4 DEF Reads

\* An idle L2 that has nothing to do with the step.
LEMMA Untouched ==
    ASSUME Private, Inv, NEW j \in L2s, NEW D, NEW m, Idle(l2[j], ToSet(todir[j]), ToSet(toL2[j])),
           Reads(j, m) <=> Reads(j, mc), D.pend.k = j <=> dir.pend.k = j,
           j \in D.sharers => D.type # "E" /\ ~(D.type = "tr_m" /\ Waits(D))
    PROVE  Meets(j, ToSet(todir[j]), {}, D, m) /\ ~Indebted(j, ToSet(todir[j]), {})
<1>1. Access(j, l1[C(j)], out[C(j)], up[C(j)], ToSet(dn[C(j)]), ToSet(todir[j]), ToSet(toL2[j]), dir, mc)
  BY NodeFacts DEF Settles, Sound
<1>2. One(Requests(ToSet(todir[j]))) + One(Reads(j, mc)) + One(dir.pend.k = j)
              = One(Requests(ToSet(todir[j]))) + One(Reads(j, m)) + One(D.pend.k = j)
  BY DEF One
<1>3. ToSet(toL2[j]) \cup {} = ToSet(toL2[j])
  OBVIOUS
<1>4. /\ Sees(j, l1[C(j)], out[C(j)], l2[j], up[C(j)], ToSet(dn[C(j)]), ToSet(todir[j]), ToSet(toL2[j]), {}, D, m)
      /\ ~Owes(l2[j], ToSet(todir[j]), ToSet(toL2[j]))
  BY <1>1, <1>2, IdleSees
<1> QED
  BY <1>3, <1>4 DEF Meets, Indebted

LEMMA Unconcerned ==
    ASSUME Private, Inv, NEW j \in L2s,
           \/ j \notin dir.sharers
           \/ dir.type = "tr_e"
           \/ dir.type = "tr_m" /\ ~Waits(dir) /\ mc # <<>>
    PROVE  Idle(l2[j], ToSet(todir[j]), ToSet(toL2[j]))
<1>1. Settles(j) /\ Splits(j) /\ l2[j] \in Entries
  BY NodeFacts
<1> QED
  BY <1>1, IsIdle DEF Settles, Splits

\* The taken request does not make an L2 less idle.
LEMMA IdleWithout ==
    ASSUME NEW s, NEW td, NEW tl, NEW e, Idle(s, td, tl)
    PROVE  Idle(s, td \ {e}, tl)
  BY DEF Idle, Replies

\* The directory's entry when nobody waits there.
LEMMA HomeFacts ==
    ASSUME Private, Inv
    PROVE  /\ Home(dir, mc) /\ dir \in DirEntries
           /\ dir.type \notin {"tr_s", "m_s", "tr_m"} => dir.pend = NoEvent
           /\ dir.type = "none" => dir.sharers = {} /\ mc = <<>>
           /\ dir.type \in Stable => mc = <<>> /\ dir.sharers # {} /\ \A j \in L2s : dir.pend.k # j
           /\ dir.type \in {"E", "M"} => \E j \in L2s : dir.sharers = {j}
<1>1. Home(dir, mc)
  BY DEF Inv
<1>2. dir \in DirEntries /\ Reading(dir, mc)
  BY <1>1 DEF Home
<1>3. dir.type \notin {"tr_s", "m_s", "tr_m"} => dir.pend = NoEvent
  BY <1>1 DEF Home, Waits
<1>4. dir.type = "none" => dir.sharers = {} /\ mc = <<>>
  BY <1>1, <1>2 DEF Home, Reading
<1>5. dir.type \in {"E", "M"} => \E j \in L2s : dir.sharers = {j}
  BY <1>1 DEF Home
<1>6. dir.type \in Stable => mc = <<>> /\ dir.sharers # {}
  BY <1>1, <1>2 DEF Home, Reading, Stable
<1>7. \A j \in L2s : NoEvent.k # j
  BY OwnL1 DEF NoEvent, Event
<1> QED
  BY <1>1, <1>2, <1>3, <1>4, <1>5, <1>6, <1>7 DEF Stable

\* The request is the first for the line.
LEMMA FirstHandled ==
    ASSUME Private, Inv, NEW k \in L2s, NEW e \in ToSet(todir[k]), ~e.rep, dir.type = "none",
           NEW D, D = [type |-> IF e.t = "read" THEN "tr_e" ELSE "tr_m", sharers |-> {k},
                       pend |-> NoEvent, gotcl |-> FALSE]
    PROVE  mc \o <<e>> = <<e>> /\ Handled(k, e, D, {}, <<e>>)
<1>1. e = Ask(k, e.t) /\ e.t \in {"read", "write"}
  BY AtDirectory
<1>2. mc = <<>> /\ dir.sharers = {} /\ dir.pend = NoEvent
  BY HomeFacts
<1>3. /\ D.type = IF e.t = "read" THEN "tr_e" ELSE "tr_m"
      /\ D.sharers = {k} /\ D.pend = NoEvent /\ D.gotcl = FALSE /\ ~Waits(D) /\ D \in DirEntries
  BY <1>1 DEF DirEntries, DirTypes, DirPends, Waits, Stable
<1>4. Home(D, <<e>>)
  <2>1. Reading(D, <<e>>) /\ <<e>> # <<>>
    BY <1>1, <1>3 DEF Reading
  <2> QED
    BY <1>1, <1>3, <2>1 DEF Home
<1>5. ASSUME NEW j \in L2s
      PROVE  Meets(j, Rest(k, e, j), {}, D, <<e>>)
  <2>1. Idle(l2[j], ToSet(todir[j]), ToSet(toL2[j]))
    BY <1>2, Unconcerned
  <2>2. NoEvent.k # j /\ ~Reads(j, mc)
    BY <1>2, ReadsOf
  <2>3. CASE j # k
    <3>1. ~Reads(j, <<e>>)
      BY <1>1, <2>3, ReadsOf
    <3>2. Meets(j, ToSet(todir[j]), {}, D, <<e>>)
      BY <1>2, <1>3, <2>1, <2>2, <2>3, <3>1, Untouched
    <3> QED
      BY <2>3, <3>2 DEF Rest
  <2>4. CASE j = k
    <3>1. Reads(k, <<e>>)
      BY <1>1, ReadsOf
    <3>2. /\ Access(k, l1[C(k)], out[C(k)], up[C(k)], ToSet(dn[C(k)]), ToSet(todir[k]), ToSet(toL2[k]), dir, mc)
          /\ Splits(k)
      BY NodeFacts DEF Settles, Sound
    <3>3. Requests(ToSet(todir[k])) /\ ~Requests(ToSet(todir[k]) \ {e})
      BY <3>2, AskTaken DEF Splits
    <3>4. Idle(l2[k], ToSet(todir[k]) \ {e}, ToSet(toL2[k]))
      BY <2>1, <2>4, IdleWithout
    <3>5. One(Requests(ToSet(todir[k]))) + One(Reads(k, mc)) + One(dir.pend.k = k)
            = One(Requests(ToSet(todir[k]) \ {e})) + One(Reads(k, <<e>>)) + One(D.pend.k = k)
      BY <1>2, <1>3, <2>2, <2>4, <3>1, <3>3 DEF One
    <3>6. k \in D.sharers => D.type # "E" /\ ~(D.type = "tr_m" /\ Waits(D))
      BY <1>3
    <3>7. Meets(k, ToSet(todir[k]) \ {e}, {}, D, <<e>>)
      BY <3>2, <3>4, <3>5, <3>6, IdleSees DEF Meets
    <3> QED
      BY <2>4, <3>7 DEF Rest
  <2> QED
    BY <2>3, <2>4
<1>6. <<e>> # <<>> /\ mc \o <<e>> = <<e>>
  BY <1>2
<1>7. D.type \notin {"tr_s", "m_s"}
  BY <1>3
<1> QED
  BY <1>4, <1>5, <1>6, <1>7, ToNone DEF Handled

\* The request is nacked.
LEMMA NackHandled ==
    ASSUME Private, Inv, NEW k \in L2s, NEW e \in ToSet(todir[k]), ~e.rep, dir.type = "E" => e.t = "read",
           NEW x \in L2Events(k), x.c = C(k), x.t = "nack"
    PROVE  Handled(k, e, dir, {<<k, x>>}, mc)
<1> DEFINE sends == {<<k, x>>}
<1>1. To(sends, k) = {x} /\ \A j : j # k => To(sends, j) = {}
  BY ToOne
<1> HIDE DEF sends
<1>2. x.c # NoL1 /\ e.t \in {"read", "write"}
  BY OwnL1, AtDirectory
<1>3. ASSUME NEW j \in L2s
      PROVE  /\ Meets(j, Rest(k, e, j), To(sends, j), dir, mc)
             /\ Indebted(j, Rest(k, e, j), To(sends, j)) <=> InDebt(j)
             /\ Has(ToSet(toL2[j]), "write_nd") => Has(ToSet(toL2[j]) \cup To(sends, j), "write_nd")
             /\ Has(ToSet(todir[j]), "e_to_m") => Has(Rest(k, e, j), "e_to_m")
  <2>1. Settles(j) /\ Splits(j)
    BY NodeFacts
  <2>2. CASE j = k
    <3>1. Sees(k, l1[C(k)], out[C(k)], l2[k], up[C(k)], ToSet(dn[C(k)]),
               ToSet(todir[k]) \ {e}, ToSet(toL2[k]), {x}, dir, mc)
      BY <2>1, <2>2, NackSeen DEF Settles, Splits
    <3>2. (Replies(ToSet(todir[k]) \ {e}) <=> Replies(ToSet(todir[k])))
      BY DEF Replies
    <3>3. Asks(ToSet(toL2[k]) \cup {x}) <=> Asks(ToSet(toL2[k]))
      BY <1>2 DEF Asks
    <3>4. Indebted(k, ToSet(todir[k]) \ {e}, {x}) <=> InDebt(k)
      BY <3>2, <3>3 DEF Indebted, InDebt, Owes
    <3>5. Has(ToSet(todir[k]), "e_to_m") => Has(ToSet(todir[k]) \ {e}, "e_to_m")
      BY <1>2 DEF Has
    <3> QED
      BY <1>1, <2>2, <3>1, <3>4, <3>5 DEF Meets, Rest, Has
  <2>3. CASE j # k
    <3>1. To(sends, j) = {} /\ Rest(k, e, j) = ToSet(todir[j]) /\ ToSet(toL2[j]) \cup {} = ToSet(toL2[j])
      BY <1>1, <2>3 DEF Rest
    <3>2. Meets(j, ToSet(todir[j]), {}, dir, mc)
      BY <2>1, <3>1 DEF Meets, Sees, Sendable, Settles, Sound
    <3>3. Indebted(j, ToSet(todir[j]), {}) <=> InDebt(j)
      BY <3>1 DEF Indebted, InDebt
    <3> QED
      BY <3>1, <3>2, <3>3
  <2> QED
    BY <2>2, <2>3
<1>4. Home(dir, mc) /\ Orders
  BY DEF Inv
<1>5. dir.type \in {"tr_s", "m_s"} =>
          \E j \in L2s : /\ Indebted(j, Rest(k, e, j), To(sends, j))
                         /\ \A i \in L2s : Indebted(i, Rest(k, e, i), To(sends, i)) => i = j
  BY <1>3, <1>4 DEF Orders
<1>6. dir.type = "tr_m" /\ ~Waits(dir) /\ mc = <<>> =>
          \E j \in L2s : \/ Has(ToSet(toL2[j]) \cup To(sends, j), "write_nd")
                         \/ Has(Rest(k, e, j), "e_to_m")
  BY <1>3, <1>4 DEF Orders
<1>7. Handled(k, e, dir, sends, mc)
  BY <1>3, <1>4, <1>5, <1>6 DEF Handled
<1> QED
  BY <1>7 DEF sends

\* A read waits while the L2 h that has the line is asked to share it.
LEMMA AskHandled ==
    ASSUME Private, Inv, NEW k \in L2s, NEW e \in ToSet(todir[k]), ~e.rep, e.t = "read",
           dir.type \in Stable, k \notin dir.sharers, NEW h \in dir.sharers,
           NEW D \in DirEntries, D.type = IF dir.type = "M" THEN "m_s" ELSE "tr_s",
           D.sharers = dir.sharers, D.pend = e,
           NEW x \in L2Events(h), x.c = NoL1,
           x.t = IF dir.type = "E" THEN "e_to_s" ELSE IF dir.type = "M" THEN "dir_rd" ELSE "s_to_s"
    PROVE  Handled(k, e, D, {<<h, x>>}, mc)
<1> DEFINE sends == {<<h, x>>}
<1>1. To(sends, h) = {x} /\ \A j : j # h => To(sends, j) = {}
  BY ToOne
<1> HIDE DEF sends
<1>2. e = Ask(k, "read") /\ e.k = k /\ e # NoEvent
  <2>1. e = Ask(k, "read") /\ e.k = k
    BY AtDirectory
  <2> QED
    BY <2>1, OwnL1 DEF NoEvent, Event
<1>3. /\ mc = <<>> /\ dir \in DirEntries /\ \A j \in L2s : dir.pend.k # j
      /\ dir.type \in {"E", "M"} => \E j \in L2s : dir.sharers = {j}
  BY HomeFacts
<1>4. h \in L2s /\ h # k /\ (dir.type # "S" => dir.sharers = {h})
  BY <1>3 DEF DirEntries, Stable
<1>5. Home(D, mc)
  <2>1. Waits(D) /\ D.pend.t = "read" /\ D.pend.k \notin D.sharers /\ D.type \in {"tr_s", "m_s"}
    BY <1>2 DEF Waits
  <2>2. Reading(D, mc)
    BY <1>3 DEF Reading
  <2> QED
    BY <1>4, <2>1, <2>2 DEF Home, Stable
<1>6. Meets(h, Rest(k, e, h), {x}, D, mc) /\ Indebted(h, Rest(k, e, h), {x})
  <2>1. Settles(h) /\ Splits(h)
    BY <1>4, NodeFacts
  <2>2. dir.pend.k # h /\ D.pend.k # h
    BY <1>2, <1>3, <1>4
  <2>3. /\ Sees(h, l1[C(h)], out[C(h)], l2[h], up[C(h)], ToSet(dn[C(h)]), ToSet(todir[h]), ToSet(toL2[h]), {x}, D, mc)
        /\ Owes(l2[h], ToSet(todir[h]), ToSet(toL2[h]) \cup {x})
    <3>1. AskedOf(h, dir, D, x)
      BY <1>4, <2>2 DEF AskedOf
    <3>2. /\ Sound(h, l1[C(h)], out[C(h)], l2[h], up[C(h)], ToSet(dn[C(h)]), ToSet(todir[h]), ToSet(toL2[h]), dir, mc)
          /\ Sets(h, ToSet(dn[C(h)]), ToSet(todir[h]), ToSet(toL2[h]))
      BY <2>1 DEF Settles, Splits
    <3> QED
      BY <1>4, <3>1, <3>2, AskedSeen
  <2> QED
    BY <1>4, <2>3 DEF Meets, Indebted, Rest
<1>7. Meets(k, Rest(k, e, k), {}, D, mc) /\ ~Indebted(k, Rest(k, e, k), {})
  <2>1. /\ Access(k, l1[C(k)], out[C(k)], up[C(k)], ToSet(dn[C(k)]), ToSet(todir[k]), ToSet(toL2[k]), dir, mc)
        /\ Splits(k)
    BY NodeFacts DEF Settles, Sound
  <2>2. Requests(ToSet(todir[k])) /\ ~Requests(ToSet(todir[k]) \ {e})
    BY <2>1, AskTaken DEF Splits
  <2>3. Idle(l2[k], ToSet(todir[k]), ToSet(toL2[k]))
    BY Unconcerned
  <2>4. Idle(l2[k], ToSet(todir[k]) \ {e}, ToSet(toL2[k]))
    BY <2>3, IdleWithout
  <2>5. One(Requests(ToSet(todir[k]))) + One(Reads(k, mc)) + One(dir.pend.k = k)
          = One(Requests(ToSet(todir[k]) \ {e})) + One(Reads(k, mc)) + One(D.pend.k = k)
    BY <1>2, <1>3, <2>2 DEF One
  <2>6. k \in D.sharers => D.type # "E" /\ ~(D.type = "tr_m" /\ Waits(D))
    OBVIOUS
  <2>7. ToSet(toL2[k]) \cup {} = ToSet(toL2[k])
    OBVIOUS
  <2>8. Meets(k, ToSet(todir[k]) \ {e}, {}, D, mc) /\ ~Indebted(k, ToSet(todir[k]) \ {e}, {})
    BY <2>1, <2>4, <2>5, <2>6, <2>7, IdleSees DEF Meets, Indebted
  <2> QED
    BY <2>8 DEF Rest
<1>8. ASSUME NEW j \in L2s, j # k, j # h
      PROVE  Meets(j, Rest(k, e, j), {}, D, mc) /\ ~Indebted(j, Rest(k, e, j), {})
  <2>1. Settles(j) /\ Splits(j)
    BY NodeFacts
  <2>2. dir.pend.k # j /\ D.pend.k # j
    BY <1>2, <1>3, <1>8
  <2>3. Rest(k, e, j) = ToSet(todir[j]) /\ ToSet(toL2[j]) \cup {} = ToSet(toL2[j])
    BY <1>8 DEF Rest
  <2>4. CASE dir.type = "S"
    <3>1. /\ Sees(j, l1[C(j)], out[C(j)], l2[j], up[C(j)], ToSet(dn[C(j)]), ToSet(todir[j]), ToSet(toL2[j]), {}, D, mc)
          /\ ~Owes(l2[j], ToSet(todir[j]), ToSet(toL2[j]))
      BY <2>1, <2>2, <2>4, OtherSharer DEF Settles, Splits
    <3> QED
      BY <2>3, <3>1 DEF Meets, Indebted
  <2>5. CASE dir.type # "S"
    <3>1. j \notin dir.sharers
      BY <1>4, <1>8, <2>5
    <3>2. Idle(l2[j], ToSet(todir[j]), ToSet(toL2[j]))
      BY <3>1, Unconcerned
    <3>3. Meets(j, ToSet(todir[j]), {}, D, mc) /\ ~Indebted(j, ToSet(todir[j]), {})
      BY <2>2, <3>1, <3>2, Untouched
    <3> QED
      BY <2>3, <3>3
  <2> QED
    BY <2>4, <2>5
<1>9. D.type # "tr_m"
  OBVIOUS
<1>10. Handled(k, e, D, sends, mc)
  <2>1. \A j \in L2s : Meets(j, Rest(k, e, j), To(sends, j), D, mc)
    BY <1>1, <1>4, <1>6, <1>7, <1>8
  <2>2. /\ Indebted(h, Rest(k, e, h), To(sends, h))
        /\ \A i \in L2s : Indebted(i, Rest(k, e, i), To(sends, i)) => i = h
    BY <1>1, <1>4, <1>6, <1>7, <1>8
  <2> QED
    BY <1>4, <1>5, <1>9, <2>1, <2>2 DEF Handled
<1> QED
  BY <1>10 DEF sends

\* The upgrade of the L2 that has the line exclusive is granted.
LEMMA UpgradeHandled ==
    ASSUME Private, Inv, NEW k \in L2s, NEW e \in ToSet(todir[k]), ~e.rep,
           dir.type = "E", k \in dir.sharers,
           NEW D \in DirEntries, D.type = "tr_m", D.sharers = dir.sharers, D.pend = dir.pend,
           NEW x \in L2Events(k), x.c = C(k), x.t = "write_nd"
    PROVE  Handled(k, e, D, {<<k, x>>}, mc)
<1> DEFINE sends == {<<k, x>>}
<1>1. To(sends, k) = {x} /\ \A j : j # k => To(sends, j) = {}
  BY ToOne
<1> HIDE DEF sends
<1>2. /\ mc = <<>> /\ dir.pend = NoEvent /\ \A j \in L2s : dir.pend.k # j
      /\ dir.sharers = {k}
  BY HomeFacts DEF Stable
<1>3. ~Waits(D)
  BY <1>2 DEF Waits
<1>4. Home(D, mc)
  BY <1>2, <1>3 DEF Home, Reading
<1>5. Meets(k, Rest(k, e, k), {x}, D, mc)
  <2>1. Settles(k) /\ Splits(k)
    BY NodeFacts
  <2>2. D.pend.k # k
    BY <1>2
  <2>3. Sees(k, l1[C(k)], out[C(k)], l2[k], up[C(k)], ToSet(dn[C(k)]), ToSet(todir[k]) \ {e}, ToSet(toL2[k]), {x}, D, mc)
    BY <1>2, <1>3, <2>1, <2>2, UpgradeSeen DEF Settles, Splits
  <2> QED
    BY <2>3 DEF Meets, Rest
<1>6. ASSUME NEW j \in L2s, j # k
      PROVE  Meets(j, Rest(k, e, j), {}, D, mc)
  <2>1. j \notin dir.sharers
    BY <1>2, <1>6
  <2>2. Idle(l2[j], ToSet(todir[j]), ToSet(toL2[j]))
    BY <2>1, Unconcerned
  <2>3. Meets(j, ToSet(todir[j]), {}, D, mc)
    BY <2>1, <2>2, Untouched
  <2> QED
    BY <1>6, <2>3 DEF Rest
<1>7. Has(ToSet(toL2[k]) \cup {x}, "write_nd")
  BY DEF Has
<1>8. Handled(k, e, D, sends, mc)
  <2>1. \A j \in L2s : Meets(j, Rest(k, e, j), To(sends, j), D, mc)
    BY <1>1, <1>5, <1>6
  <2>2. Has(ToSet(toL2[k]) \cup To(sends, k), "write_nd")
    BY <1>1, <1>7
  <2> QED
    BY <1>4, <2>1, <2>2 DEF Handled
<1> QED
  BY <1>8 DEF sends

\* A write waits while the L2s that have the line are told to drop it.
LEMMA DropHandled ==
    ASSUME Private, Inv, NEW k \in L2s, NEW e \in ToSet(todir[k]), ~e.rep, e.t = "write",
           dir.type \in Stable, k \in dir.sharers => dir.type = "S",
           NEW D \in DirEntries, D.type = "tr_m", D.sharers = dir.sharers, D.pend = e,
           NEW sends, \A j : j \notin dir.sharers => To(sends, j) = {},
           \A j \in dir.sharers : \E x \in L2Events(j) : To(sends, j) = {x} /\ x.c = NoL1 /\ x.t \in Dropping
    PROVE  Handled(k, e, D, sends, mc)
<1>1. e = Ask(k, "write") /\ e.k = k /\ e # NoEvent
  <2>1. e = Ask(k, "write") /\ e.k = k
    BY AtDirectory
  <2> QED
    BY <2>1, OwnL1 DEF NoEvent, Event
<1>2. /\ mc = <<>> /\ dir \in DirEntries /\ \A j \in L2s : dir.pend.k # j
      /\ dir.type \in {"E", "M"} => \E j \in L2s : dir.sharers = {j}
      /\ dir.sharers # {}
  BY HomeFacts
<1>3. Waits(D) /\ D.pend.t = "write"
  BY <1>1 DEF Waits
<1>4. Home(D, mc)
  BY <1>2, <1>3 DEF Home, Reading
<1>5. ASSUME NEW j \in dir.sharers
      PROVE  Meets(j, Rest(k, e, j), To(sends, j), D, mc)
  <2>1. j \in L2s /\ (dir.type # "S" => dir.sharers = {j})
    BY <1>2 DEF DirEntries, Stable
  <2>2. Settles(j) /\ Splits(j)
    BY <2>1, NodeFacts
  <2>3. PICK x \in L2Events(j) : To(sends, j) = {x} /\ x.c = NoL1 /\ x.t \in Dropping
    OBVIOUS
  <2>4. dir.pend.k # j
    BY <1>2, <2>1
  <2>5. \/ Rest(k, e, j) = ToSet(todir[j]) /\ D.pend.k # j
        \/ /\ dir.type = "S" /\ D.pend.k = j
           /\ \E y \in ToSet(todir[j]) : ~y.rep /\ y.t = "write" /\ Rest(k, e, j) = ToSet(todir[j]) \ {y}
    <3>1. CASE j = k
      BY <1>1, <3>1 DEF Rest
    <3>2. CASE j # k
      BY <1>1, <3>2 DEF Rest
    <3> QED
      BY <3>1, <3>2
  <2>6. Sees(j, l1[C(j)], out[C(j)], l2[j], up[C(j)], ToSet(dn[C(j)]), Rest(k, e, j), ToSet(toL2[j]), {x}, D, mc)
    BY <1>3, <2>1, <2>2, <2>3, <2>4, <2>5, DroppedSeen DEF Settles, Splits
  <2> QED
    BY <2>3, <2>6 DEF Meets
<1>6. ASSUME NEW j \in L2s, j \notin dir.sharers
      PROVE  Meets(j, Rest(k, e, j), To(sends, j), D, mc)
  <2>1. Idle(l2[j], ToSet(todir[j]), ToSet(toL2[j]))
    BY <1>6, Unconcerned
  <2>2. To(sends, j) = {}
    BY <1>6
  <2>3. CASE j # k
    <3>1. D.pend.k # j /\ dir.pend.k # j
      BY <1>1, <1>2, <2>3
    <3>2. Meets(j, ToSet(todir[j]), {}, D, mc)
      BY <1>6, <2>1, <3>1, Untouched
    <3> QED
      BY <2>2, <2>3, <3>2 DEF Rest
  <2>4. CASE j = k
    <3>1. /\ Access(k, l1[C(k)], out[C(k)], up[C(k)], ToSet(dn[C(k)]), ToSet(todir[k]), ToSet(toL2[k]), dir, mc)
          /\ Splits(k)
      BY NodeFacts DEF Settles, Sound
    <3>2. Requests(ToSet(todir[k])) /\ ~Requests(ToSet(todir[k]) \ {e})
      BY <3>1, AskTaken DEF Splits
    <3>3. Idle(l2[k], ToSet(todir[k]) \ {e}, ToSet(toL2[k]))
      BY <2>1, <2>4, IdleWithout
    <3>4. One(Requests(ToSet(todir[k]))) + One(Reads(k, mc)) + One(dir.pend.k = k)
            = One(Requests(ToSet(todir[k]) \ {e})) + One(Reads(k, mc)) + One(D.pend.k = k)
      BY <1>1, <1>2, <3>2 DEF One
    <3>5. k \in D.sharers => D.type # "E" /\ ~(D.type = "tr_m" /\ Waits(D))
      BY <1>6, <2>4
    <3>6. Meets(k, ToSet(todir[k]) \ {e}, {}, D, mc)
      BY <3>1, <3>3, <3>4, <3>5, IdleSees DEF Meets
    <3> QED
      BY <2>2, <2>4, <3>6 DEF Rest
  <2> QED
    BY <2>3, <2>4
<1> QED
  BY <1>3, <1>4, <1>5, <1>6 DEF Handled

\* An upgrade is done.
LEMMA GrantHandled ==
    ASSUME Private, Inv, NEW k \in L2s, NEW e \in ToSet(todir[k]), e.rep, e.t = "e_to_m",
           NEW D \in DirEntries, D.type = "M", D.sharers = dir.sharers, D.pend = NoEvent
    PROVE  dir.type = "tr_m" /\ Handled(k, e, D, {}, mc)
<1>1. Settles(k) /\ Splits(k)
  BY NodeFacts
<1>2. /\ Sees(k, l1[C(k)], out[C(k)], l2[k], up[C(k)], ToSet(dn[C(k)]), ToSet(todir[k]) \ {e}, ToSet(toL2[k]), {}, D, mc)
      /\ Upgrading(k, dir, mc)
  BY <1>1, GrantedSeen DEF Settles, Splits
<1>3. dir.sharers = {k} /\ dir.type = "tr_m" /\ dir.pend = NoEvent /\ mc = <<>>
  BY <1>2 DEF Upgrading, Waits
<1>4. Meets(k, Rest(k, e, k), {}, D, mc)
  BY <1>2 DEF Meets, Rest
<1>5. ASSUME NEW j \in L2s, j # k
      PROVE  Meets(j, Rest(k, e, j), {}, D, mc)
  <2>1. j \notin dir.sharers
    BY <1>3, <1>5
  <2>2. Idle(l2[j], ToSet(todir[j]), ToSet(toL2[j]))
    BY <2>1, Unconcerned
  <2>3. Meets(j, ToSet(todir[j]), {}, D, mc)
    BY <1>3, <2>1, <2>2, Untouched
  <2> QED
    BY <1>5, <2>3 DEF Rest
<1>6. Home(D, mc)
  BY <1>3 DEF Home, Reading, Waits
<1> QED
  BY <1>3, <1>4, <1>5, <1>6, ToNone DEF Handled

\* What the directory knows when an L2 reports that it has dropped the line.
LEMMA Dropped ==
    ASSUME Private, Inv, NEW k \in L2s, NEW e \in ToSet(todir[k]), e.rep, e.t \in Dropping
    PROVE  /\ Idle(l2[k], ToSet(todir[k]) \ {e}, ToSet(toL2[k]))
           /\ dir.type = "tr_m" /\ Waits(dir) /\ k \in dir.sharers /\ mc = <<>>
           /\ Requests(ToSet(todir[k]) \ {e}) <=> Requests(ToSet(todir[k]))
           /\ \E p \in L2s : dir.pend = Ask(p, "write") /\ dir.pend.k = p
<1>1. Settles(k) /\ Splits(k)
  BY NodeFacts
<1>2. /\ Idle(l2[k], ToSet(todir[k]) \ {e}, ToSet(toL2[k]))
      /\ dir.type = "tr_m" /\ Waits(dir) /\ k \in dir.sharers
      /\ Requests(ToSet(todir[k]) \ {e}) <=> Requests(ToSet(todir[k]))
  BY <1>1, DropIdle DEF Settles, Splits
<1>3. Home(dir, mc)
  BY DEF Inv
<1>4. mc = <<>>
  BY <1>2, <1>3 DEF Home, Reading
<1>5. dir.pend.t = "write" /\ dir.pend # NoEvent
  BY <1>2, <1>3 DEF Home, Waits
<1>6. PICK p \in L2s, t \in {"read", "write"} : dir.pend = Ask(p, t)
  BY <1>3, <1>5 DEF Home, DirEntries, DirPends
<1>7. dir.pend.k = p /\ t = "write"
  BY <1>5, <1>6 DEF Ask, Event
<1> QED
  BY <1>2, <1>4, <1>6, <1>7

\* More L2s have to drop the line.
LEMMA LeftHandled ==
    ASSUME Private, Inv, NEW k \in L2s, NEW e \in ToSet(todir[k]), e.rep, e.t \in Dropping,
           dir.sharers \ {k} # {},
           NEW D \in DirEntries, D.type = "tr_m", D.sharers = dir.sharers \ {k}, D.pend = dir.pend
    PROVE  Handled(k, e, D, {}, mc)
<1>1. /\ Idle(l2[k], ToSet(todir[k]) \ {e}, ToSet(toL2[k]))
      /\ dir.type = "tr_m" /\ Waits(dir) /\ k \in dir.sharers /\ mc = <<>>
      /\ Requests(ToSet(todir[k]) \ {e}) <=> Requests(ToSet(todir[k]))
      /\ \E p \in L2s : dir.pend = Ask(p, "write") /\ dir.pend.k = p
  BY Dropped
<1>2. Waits(D) /\ D.pend.t = "write"
  BY <1>1 DEF Waits, Ask, Event
<1>3. Home(D, mc)
  BY <1>1, <1>2 DEF Home, Reading
<1>4. Meets(k, Rest(k, e, k), {}, D, mc)
  <2>1. Access(k, l1[C(k)], out[C(k)], up[C(k)], ToSet(dn[C(k)]), ToSet(todir[k]), ToSet(toL2[k]), dir, mc)
    BY NodeFacts DEF Settles, Sound
  <2>2. One(Requests(ToSet(todir[k]))) + One(Reads(k, mc)) + One(dir.pend.k = k)
          = One(Requests(ToSet(todir[k]) \ {e})) + One(Reads(k, mc)) + One(D.pend.k = k)
    BY <1>1 DEF One
  <2>3. k \in D.sharers => D.type # "E" /\ ~(D.type = "tr_m" /\ Waits(D))
    OBVIOUS
  <2>4. Meets(k, ToSet(todir[k]) \ {e}, {}, D, mc)
    BY <1>1, <2>1, <2>2, <2>3, IdleSees DEF Meets
  <2> QED
    BY <2>4 DEF Rest
<1>5. ASSUME NEW j \in L2s, j # k
      PROVE  Meets(j, Rest(k, e, j), {}, D, mc)
  <2>1. Settles(j) /\ Splits(j)
    BY NodeFacts
  <2>2. Sees(j, l1[C(j)], out[C(j)], l2[j], up[C(j)], ToSet(dn[C(j)]), ToSet(todir[j]), ToSet(toL2[j]), {}, D, mc)
    BY <1>1, <1>5, <2>1, LeftSeen DEF Settles, Splits
  <2> QED
    BY <1>5, <2>2 DEF Meets, Rest
<1> QED
  BY <1>2, <1>3, <1>4, <1>5, ToNone DEF Handled

\* The last L2 has dropped the line: the write that waits is answered with it,
\* or read from memory.
LEMMA WriteHandled ==
    ASSUME Private, Inv, NEW k \in L2s, NEW e \in ToSet(todir[k]), e.rep, e.t \in Dropping,
           dir.sharers \ {k} = {}, NEW p \in L2s, dir.pend = Ask(p, "write"),
           NEW D \in DirEntries, D.sharers = {p}, D.pend = NoEvent, NEW sends, NEW m,
           \/ /\ D.type = "M" /\ m = <<>>
              /\ \E x \in L2Events(p) : sends = {<<p, x>>} /\ x.c = C(p) /\ x.t = "write"
           \/ D.type = "tr_m" /\ m = <<dir.pend>> /\ sends = {}
    PROVE  Handled(k, e, D, sends, m)
<1>1. /\ Idle(l2[k], ToSet(todir[k]) \ {e}, ToSet(toL2[k]))
      /\ dir.type = "tr_m" /\ Waits(dir) /\ k \in dir.sharers /\ mc = <<>>
      /\ Requests(ToSet(todir[k]) \ {e}) <=> Requests(ToSet(todir[k]))
  BY Dropped
<1>2. dir.sharers = {k} /\ dir.pend.k = p /\ ~Waits(D)
  BY <1>1 DEF Waits, Ask, Event
<1>3. Home(D, m)
  <2>1. Reading(D, m)
    BY <1>2 DEF Reading
  <2> QED
    BY <1>2, <2>1 DEF Home
<1>4. ASSUME NEW j \in L2s
      PROVE  /\ Idle(l2[j], Rest(k, e, j), ToSet(toL2[j]))
             /\ Requests(Rest(k, e, j)) <=> Requests(ToSet(todir[j]))
             /\ Access(j, l1[C(j)], out[C(j)], up[C(j)], ToSet(dn[C(j)]), ToSet(todir[j]), ToSet(toL2[j]), dir, mc)
             /\ ~Reads(j, mc) /\ NoEvent.k # j
  <2>1. /\ Access(j, l1[C(j)], out[C(j)], up[C(j)], ToSet(dn[C(j)]), ToSet(todir[j]), ToSet(toL2[j]), dir, mc)
        /\ ~Reads(j, mc) /\ NoEvent.k # j
    BY <1>1, NodeFacts, ReadsOf DEF Settles, Sound
  <2>2. CASE j = k
    BY <1>1, <2>1, <2>2 DEF Rest
  <2>3. CASE j # k
    <3>1. j \notin dir.sharers
      BY <1>2, <2>3
    <3>2. Idle(l2[j], ToSet(todir[j]), ToSet(toL2[j]))
      BY <3>1, Unconcerned
    <3> QED
      BY <2>1, <2>3, <3>2 DEF Rest
  <2> QED
    BY <2>2, <2>3
<1>5. ASSUME NEW j \in L2s, j # p, ~Reads(j, m)
      PROVE  Meets(j, Rest(k, e, j), {}, D, m)
  <2>1. One(Requests(ToSet(todir[j]))) + One(Reads(j, mc)) + One(dir.pend.k = j)
          = One(Requests(Rest(k, e, j))) + One(Reads(j, m)) + One(D.pend.k = j)
    BY <1>2, <1>4, <1>5 DEF One
  <2>2. j \in D.sharers => D.type # "E" /\ ~(D.type = "tr_m" /\ Waits(D))
    BY <1>5
  <2> QED
    BY <1>4, <2>1, <2>2, IdleSees DEF Meets
<1>6. ~Requests(ToSet(todir[p]))
  BY <1>2, <1>4 DEF Access, One
<1>7. CASE /\ D.type = "M" /\ m = <<>>
           /\ \E x \in L2Events(p) : sends = {<<p, x>>} /\ x.c = C(p) /\ x.t = "write"
  <2>1. PICK x \in L2Events(p) : sends = {<<p, x>>} /\ x.c = C(p) /\ x.t = "write"
    BY <1>7
  <2>2. To(sends, p) = {x} /\ \A j : j # p => To(sends, j) = {}
    BY <2>1, ToOne
  <2>3. \A j \in L2s : ~Reads(j, m)
    BY <1>7 DEF Reads
  <2>4. Meets(p, Rest(k, e, p), {x}, D, m)
    <3>1. ~Requests(Rest(k, e, p)) /\ ~Reads(p, m) /\ D.pend.k # p
      BY <1>4, <1>6, <2>3
    <3>2. x.t \in Data \cup {"nack"}
      BY <2>1 DEF Data
    <3>3. AnswerOf(p, D, x)
      BY <1>7, <2>1, <3>2 DEF AnswerOf
    <3> QED
      BY <1>2, <1>4, <1>7, <3>1, <3>3, IdleAnswered DEF Meets
  <2>5. \A j \in L2s : Meets(j, Rest(k, e, j), To(sends, j), D, m)
    BY <1>5, <2>2, <2>3, <2>4
  <2> QED
    BY <1>3, <1>7, <2>5 DEF Handled
<1>8. CASE D.type = "tr_m" /\ m = <<dir.pend>> /\ sends = {}
  <2>1. Reads(p, m) /\ m # <<>>
    BY <1>8, ReadsOf
  <2>2. \A j \in L2s : j # p => ~Reads(j, m)
    BY <1>8, ReadsOf
  <2>3. Meets(p, Rest(k, e, p), {}, D, m)
    <3>1. One(Requests(ToSet(todir[p]))) + One(Reads(p, mc)) + One(dir.pend.k = p)
            = One(Requests(Rest(k, e, p))) + One(Reads(p, m)) + One(D.pend.k = p)
      BY <1>2, <1>4, <2>1 DEF One
    <3>2. p \in D.sharers => D.type # "E" /\ ~(D.type = "tr_m" /\ Waits(D))
      BY <1>2, <1>8
    <3> QED
      BY <1>4, <3>1, <3>2, IdleSees DEF Meets
  <2>4. \A j \in L2s : Meets(j, Rest(k, e, j), To(sends, j), D, m)
    BY <1>5, <1>8, <2>2, <2>3, ToNone
  <2> QED
    BY <1>3, <1>8, <2>1, <2>4 DEF Handled
<1> QED
  BY <1>7, <1>8

\* The L2 that was asked shares the line: the read that waits gets it, or is
\* nacked.
LEMMA ShareHandled ==
    ASSUME Private, Inv, NEW k \in L2s, NEW e \in ToSet(todir[k]), e.rep, e.t \in Shared \cup Fetched,
           NEW p \in L2s, dir.pend = Ask(p, "read"),
           NEW D \in DirEntries, D.type = "S", D.pend = NoEvent,
           NEW x \in L2Events(p), x.c = C(p),
           \/ D.sharers = dir.sharers \cup {p} /\ x.t = "s_rd"
           \/ D.sharers = dir.sharers /\ x.t = "nack"
    PROVE  Handled(k, e, D, {<<p, x>>}, mc)
<1> DEFINE sends == {<<p, x>>}
<1>1. To(sends, p) = {x} /\ \A j : j # p => To(sends, j) = {}
  BY ToOne
<1> HIDE DEF sends
<1>2. Settles(k) /\ Splits(k) /\ Home(dir, mc) /\ Orders
  BY NodeFacts DEF Inv
<1>3. dir.type \in {"tr_s", "m_s"} /\ k \in dir.sharers
  BY <1>2 DEF Settles, Sound, Place, Obeys
<1>4. dir.pend.k = p /\ p \notin dir.sharers /\ p # k /\ mc = <<>> /\ D.sharers # {}
  <2>1. dir.pend.k = p
    BY DEF Ask, Event
  <2>2. mc = <<>>
    BY <1>2, <1>3 DEF Home, Reading
  <2> QED
    BY <1>2, <1>3, <2>1, <2>2 DEF Home
<1>5. Home(D, mc)
  <2>1. ~Waits(D) /\ Reading(D, mc)
    BY <1>4 DEF Waits, Reading
  <2> QED
    BY <1>4, <2>1 DEF Home
<1>6. ASSUME NEW j \in L2s PROVE ~Reads(j, mc) /\ NoEvent.k # j
  BY <1>4, ReadsOf
<1>7. InDebt(k)
  BY DEF InDebt, Owes, Replies
<1>8. \A j \in L2s : j # k => ~InDebt(j)
  BY <1>2, <1>3, <1>7 DEF Orders
<1>9. Meets(k, Rest(k, e, k), {}, D, mc)
  <2>1. dir.pend.k # k /\ dir.sharers \subseteq D.sharers
    BY <1>4
  <2>2. Sees(k, l1[C(k)], out[C(k)], l2[k], up[C(k)], ToSet(dn[C(k)]), ToSet(todir[k]) \ {e}, ToSet(toL2[k]), {}, D, mc)
    BY <1>2, <2>1, SharedSeen DEF Settles, Splits
  <2> QED
    BY <2>2 DEF Meets, Rest
<1>10. Meets(p, Rest(k, e, p), {x}, D, mc)
  <2>1. Idle(l2[p], ToSet(todir[p]), ToSet(toL2[p]))
    BY <1>4, Unconcerned
  <2>2. Access(p, l1[C(p)], out[C(p)], up[C(p)], ToSet(dn[C(p)]), ToSet(todir[p]), ToSet(toL2[p]), dir, mc)
    BY NodeFacts DEF Settles, Sound
  <2>3. ~Requests(ToSet(todir[p]))
    BY <1>4, <2>2 DEF Access, One
  <2>4. ~Reads(p, mc) /\ D.pend.k # p
    BY <1>6
  <2>5. x.t \in Data \cup {"nack"}
    BY DEF Data
  <2>6. /\ p \in D.sharers => ~(D.type = "tr_m" /\ Waits(D)) /\ (D.type = "E" => x.t = "e_rd")
        /\ x.t = "s_rd" => D.type = "S" /\ p \in D.sharers
        /\ x.t # "e_rd" /\ x.t # "write"
    OBVIOUS
  <2>7. Meets(p, ToSet(todir[p]), {x}, D, mc)
    <3>1. AnswerOf(p, D, x)
      BY <2>5, <2>6 DEF AnswerOf
    <3> QED
      BY <1>4, <2>1, <2>2, <2>3, <2>4, <3>1, IdleAnswered DEF Meets
  <2> QED
    BY <1>4, <2>7 DEF Rest
<1>11. ASSUME NEW j \in L2s, j # k, j # p
       PROVE  Meets(j, Rest(k, e, j), {}, D, mc)
  <2>1. Settles(j) /\ Splits(j)
    BY NodeFacts
  <2>2. ~Owes(l2[j], ToSet(todir[j]), ToSet(toL2[j]))
    BY <1>8, <1>11 DEF InDebt
  <2>3. dir.sharers # {j} /\ dir.pend.k # j /\ dir.sharers \subseteq D.sharers
    BY <1>3, <1>4, <1>11
  <2>4. Sees(j, l1[C(j)], out[C(j)], l2[j], up[C(j)], ToSet(dn[C(j)]), ToSet(todir[j]), ToSet(toL2[j]), {}, D, mc)
    BY <1>3, <2>1, <2>2, <2>3, SharedOther DEF Settles, Splits
  <2> QED
    BY <1>11, <2>4 DEF Meets, Rest
<1>12. Handled(k, e, D, sends, mc)
  <2>1. \A j \in L2s : Meets(j, Rest(k, e, j), To(sends, j), D, mc)
    BY <1>1, <1>4, <1>9, <1>10, <1>11
  <2> QED
    BY <1>5, <2>1 DEF Handled
<1> QED
  BY <1>12 DEF sends

\* Event e of L2 k is handled by the step.
DirDone(k, e) ==
    \E sends : /\ toL2' = [j \in L2s |-> toL2[j] \o SetToSeq(To(sends, j))] /\ fatal' = FALSE
               /\ Handled(k, e, dir', sends, mc')

LEMMA Applied ==
    ASSUME NEW k, NEW e, NEW D, NEW sends, NEW reads, NEW m,
           DirApplies(D, sends, reads), m = mc \o reads, Handled(k, e, D, sends, m)
    PROVE  DirDone(k, e)
<1>1. dir' = D /\ mc' = m /\ fatal' = FALSE
  BY DEF DirApplies
<1>2. toL2' = [j \in L2s |-> toL2[j] \o SetToSeq(To(sends, j))]
  BY DEF DirApplies, To
<1>3. Handled(k, e, dir', sends, mc')
  BY <1>1
<1> QED
  BY <1>1, <1>2, <1>3 DEF DirDone

LEMMA ReadDone ==
    ASSUME Private, Inv, NEW k \in L2s, NEW e \in ToSet(todir[k]), ~e.rep, e.t = "read",
           dir.type \in Stable, DirRead(e)
    PROVE  DirDone(k, e)
<1>1. e \in Events(k) /\ e.k = k /\ e.c = C(k) /\ e = Ask(k, "read")
  BY AtDirectory
<1>2. /\ mc = <<>> /\ dir \in DirEntries /\ dir.sharers # {} /\ mc \o <<>> = mc
      /\ dir.type \in {"E", "M"} => \E j \in L2s : dir.sharers = {j}
  BY HomeFacts
<1>3. CASE k \in dir.sharers
  <2>1. DirApplies(dir, {ULpp(e, "nack")}, <<>>)
    BY <1>1, <1>3 DEF DirRead
  <2>2. ULpp(e, "nack") = <<k, Answer(k, "nack")>> /\ Answer(k, "nack") \in L2Events(k)
    BY <1>1, AnswerSent
  <2>3. Answer(k, "nack").c = C(k) /\ Answer(k, "nack").t = "nack"
    BY DEF Answer, Event
  <2>4. Handled(k, e, dir, {<<k, Answer(k, "nack")>>}, mc)
    BY <2>2, <2>3, NackHandled
  <2> QED
    BY <1>2, <2>1, <2>2, <2>4, Applied
<1>4. CASE k \notin dir.sharers
  <2>1. dir.type # "S" => Cardinality(dir.sharers) = 1
    BY <1>2, FS_Singleton DEF Stable
  <2> DEFINE ty == IF dir.type = "M" THEN "m_s" ELSE "tr_s"
             D == [dir EXCEPT !.type = ty, !.pend = e]
             w == IF dir.type = "E" THEN "e_to_s" ELSE IF dir.type = "M" THEN "dir_rd" ELSE "s_to_s"
  <2>2. PICK h \in dir.sharers :
           DirApplies([dir EXCEPT !.type = IF @ = "M" THEN "m_s" ELSE "tr_s", !.pend = e],
                      {Tell(h, CASE dir.type = "E" -> "e_to_s"
                                 [] dir.type = "M" -> "dir_rd"
                                 [] OTHER -> "s_to_s")}, <<>>)
    BY <1>1, <1>2, <1>4, <2>1 DEF DirRead
  <2>3. (CASE dir.type = "E" -> "e_to_s" [] dir.type = "M" -> "dir_rd" [] OTHER -> "s_to_s") = w
    OBVIOUS
  <2>4. DirApplies(D, {Tell(h, w)}, <<>>)
    BY <2>2, <2>3
  <2>5. h \in L2s /\ w \in Sharing \cup Dropping \cup {"dir_rd"}
    BY <1>2 DEF DirEntries, Sharing
  <2> DEFINE x == Event(w, NoL1, FALSE, h, h \in Local)
  <2> HIDE DEF w
  <2>6. Tell(h, w) = <<h, x>> /\ x \in L2Events(h) /\ x.c = NoL1 /\ x.t = w
    BY <2>5, OrderSent
  <2> HIDE DEF x
  <2>7. D.type = ty /\ D.sharers = dir.sharers /\ D.pend = e
    BY <1>2 DEF DirEntries
  <2>8. D \in DirEntries
    <3>1. e \in DirPends
      BY <1>1 DEF DirPends
    <3>2. ty \in DirTypes
      BY DEF DirTypes
    <3> HIDE DEF ty
    <3> QED
      BY <1>2, <3>1, <3>2 DEF DirEntries
  <2> HIDE DEF D
  <2>9. x.t = IF dir.type = "E" THEN "e_to_s" ELSE IF dir.type = "M" THEN "dir_rd" ELSE "s_to_s"
    BY <2>6 DEF w
  <2>10. Handled(k, e, D, {<<h, x>>}, mc)
    BY <1>4, <2>6, <2>7, <2>8, <2>9, AskHandled
  <2>11. DirApplies(D, {<<h, x>>}, <<>>)
    BY <2>4, <2>6
  <2> QED
    BY <1>2, <2>10, <2>11, Applied
<1> QED
  BY <1>3, <1>4

\* f[j] is sent to every L2 j of S.
Each(S, f) == {<<j, f[j]>> : j \in S}

LEMMA ToEach ==
    ASSUME NEW S, NEW f
    PROVE  /\ \A j : j \notin S => To(Each(S, f), j) = {}
           /\ \A j \in S : To(Each(S, f), j) = {f[j]}
<1> DEFINE sends == Each(S, f)
<1>1. \A j \in S : <<j, f[j]>>[1] = j /\ <<j, f[j]>>[2] = f[j]
  OBVIOUS
<1>2. \A y \in sends : y[1] \in S /\ y[2] = f[y[1]]
  BY <1>1 DEF Each
<1>3. \A j \in S : \E y \in sends : y[1] = j
  BY <1>1 DEF Each
<1> HIDE DEF sends
<1>4. ASSUME NEW j, j \notin S PROVE To(sends, j) = {}
  BY <1>2, <1>4 DEF To
<1>5. ASSUME NEW j \in S PROVE To(sends, j) = {f[j]}
  <2>1. \A x \in To(sends, j) : x = f[j]
    BY <1>2 DEF To
  <2>2. f[j] \in To(sends, j)
    BY <1>2, <1>3 DEF To
  <2> QED
    BY <2>1, <2>2
<1> QED
  BY <1>4, <1>5 DEF sends

\* The sharers S are told to drop the line, h to return it.
Drops(S, h) == {Tell(h, "invalidate")} \cup {Tell(x, "invalidate_nd") : x \in S \ {h}}

LEMMA DropsSent ==
    ASSUME Private, NEW S \in SUBSET L2s, NEW h \in S
    PROVE  /\ \A j : j \notin S => To(Drops(S, h), j) = {}
           /\ \A j \in S : \E x \in L2Events(j) : To(Drops(S, h), j) = {x} /\ x.c = NoL1 /\ x.t \in Dropping
<1> DEFINE w(j) == IF j = h THEN "invalidate" ELSE "invalidate_nd"
           f == [j \in S |-> Event(w(j), NoL1, FALSE, j, j \in Local)]
<1>1. ASSUME NEW j \in S
      PROVE  Tell(j, w(j)) = <<j, f[j]>> /\ f[j] \in L2Events(j) /\ f[j].c = NoL1 /\ f[j].t \in Dropping
  <2>1. j \in L2s /\ w(j) \in Dropping /\ w(j) \in Sharing \cup Dropping \cup {"dir_rd"}
    BY DEF Dropping
  <2>2. f[j] = Event(w(j), NoL1, FALSE, j, j \in Local)
    OBVIOUS
  <2> DEFINE x == Event(w(j), NoL1, FALSE, j, j \in Local)
  <2> HIDE DEF w, f
  <2>3. Tell(j, w(j)) = <<j, x>> /\ x \in L2Events(j) /\ x.c = NoL1 /\ x.t = w(j)
    BY <2>1, OrderSent
  <2> HIDE DEF x
  <2>4. f[j] = x
    BY <2>2 DEF x
  <2> QED
    BY <2>1, <2>3, <2>4
<1>2. Drops(S, h) = {Tell(j, w(j)) : j \in S}
  BY DEF Drops
<1> HIDE DEF w, f
<1>3. Drops(S, h) = Each(S, f)
  BY <1>1, <1>2 DEF Each
<1>4. /\ \A j : j \notin S => To(Drops(S, h), j) = {}
      /\ \A j \in S : To(Drops(S, h), j) = {f[j]}
  BY <1>3, ToEach
<1> QED
  BY <1>1, <1>4

LEMMA WriteDone ==
    ASSUME Private, Inv, NEW k \in L2s, NEW e \in ToSet(todir[k]), ~e.rep, e.t = "write",
           dir.type \in Stable, DirWrite(e)
    PROVE  DirDone(k, e)
<1>1. e \in Events(k) /\ e.k = k /\ e.c = C(k) /\ e = Ask(k, "write")
  BY AtDirectory
<1>2. /\ mc = <<>> /\ dir \in DirEntries /\ dir.sharers # {} /\ mc \o <<>> = mc
      /\ dir.type \in {"E", "M"} => \E j \in L2s : dir.sharers = {j}
      /\ dir.pend = NoEvent
  BY HomeFacts DEF Stable
<1>3. dir.type # "S" => Cardinality(dir.sharers) = 1
  BY <1>2, FS_Singleton DEF Stable
<1> DEFINE held == [dir EXCEPT !.type = "tr_m", !.pend = e,
                               !.gotcl = IF dir.type = "E" THEN FALSE ELSE @]
           D == [dir EXCEPT !.type = "tr_m"]
<1>4. IF dir.type = "E" /\ k \in dir.sharers
      THEN DirApplies(D, {ULpp(e, "write_nd")}, <<>>)
      ELSE IF dir.type = "M" /\ k \in dir.sharers
      THEN DirApplies(dir, {UL(e, "nack")}, <<>>)
      ELSE \E s \in dir.sharers :
              DirApplies(held, {Tell(s, "invalidate")} \cup
                               {Tell(x, "invalidate_nd") : x \in dir.sharers \ {s}}, <<>>)
  BY <1>1, <1>2, <1>3 DEF DirWrite
<1>5. "tr_m" \in DirTypes /\ e \in DirPends
  BY <1>1 DEF DirTypes, DirPends
<1>6. D \in DirEntries /\ D.type = "tr_m" /\ D.sharers = dir.sharers /\ D.pend = dir.pend
  BY <1>2, <1>5 DEF DirEntries
<1>7. held \in DirEntries /\ held.type = "tr_m" /\ held.sharers = dir.sharers /\ held.pend = e
  <2> DEFINE g == IF dir.type = "E" THEN FALSE ELSE dir.gotcl
  <2>1. g \in BOOLEAN
    BY <1>2 DEF DirEntries
  <2>2. held = [dir EXCEPT !.type = "tr_m", !.pend = e, !.gotcl = g]
    OBVIOUS
  <2> HIDE DEF g
  <2> QED
    BY <1>2, <1>5, <2>1, <2>2 DEF DirEntries
<1> HIDE DEF held, D
<1>8. CASE dir.type = "E" /\ k \in dir.sharers
  <2> DEFINE x == Answer(k, "write_nd")
  <2>1. ULpp(e, "write_nd") = <<k, x>> /\ x \in L2Events(k)
    BY <1>1, AnswerSent
  <2>2. x.c = C(k) /\ x.t = "write_nd"
    BY DEF Answer, Event
  <2> HIDE DEF x
  <2>3. Handled(k, e, D, {<<k, x>>}, mc)
    BY <1>6, <1>8, <2>1, <2>2, UpgradeHandled
  <2>4. DirApplies(D, {<<k, x>>}, <<>>)
    BY <1>4, <1>8, <2>1
  <2> QED
    BY <1>2, <2>3, <2>4, Applied
<1>9. CASE dir.type = "M" /\ k \in dir.sharers
  <2> DEFINE x == Event("nack", C(k), FALSE, k, k \in Local)
  <2>1. UL(e, "nack") = <<k, x>> /\ x \in L2Events(k)
    BY <1>1, AnswerSent, Zenon
  <2>2. x.c = C(k) /\ x.t = "nack"
    BY Zenon DEF Event
  <2> HIDE DEF x
  <2>3. Handled(k, e, dir, {<<k, x>>}, mc)
    BY <1>9, <2>1, <2>2, NackHandled
  <2>4. DirApplies(dir, {<<k, x>>}, <<>>)
    BY <1>4, <1>9, <2>1
  <2> QED
    BY <1>2, <2>3, <2>4, Applied
<1>10. CASE k \in dir.sharers => dir.type = "S"
  <2>1. PICK h \in dir.sharers :
           DirApplies(held, {Tell(h, "invalidate")} \cup
                            {Tell(x, "invalidate_nd") : x \in dir.sharers \ {h}}, <<>>)
    BY <1>4, <1>10
  <2>2. dir.sharers \in SUBSET L2s
    BY <1>2 DEF DirEntries
  <2> DEFINE sends == Drops(dir.sharers, h)
  <2>3. DirApplies(held, sends, <<>>)
    BY <2>1 DEF Drops
  <2>4. /\ \A j : j \notin dir.sharers => To(sends, j) = {}
        /\ \A j \in dir.sharers : \E x \in L2Events(j) : To(sends, j) = {x} /\ x.c = NoL1 /\ x.t \in Dropping
    BY <2>2, DropsSent
  <2> HIDE DEF sends
  <2>5. Handled(k, e, held, sends, mc)
    BY <1>7, <1>10, <2>4, DropHandled
  <2> QED
    BY <1>2, <2>3, <2>5, Applied
<1> QED
  BY <1>8, <1>9, <1>10 DEF Stable

\* Every request.
LEMMA RequestDone ==
    ASSUME Private, Inv, NEW k \in L2s, NEW e \in ToSet(todir[k]), ~e.rep, DirRequest(e)
    PROVE  DirDone(k, e)
<1>1. e \in Events(k) /\ e.k = k /\ e.c = C(k) /\ e = Ask(k, e.t) /\ e.t \in {"read", "write"}
  BY AtDirectory
<1>2. dir \in DirEntries
  BY HomeFacts
<1>3. dir.type \in DirTypes
  BY <1>2 DEF DirEntries
<1>4. CASE dir.type = "none"
  <2> DEFINE D == [type |-> IF e.t = "read" THEN "tr_e" ELSE "tr_m", sharers |-> {k},
                   pend |-> NoEvent, gotcl |-> FALSE]
  <2>1. DirApplies(D, {}, <<e>>)
    <3>1. DirApplies([type |-> IF e.t = "read" THEN "tr_e" ELSE "tr_m", sharers |-> {e.k},
                      pend |-> NoEvent, gotcl |-> FALSE], {}, <<e>>)
      BY <1>4 DEF DirRequest, Moving, Stable
    <3> QED
      BY <1>1, <3>1, Zenon
  <2>2. D = [type |-> IF e.t = "read" THEN "tr_e" ELSE "tr_m", sharers |-> {k},
             pend |-> NoEvent, gotcl |-> FALSE]
    OBVIOUS
  <2> HIDE DEF D
  <2>3. mc \o <<e>> = <<e>> /\ Handled(k, e, D, {}, <<e>>)
    BY <1>4, <2>2, FirstHandled
  <2> QED
    BY <2>1, <2>3, Applied
<1>5. CASE dir.type \in Moving
  <2> DEFINE x == Answer(k, "nack")
  <2>1. DirApplies(dir, {ULpp(e, "nack")}, <<>>)
    BY <1>5 DEF DirRequest, Moving, Stable
  <2>2. ULpp(e, "nack") = <<k, x>> /\ x \in L2Events(k)
    BY <1>1, AnswerSent
  <2>3. x.c = C(k) /\ x.t = "nack"
    BY DEF Answer, Event
  <2> HIDE DEF x
  <2>4. Handled(k, e, dir, {<<k, x>>}, mc)
    BY <1>5, <2>2, <2>3, NackHandled DEF Moving
  <2>5. DirApplies(dir, {<<k, x>>}, <<>>) /\ mc \o <<>> = mc
    BY <2>1, <2>2, ReadsOf
  <2> QED
    BY <2>4, <2>5, Applied
<1>6. CASE dir.type \in Stable /\ e.t = "read"
  <2>1. DirRead(e)
    BY <1>6 DEF DirRequest, Moving, Stable
  <2> QED
    BY <1>6, <2>1, ReadDone
<1>7. CASE dir.type \in Stable /\ e.t = "write"
  <2>1. DirWrite(e)
    BY <1>7 DEF DirRequest, Moving, Stable
  <2> QED
    BY <1>7, <2>1, WriteDone
<1> QED
  BY <1>1, <1>3, <1>4, <1>5, <1>6, <1>7 DEF DirTypes, Moving

LEMMA GrantDone ==
    ASSUME Private, Inv, NEW k \in L2s, NEW e \in ToSet(todir[k]), e.rep, e.t = "e_to_m", DirUpgraded(e)
    PROVE  DirDone(k, e)
<1>1. dir \in DirEntries /\ mc \o <<>> = mc
  BY HomeFacts, ReadsOf
<1> DEFINE D == [dir EXCEPT !.type = "M", !.pend = NoEvent]
<1>2. "M" \in DirTypes /\ NoEvent \in DirPends
  BY DEF DirTypes, DirPends, Stable
<1>3. D \in DirEntries /\ D.type = "M" /\ D.sharers = dir.sharers /\ D.pend = NoEvent
  BY <1>1, <1>2 DEF DirEntries
<1>4. dir.type = "tr_m" => DirApplies(D, {}, <<>>)
  BY DEF DirUpgraded
<1> HIDE DEF D
<1>5. dir.type = "tr_m" /\ Handled(k, e, D, {}, mc)
  BY <1>3, GrantHandled
<1> QED
  BY <1>1, <1>4, <1>5, Applied

LEMMA DropDone ==
    ASSUME Private, Inv, NEW k \in L2s, NEW e \in ToSet(todir[k]), e.rep, e.t \in Dropping, DirInvalidated(e)
    PROVE  DirDone(k, e)
<1>1. dir \in DirEntries /\ mc \o <<>> = mc /\ e.k = k
  BY HomeFacts, ReadsOf, AtDirectory
<1>2. dir.type = "tr_m" /\ Waits(dir) /\ k \in dir.sharers /\ mc = <<>>
  BY Dropped
<1>3. PICK p \in L2s : dir.pend = Ask(p, "write") /\ dir.pend.k = p
  BY Dropped
<1> DEFINE got  == dir.gotcl \/ e.t = "invalidate"
           left == dir.sharers \ {k}
           D1   == [dir EXCEPT !.sharers = left, !.gotcl = got]
           D2   == [type |-> "M", sharers |-> {p}, pend |-> NoEvent, gotcl |-> FALSE]
           D3   == [dir EXCEPT !.sharers = {p}, !.pend = NoEvent]
<1>4. /\ left # {} => DirApplies(D1, {}, <<>>)
      /\ left = {} /\ got => DirApplies(D2, {UL(dir.pend, "write")}, <<>>)
      /\ left = {} /\ ~got => DirApplies(D3, {}, <<dir.pend>>)
  <2>1. CASE left # {}
    BY <1>1, <1>2, <2>1 DEF DirInvalidated, Waits
  <2>2. CASE left = {} /\ got
    BY <1>1, <1>2, <1>3, <2>2 DEF DirInvalidated, Waits
  <2>3. CASE left = {} /\ ~got
    BY <1>1, <1>2, <1>3, <2>3 DEF DirInvalidated, Waits
  <2> QED
    BY <2>1, <2>2, <2>3
<1>5. got \in BOOLEAN /\ left \in SUBSET L2s /\ NoEvent \in DirPends /\ "M" \in DirTypes
  BY <1>1 DEF DirEntries, DirPends, DirTypes, Stable
<1>6. CASE left # {}
  <2> HIDE DEF got, left
  <2>1. D1 \in DirEntries /\ D1.type = "tr_m" /\ D1.sharers = left /\ D1.pend = dir.pend
    BY <1>1, <1>2, <1>5 DEF DirEntries
  <2>2. DirApplies(D1, {}, <<>>)
    BY <1>4, <1>6
  <2> HIDE DEF D1
  <2>3. left = dir.sharers \ {k}
    BY DEF left
  <2>4. Handled(k, e, D1, {}, mc)
    BY <1>6, <2>1, <2>3, LeftHandled
  <2> QED
    BY <1>1, <2>2, <2>4, Applied
<1>7. CASE left = {} /\ got
  <2> DEFINE x == Event("write", C(p), FALSE, p, p \in Local)
             sends == {<<p, x>>}
  <2>1. dir.pend \in Events(p) /\ dir.pend.c = C(p)
    BY <1>3 DEF Ask, Event, Events, Kinds, Data
  <2>2. UL(dir.pend, "write") = <<p, x>> /\ x \in L2Events(p)
    BY <2>1, AnswerSent, Zenon DEF Data
  <2>3. x.c = C(p) /\ x.t = "write"
    BY Zenon DEF Event
  <2>4. D2 \in DirEntries /\ D2.type = "M" /\ D2.sharers = {p} /\ D2.pend = NoEvent
    BY <1>5 DEF DirEntries
  <2>5. DirApplies(D2, {UL(dir.pend, "write")}, <<>>)
    BY <1>4, <1>7
  <2> HIDE DEF D2, x
  <2>6. \E y \in L2Events(p) : sends = {<<p, y>>} /\ y.c = C(p) /\ y.t = "write"
    BY <2>2, <2>3
  <2>7. DirApplies(D2, sends, <<>>)
    BY <2>2, <2>5
  <2> HIDE DEF sends
  <2>8. Handled(k, e, D2, sends, mc)
    BY <1>2, <1>3, <1>7, <2>4, <2>6, WriteHandled
  <2> QED
    BY <1>1, <2>7, <2>8, Applied
<1>8. CASE left = {} /\ ~got
  <2>1. D3 \in DirEntries /\ D3.type = "tr_m" /\ D3.sharers = {p} /\ D3.pend = NoEvent
    BY <1>1, <1>2, <1>5 DEF DirEntries
  <2>2. DirApplies(D3, {}, <<dir.pend>>)
    BY <1>4, <1>8
  <2> HIDE DEF D3
  <2>3. Handled(k, e, D3, {}, <<dir.pend>>)
    BY <1>2, <1>3, <1>8, <2>1, WriteHandled
  <2>4. mc \o <<dir.pend>> = <<dir.pend>>
    BY <1>2
  <2> QED
    BY <2>2, <2>3, <2>4, Applied
<1> QED
  BY <1>6, <1>7, <1>8

LEMMA ShareDone ==
    ASSUME Private, Inv, NEW k \in L2s, NEW e \in ToSet(todir[k]), e.rep, e.t \in Shared \cup Fetched, DirShared(e)
    PROVE  DirDone(k, e)
<1>1. dir \in DirEntries /\ mc \o <<>> = mc /\ Home(dir, mc)
  BY HomeFacts, ReadsOf
<1>2. dir.type \in {"tr_s", "m_s"} /\ k \in dir.sharers
  BY NodeFacts DEF Settles, Sound, Place, Obeys
<1>3. PICK p \in L2s : dir.pend = Ask(p, "read") /\ dir.pend.k = p
  <2>1. dir.pend # NoEvent /\ dir.pend.t = "read"
    BY <1>1, <1>2 DEF Home, Waits
  <2>2. PICK p \in L2s, t \in {"read", "write"} : dir.pend = Ask(p, t)
    BY <1>1, <2>1 DEF DirEntries, DirPends
  <2>3. dir.pend.k = p /\ t = "read"
    BY <2>1, <2>2 DEF Ask, Event
  <2> QED
    BY <2>2, <2>3
<1>4. dir.pend \in Events(p) /\ dir.pend.c = C(p)
  BY <1>3 DEF Ask, Event, Events, Kinds
<1> DEFINE D1 == [dir EXCEPT !.type = "S", !.pend = NoEvent]
           D2 == [dir EXCEPT !.type = "S", !.sharers = @ \cup {p}, !.pend = NoEvent]
           none == e.t \in {"e_to_s_nd", "s_to_s_nd", "dir_rd_nd"}
<1>5. /\ none => DirApplies(D1, {ULpp(dir.pend, "nack")}, <<>>)
      /\ ~none => DirApplies(D2, {UL(dir.pend, "s_rd")}, <<>>)
  BY <1>2, <1>3 DEF DirShared
<1>6. NoEvent \in DirPends /\ "S" \in DirTypes
  BY DEF DirPends, DirTypes, Stable
<1>7. CASE none
  <2> DEFINE x == Answer(p, "nack")
  <2>1. ULpp(dir.pend, "nack") = <<p, x>> /\ x \in L2Events(p)
    BY <1>4, AnswerSent
  <2>2. x.c = C(p) /\ x.t = "nack"
    BY DEF Answer, Event
  <2>3. D1 \in DirEntries /\ D1.type = "S" /\ D1.sharers = dir.sharers /\ D1.pend = NoEvent
    BY <1>1, <1>6 DEF DirEntries
  <2>4. DirApplies(D1, {<<p, x>>}, <<>>)
    BY <1>5, <1>7, <2>1
  <2> HIDE DEF D1, x
  <2>5. Handled(k, e, D1, {<<p, x>>}, mc)
    BY <1>3, <2>1, <2>2, <2>3, ShareHandled
  <2> QED
    BY <1>1, <2>4, <2>5, Applied
<1>8. CASE ~none
  <2> DEFINE x == Event("s_rd", C(p), FALSE, p, p \in Local)
             S == dir.sharers \cup {p}
  <2>1. UL(dir.pend, "s_rd") = <<p, x>> /\ x \in L2Events(p)
    BY <1>4, AnswerSent, Zenon DEF Data
  <2>2. x.c = C(p) /\ x.t = "s_rd"
    BY Zenon DEF Event
  <2>3. S \in SUBSET L2s /\ D2 = [dir EXCEPT !.type = "S", !.sharers = S, !.pend = NoEvent]
    BY <1>1 DEF DirEntries
  <2>4. DirApplies(D2, {UL(dir.pend, "s_rd")}, <<>>)
    BY <1>5, <1>8
  <2> HIDE DEF D2, x, S
  <2>5. D2 \in DirEntries /\ D2.type = "S" /\ D2.sharers = S /\ D2.pend = NoEvent
    BY <1>1, <1>6, <2>3 DEF DirEntries
  <2>6. D2.sharers = dir.sharers \cup {p}
    BY <2>5 DEF S
  <2>7. Handled(k, e, D2, {<<p, x>>}, mc)
    BY <1>3, <2>1, <2>2, <2>5, <2>6, ShareHandled
  <2>8. DirApplies(D2, {<<p, x>>}, <<>>)
    BY <2>1, <2>4
  <2> QED
    BY <1>1, <2>7, <2>8, Applied
<1> QED
  BY <1>7, <1>8

\* Every event of an L2.
LEMMA HandlesDone ==
    ASSUME Private, Inv, NEW k \in L2s, NEW e \in ToSet(todir[k]), DirHandles(e)
    PROVE  DirDone(k, e)
<1>1. e.rep => e.t \in Shared \cup Fetched \cup Dropping \cup {"e_to_m"}
  BY AtDirectory
<1>2. CASE ~e.rep
  <2>1. DirRequest(e)
    BY <1>2 DEF DirHandles
  <2> QED
    BY <1>2, <2>1, RequestDone
<1>3. CASE e.rep /\ e.t = "e_to_m"
  <2>1. DirUpgraded(e)
    BY <1>3 DEF DirHandles
  <2> QED
    BY <1>3, <2>1, GrantDone
<1>4. CASE e.rep /\ e.t \in Dropping
  <2>1. DirInvalidated(e)
    BY <1>4 DEF DirHandles, Dropping
  <2> QED
    BY <1>4, <2>1, DropDone
<1>5. CASE e.rep /\ e.t \in Shared \cup Fetched
  <2>1. DirShared(e)
    BY <1>5 DEF DirHandles, Shared, Fetched
  <2> QED
    BY <1>5, <2>1, ShareDone
<1> QED
  BY <1>1, <1>2, <1>3, <1>4, <1>5

-----------------------------------------------------------------------------
(* The steps keep the invariant: the directory.                            *)

\* The three queues of an L2.
FromL1(k, q) ==
    /\ q \in Seq(DnEvents(k)) /\ Distinct(q)
    /\ \A x, y \in ToSet(q) : ((x.rep <=> y.rep) => x = y) /\ (x.rep /\ ~y.rep => Before(q, x, y))
ToHome(k, q) ==
    /\ q \in Seq(DirEvents(k)) /\ Distinct(q)
    /\ \A x, y \in ToSet(q) : (x.rep <=> y.rep) => x = y
FromHome(k, q) ==
    /\ q \in Seq(L2Events(k)) /\ Distinct(q)
    /\ \A x, y \in ToSet(q) : (x.c = y.c => x = y) /\ (x.t \in Data /\ y.c = NoL1 => Before(q, x, y))

LEMMA ThreeQueues ==
    ASSUME NEW k, NEW d, NEW td, NEW tl
    PROVE  Queues(k, d, td, tl) <=> FromL1(k, d) /\ ToHome(k, td) /\ FromHome(k, tl)
  BY DEF Queues, FromL1, ToHome, FromHome

LEMMA Wider ==
    ASSUME NEW A, NEW B, A \subseteq B, NEW q \in Seq(A)
    PROVE  q \in Seq(B)
<1>1. Len(q) \in Nat /\ q \in [1 .. Len(q) -> A]
  OBVIOUS
<1>2. q \in [1 .. Len(q) -> B]
  BY <1>1
<1> QED
  BY <1>1, <1>2

LEMMA AllEvents ==
    ASSUME NEW k \in L2s
    PROVE  /\ DnEvents(k) \subseteq Evts /\ DirEvents(k) \subseteq Evts /\ L2Events(k) \subseteq Evts
           /\ Events(k) \subseteq Evts
<1>1. Events(k) \subseteq Evts
  BY DEF Evts
<1>2. DnEvents(k) \subseteq Events(k) /\ DirEvents(k) \subseteq Events(k) /\ L2Events(k) \subseteq Events(k)
  BY DEF DnEvents, DirEvents, L2Events
<1> QED
  BY <1>1, <1>2

\* An event leaves a queue.
LEMMA FromL1Taken ==
    ASSUME NEW k, NEW q, FromL1(k, q), NEW i \in DOMAIN q
    PROVE  /\ FromL1(k, RemoveAt(q, i)) /\ ToSet(RemoveAt(q, i)) = ToSet(q) \ {q[i]}
           /\ q[i] \in ToSet(q)
<1>1. q \in Seq(DnEvents(k)) /\ Distinct(q)
  BY DEF FromL1
<1> DEFINE r == RemoveAt(q, i)
<1>2. /\ r \in Seq(DnEvents(k)) /\ Distinct(r) /\ ToSet(r) = ToSet(q) \ {q[i]}
      /\ \A x, y : Before(q, x, y) /\ x # q[i] /\ y # q[i] => Before(r, x, y)
      /\ q[i] \in ToSet(q)
  BY <1>1, Take
<1> HIDE DEF r
<1>3. FromL1(k, r)
  BY <1>2 DEF FromL1
<1> QED
  BY <1>2, <1>3 DEF r

LEMMA ToHomeTaken ==
    ASSUME NEW k, NEW q, ToHome(k, q), NEW i \in DOMAIN q
    PROVE  /\ ToHome(k, RemoveAt(q, i)) /\ ToSet(RemoveAt(q, i)) = ToSet(q) \ {q[i]}
           /\ q[i] \in ToSet(q)
<1>1. q \in Seq(DirEvents(k)) /\ Distinct(q)
  BY DEF ToHome
<1> DEFINE r == RemoveAt(q, i)
<1>2. /\ r \in Seq(DirEvents(k)) /\ Distinct(r) /\ ToSet(r) = ToSet(q) \ {q[i]}
      /\ q[i] \in ToSet(q)
  BY <1>1, Take
<1> HIDE DEF r
<1>3. ToHome(k, r)
  BY <1>2 DEF ToHome
<1> QED
  BY <1>2, <1>3 DEF r

LEMMA FromHomeTaken ==
    ASSUME NEW k, NEW q, FromHome(k, q), NEW i \in DOMAIN q
    PROVE  /\ FromHome(k, RemoveAt(q, i)) /\ ToSet(RemoveAt(q, i)) = ToSet(q) \ {q[i]}
           /\ q[i] \in ToSet(q)
<1>1. q \in Seq(L2Events(k)) /\ Distinct(q)
  BY DEF FromHome
<1> DEFINE r == RemoveAt(q, i)
<1>2. /\ r \in Seq(L2Events(k)) /\ Distinct(r) /\ ToSet(r) = ToSet(q) \ {q[i]}
      /\ \A x, y : Before(q, x, y) /\ x # q[i] /\ y # q[i] => Before(r, x, y)
      /\ q[i] \in ToSet(q)
  BY <1>1, Take
<1> HIDE DEF r
<1>3. FromHome(k, r)
  BY <1>2 DEF FromHome
<1> QED
  BY <1>2, <1>3 DEF r

\* The directory sends an L2 the events of G.
LEMMA FromHomePut ==
    ASSUME Private, NEW k \in L2s, NEW q, FromHome(k, q), NEW G, Sendable(k, ToSet(q), G)
    PROVE  /\ FromHome(k, q \o SetToSeq(G)) /\ ToSet(q \o SetToSeq(G)) = ToSet(q) \cup G
<1>1. q \in Seq(L2Events(k)) /\ Distinct(q)
  BY DEF FromHome
<1>2. CASE G = {}
  <2>1. q \o SetToSeq(G) = q
    BY <1>1, <1>2, SeqOfNone
  <2> QED
    BY <1>2, <2>1
<1>3. CASE \E x \in L2Events(k) : /\ G = {x} /\ \A y \in ToSet(q) : y.c # x.c
                                  /\ x.t \in Data => ~Asks(ToSet(q))
  <2>1. PICK x \in L2Events(k) : /\ G = {x} /\ \A y \in ToSet(q) : y.c # x.c
                                 /\ x.t \in Data => ~Asks(ToSet(q))
    BY <1>3
  <2> DEFINE r == Append(q, x)
  <2>2. SetToSeq(G) = <<x>>
    BY <2>1, SeqOfOne
  <2>3. q \o SetToSeq(G) = r
    BY <1>1, <2>2
  <2>4. x \notin ToSet(q)
    BY <2>1
  <2>5. /\ r \in Seq(L2Events(k)) /\ Distinct(r) /\ ToSet(r) = ToSet(q) \cup {x}
        /\ \A y, z : Before(q, y, z) => Before(r, y, z)
        /\ \A y \in ToSet(q) : Before(r, y, x)
    BY <1>1, <2>4, Put
  <2> HIDE DEF r
  <2>6. FromHome(k, r)
    <3>1. ASSUME NEW y \in ToSet(r), NEW z \in ToSet(r), y.c = z.c PROVE y = z
      BY <2>1, <2>5, <3>1 DEF FromHome
    <3>2. ASSUME NEW y \in ToSet(r), NEW z \in ToSet(r), y.t \in Data, z.c = NoL1 PROVE Before(r, y, z)
      <4>1. CASE z = x /\ y # x
        BY <2>5, <4>1
      <4>2. CASE y = x /\ z # x
        BY <2>1, <2>5, <3>2, <4>2 DEF Asks
      <4>3. CASE y = x /\ z = x
        <5>1. x.t \notin Data \/ x.c # NoL1
          BY OwnL1 DEF L2Events, Sharing, Dropping, Data
        <5> QED
          BY <3>2, <4>3, <5>1
      <4>4. CASE y # x /\ z # x
        BY <2>5, <3>2, <4>4 DEF FromHome
      <4> QED
        BY <4>1, <4>2, <4>3, <4>4
    <3> QED
      BY <2>5, <3>1, <3>2 DEF FromHome
  <2> QED
    BY <2>1, <2>3, <2>5, <2>6
<1> QED
  BY <1>2, <1>3 DEF Sendable

\* The directory takes event e of L2 k and handles it.
LEMMA DirKeeps ==
    ASSUME Private, Inv, NEW k \in L2s, NEW e, DirDone(k, e),
           \A j \in L2s : ToHome(j, todir'[j]) /\ ToSet(todir'[j]) = Rest(k, e, j),
           todir' \in [L2s -> Seq(Evts)], UNCHANGED <<l1, l2, up, dn, xbar, out, pre, lost>>
    PROVE  Inv'
<1>1. PICK sends : /\ toL2' = [j \in L2s |-> toL2[j] \o SetToSeq(To(sends, j))] /\ fatal' = FALSE
                   /\ Handled(k, e, dir', sends, mc')
  BY DEF DirDone
<1>2. ASSUME NEW j \in L2s
      PROVE  /\ FromHome(j, toL2'[j]) /\ ToSet(toL2'[j]) = ToSet(toL2[j]) \cup To(sends, j)
             /\ Access(j, l1[C(j)], out[C(j)], up[C(j)], ToSet(dn[C(j)]), ToSet(todir'[j]), ToSet(toL2'[j]), dir', mc')
             /\ Line(j, l1[C(j)], l2[j], up[C(j)], ToSet(dn[C(j)]))
             /\ Place(j, l2[j], ToSet(todir'[j]), ToSet(toL2'[j]), dir', mc')
             /\ FromL1(j, dn[C(j)])
  <2>1. Queues(j, dn[C(j)], todir[j], toL2[j]) /\ Line(j, l1[C(j)], l2[j], up[C(j)], ToSet(dn[C(j)]))
    BY DEF Inv, Node
  <2>2. FromL1(j, dn[C(j)]) /\ FromHome(j, toL2[j])
    BY <2>1, ThreeQueues
  <2>3. Sees(j, l1[C(j)], out[C(j)], l2[j], up[C(j)], ToSet(dn[C(j)]), Rest(k, e, j), ToSet(toL2[j]),
             To(sends, j), dir', mc')
    BY <1>1 DEF Handled, Meets
  <2>4. toL2'[j] = toL2[j] \o SetToSeq(To(sends, j))
    BY <1>1
  <2>5. Sendable(j, ToSet(toL2[j]), To(sends, j))
    BY <2>3 DEF Sees
  <2>6. FromHome(j, toL2'[j]) /\ ToSet(toL2'[j]) = ToSet(toL2[j]) \cup To(sends, j)
    BY <2>2, <2>4, <2>5, FromHomePut
  <2> QED
    BY <2>1, <2>2, <2>3, <2>6 DEF Sees
<1>3. \A j \in L2s : Node(j)'
  <2> TAKE j \in L2s
  <2>1. Queues(j, dn'[C(j)], todir'[j], toL2'[j])
    BY <1>2, ThreeQueues
  <2> QED
    BY <1>2, <2>1 DEF Node
<1>4. Home(dir', mc')
  BY <1>1 DEF Handled
<1>5. Frame'
  <2>1. \A j \in L2s : toL2'[j] \in Seq(Evts)
    <3> TAKE j \in L2s
    <3>1. toL2'[j] \in Seq(L2Events(j)) /\ L2Events(j) \subseteq Evts
      BY <1>2, AllEvents DEF FromHome
    <3> QED
      BY <3>1, Wider
  <2>2. toL2' \in [L2s -> Seq(Evts)]
    BY <1>1, <2>1
  <2>3. Frame
    BY DEF Inv
  <2> QED
    BY <1>1, <2>2, <2>3 DEF Frame
<1>6. Orders'
  <2>1. ASSUME NEW j \in L2s
        PROVE  /\ InDebt(j)' <=> Indebted(j, Rest(k, e, j), To(sends, j))
               /\ ToSet(toL2'[j]) = ToSet(toL2[j]) \cup To(sends, j) /\ ToSet(todir'[j]) = Rest(k, e, j)
    BY <1>2 DEF InDebt, Indebted
  <2>2. dir'.type \in {"tr_s", "m_s"} =>
          \E j \in L2s : InDebt(j)' /\ \A i \in L2s : InDebt(i)' => i = j
    BY <1>1, <2>1 DEF Handled
  <2>3. dir'.type = "tr_m" /\ ~Waits(dir') /\ mc' = <<>> =>
          \E j \in L2s : Has(ToSet(toL2'[j]), "write_nd") \/ Has(ToSet(todir'[j]), "e_to_m")
    BY <1>1, <2>1 DEF Handled
  <2> QED
    BY <2>2, <2>3 DEF Orders
<1> QED
  BY <1>3, <1>4, <1>5, <1>6 DEF Inv

\* Directory::process_event with an event of an L2.
LEMMA DirFromL2Keeps ==
    ASSUME Private, Inv, NEW k \in L2s, NEW i, DirFromL2(k, i)
    PROVE  Inv'
<1>1. /\ i \in DOMAIN todir[k] /\ todir' = [todir EXCEPT ![k] = RemoveAt(@, i)] /\ DirHandles(todir[k][i])
      /\ UNCHANGED <<l1, l2, up, dn, xbar, out, pre, lost>>
  BY DEF DirFromL2, Servable
<1> DEFINE e == todir[k][i]
<1>2. \A j \in L2s : ToHome(j, todir[j])
  BY ThreeQueues DEF Inv, Node
<1>3. todir \in [L2s -> Seq(Evts)]
  BY DEF Inv, Frame
<1>4. /\ ToHome(k, RemoveAt(todir[k], i)) /\ ToSet(RemoveAt(todir[k], i)) = ToSet(todir[k]) \ {e}
      /\ e \in ToSet(todir[k])
  BY <1>1, <1>2, ToHomeTaken
<1>5. RemoveAt(todir[k], i) \in Seq(Evts)
  <2>1. RemoveAt(todir[k], i) \in Seq(DirEvents(k)) /\ DirEvents(k) \subseteq Evts
    BY <1>4, AllEvents DEF ToHome
  <2> QED
    BY <2>1, Wider
<1>6. todir' \in [L2s -> Seq(Evts)]
  BY <1>1, <1>3, <1>5
<1>7. todir'[k] = RemoveAt(todir[k], i) /\ \A j \in L2s : j # k => todir'[j] = todir[j]
  BY <1>1, <1>3
<1>8. \A j \in L2s : ToHome(j, todir'[j]) /\ ToSet(todir'[j]) = Rest(k, e, j)
  BY <1>2, <1>4, <1>7 DEF Rest
<1>9. DirDone(k, e)
  BY <1>1, <1>4, HandlesDone
<1> HIDE DEF e
<1> QED
  BY <1>1, <1>6, <1>8, <1>9, DirKeeps

\* Directory::process_event with the memory controller's answer.
LEMMA DirFromMCKeeps ==
    ASSUME Private, Inv, NEW i, DirFromMC(i)
    PROVE  Inv'
<1>1. Home(dir, mc) /\ i \in DOMAIN mc /\ dir \in DirEntries
  BY HomeFacts DEF DirFromMC, MCReady
<1>2. mc # <<>> /\ Reading(dir, mc)
  BY <1>1 DEF Home
<1>3. PICK k \in L2s, t \in {"read", "write"} :
         /\ mc = <<Ask(k, t)>> /\ dir.sharers = {k} /\ ~Waits(dir)
         /\ dir.type = IF t = "read" THEN "tr_e" ELSE "tr_m"
  BY <1>2 DEF Reading
<1> DEFINE e == Ask(k, t)
           w == IF t = "read" THEN "e_rd" ELSE "write"
           x == Answer(k, w)
           sends == {<<k, x>>}
<1>4. i = 1 /\ mc[i] = e /\ RemoveAt(mc, i) = <<>>
  <2>1. i = 1 /\ mc[i] = e
    BY <1>1, <1>3
  <2>2. mc = <<e>> /\ Len(mc) = 1
    BY <1>3
  <2>3. SubSeq(mc, 1, 0) = <<>> /\ SubSeq(mc, 2, 1) = <<>>
    BY <2>2
  <2>4. RemoveAt(mc, 1) = SubSeq(mc, 1, 1 - 1) \o SubSeq(mc, 1 + 1, Len(mc))
    BY DEF RemoveAt
  <2>5. RemoveAt(mc, 1) = <<>> \o <<>>
    BY <2>2, <2>3, <2>4
  <2> QED
    BY <2>1, <2>5
<1>5. e \in Events(k) /\ e.c = C(k) /\ ~e.rep /\ e.k = k
  BY DEF Ask, Event, Events, Kinds, Data
<1>6. ULpp(e, w) = <<k, x>> /\ x \in L2Events(k) /\ x.c = C(k) /\ x.t = w
  <2>1. w \in Data \cup {"nack", "write_nd"}
    BY DEF Data
  <2>2. ULpp(e, w) = <<k, x>> /\ x \in L2Events(k)
    BY <1>5, <2>1, AnswerSent
  <2> QED
    BY <2>2 DEF Answer, Event
<1>7. /\ mc' = <<>> /\ fatal' = fatal
      /\ toL2' = [toL2 EXCEPT ![k] = Append(@, x)]
      /\ UNCHANGED <<l1, l2, up, dn, todir, xbar, out, pre, lost>>
  <2>1. w = IF dir.type = "tr_m" THEN "write" ELSE "e_rd"
    BY <1>3
  <2>2. mc[i].k = k
    BY <1>4, <1>5
  <2>3. ULpp(mc[i], IF dir.type = "tr_m" THEN "write" ELSE "e_rd")[2] = x
    BY <1>4, <1>6, <2>1
  <2> HIDE DEF e, w, x
  <2> QED
    BY <1>4, <2>2, <2>3 DEF DirFromMC
<1>8. /\ dir' \in DirEntries /\ dir'.type = (IF t = "read" THEN "E" ELSE "M")
      /\ dir'.sharers = {k} /\ dir'.pend = NoEvent
  <2>1. dir' = [dir EXCEPT !.type = IF t = "read" THEN "E" ELSE "M"]
    BY <1>3 DEF DirFromMC
  <2>2. (IF t = "read" THEN "E" ELSE "M") \in DirTypes
    BY DEF DirTypes, Stable
  <2> QED
    BY <1>1, <1>3, <2>1, <2>2 DEF DirEntries, Waits
<1>9. Home(dir', mc')
  BY <1>7, <1>8 DEF Home, Reading, Waits
<1>10. To(sends, k) = {x} /\ \A j : j # k => To(sends, j) = {}
  BY ToOne
<1> HIDE DEF x, sends
<1>11. ASSUME NEW j \in L2s
       PROVE  Idle(l2[j], ToSet(todir[j]), ToSet(toL2[j])) /\ NoEvent.k # j
  <2>1. \/ dir.type = "tr_e" \/ (dir.type = "tr_m" /\ ~Waits(dir) /\ mc # <<>>)
    BY <1>2, <1>3
  <2> QED
    BY <2>1, Unconcerned, ReadsOf
<1>12. Meets(k, ToSet(todir[k]), {x}, dir', mc') /\ ~Requests(ToSet(todir[k]))
  <2>1. Access(k, l1[C(k)], out[C(k)], up[C(k)], ToSet(dn[C(k)]), ToSet(todir[k]), ToSet(toL2[k]), dir, mc)
    BY NodeFacts DEF Settles, Sound
  <2>2. Reads(k, mc)
    BY <1>3, ReadsOf
  <2>3. ~Requests(ToSet(todir[k]))
    BY <2>1, <2>2 DEF Access, One
  <2>4. ~Reads(k, mc') /\ dir'.pend.k # k
    BY <1>7, <1>8, <1>11 DEF Reads
  <2>5. x.t \in Data \cup {"nack"}
    BY <1>6 DEF Data
  <2>6. /\ k \in dir'.sharers => ~(dir'.type = "tr_m" /\ Waits(dir')) /\ (dir'.type = "E" => x.t = "e_rd")
        /\ x.t = "e_rd" => dir'.type = "E" /\ dir'.sharers = {k}
        /\ x.t = "write" => dir'.type = "M" /\ dir'.sharers = {k}
        /\ x.t # "s_rd"
    BY <1>6, <1>8
  <2>7. Idle(l2[k], ToSet(todir[k]), ToSet(toL2[k]))
    BY <1>11
  <2>8. Meets(k, ToSet(todir[k]), {x}, dir', mc')
    <3>1. AnswerOf(k, dir', x)
      BY <1>6, <2>5, <2>6 DEF AnswerOf
    <3> QED
      BY <2>1, <2>2, <2>3, <2>4, <2>7, <3>1, IdleAnswered DEF Meets
  <2> QED
    BY <2>3, <2>8
<1>13. ASSUME NEW j \in L2s, j # k
       PROVE  Meets(j, ToSet(todir[j]), {}, dir', mc')
  <2>1. ~Reads(j, mc) /\ ~Reads(j, mc')
    <3>1. ~Reads(j, <<Ask(k, t)>>) /\ ~Reads(j, <<>>)
      BY <1>13, ReadsOf
    <3> QED
      BY <1>3, <1>7, <3>1
  <2>2. dir.pend.k # j /\ dir'.pend.k # j /\ j \notin dir'.sharers
    BY <1>3, <1>8, <1>11, <1>13 DEF Waits
  <2> QED
    BY <1>11, <2>1, <2>2, Untouched
<1>14. \A j \in L2s : Rest(k, e, j) = ToSet(todir[j])
  BY <1>5, <1>12 DEF Rest, Requests
<1> HIDE DEF e
<1>15. Handled(k, e, dir', sends, mc')
  <2>1. \A j \in L2s : Meets(j, Rest(k, e, j), To(sends, j), dir', mc')
    BY <1>10, <1>12, <1>13, <1>14
  <2> QED
    BY <1>8, <1>9, <2>1 DEF Handled
<1>16. toL2' = [j \in L2s |-> toL2[j] \o SetToSeq(To(sends, j))]
  <2>1. toL2 \in [L2s -> Seq(Evts)]
    BY DEF Inv, Frame
  <2>2. ASSUME NEW j \in L2s PROVE toL2'[j] = toL2[j] \o SetToSeq(To(sends, j))
    <3>1. toL2[j] \in Seq(Evts)
      BY <2>1
    <3>2. CASE j = k
      <4>1. SetToSeq(To(sends, j)) = <<x>>
        BY <1>10, <3>2, SeqOfOne
      <4>2. x \in Evts
        BY <1>6, AllEvents
      <4>3. toL2'[j] = Append(toL2[j], x)
        BY <1>7, <2>1, <3>2
      <4>4. \A q \in Seq(Evts) : Append(q, x) = q \o <<x>>
        BY <4>2
      <4> QED
        BY <3>1, <4>1, <4>3, <4>4
    <3>3. CASE j # k
      <4>1. SetToSeq(To(sends, j)) = <<>>
        BY <1>10, <3>3, SeqOfNone
      <4>2. toL2'[j] = toL2[j]
        BY <1>7, <2>1, <3>3
      <4> QED
        BY <3>1, <4>1, <4>2
    <3> QED
      BY <3>2, <3>3
  <2>3. DOMAIN toL2' = L2s /\ toL2' = [j \in DOMAIN toL2' |-> toL2'[j]]
    BY <1>7, <2>1
  <2> QED
    BY <2>2, <2>3
<1>17. fatal' = FALSE
  BY <1>7 DEF Inv, Frame
<1>18. DirDone(k, e)
  BY <1>15, <1>16, <1>17 DEF DirDone
<1>19. /\ todir' \in [L2s -> Seq(Evts)]
       /\ \A j \in L2s : ToHome(j, todir'[j]) /\ ToSet(todir'[j]) = Rest(k, e, j)
  <2>1. \A j \in L2s : ToHome(j, todir[j])
    BY ThreeQueues DEF Inv, Node
  <2>2. todir' = todir /\ todir \in [L2s -> Seq(Evts)]
    BY <1>7 DEF Inv, Frame
  <2> QED
    BY <1>14, <2>1, <2>2
<1>20. UNCHANGED <<l1, l2, up, dn, xbar, out, pre, lost>>
  BY <1>7
<1> QED
  BY <1>18, <1>19, <1>20, DirKeeps

-----------------------------------------------------------------------------
(* The steps keep the invariant: the L2s.                                  *)

\* The events of `ups' for L1 c, evictions or not.
PartOf(ups, c, b) == {x[2] : x \in {y \in ups : y[1] = c /\ (y[2].t = "evict") = b}}

LEMMA DeliveredParts ==
    ASSUME NEW q, NEW c
    PROVE  Delivered(q, c) = up[c] \o SetToSeq(PartOf(q.ups, c, FALSE)) \o SetToSeq(PartOf(q.ups, c, TRUE))
  BY DEF Delivered, PartOf

LEMMA DeliveredNone ==
    ASSUME Inv, NEW q, q.ups = {}, NEW c \in L1s
    PROVE  Delivered(q, c) = up[c]
<1>1. PartOf(q.ups, c, FALSE) = {} /\ PartOf(q.ups, c, TRUE) = {}
  BY DEF PartOf
<1>2. up[c] \in Seq(Evts)
  BY DEF Inv, Frame
<1>3. Delivered(q, c) = up[c] \o <<>> \o <<>>
  BY <1>1, SeqOfNone, DeliveredParts
<1> QED
  BY <1>2, <1>3

\* Outcome q sends the L1 of L2 k event x.
Hands(k, x, q) == q.ups = {<<C(k), x>>}

LEMMA DeliveredOne ==
    ASSUME Inv, NEW k \in L2s, NEW x \in Events(k), NEW q, Hands(k, x, q), NEW c \in L1s
    PROVE  Delivered(q, c) = IF c = C(k) THEN Append(up[c], x) ELSE up[c]
<1> DEFINE p == <<C(k), x>>
<1>1. p[1] = C(k) /\ p[2] = x /\ q.ups = {p}
  BY DEF Hands
<1> HIDE DEF p
<1>2. up[c] \in Seq(Evts) /\ x \in Evts
  BY AllEvents DEF Inv, Frame
<1>3. CASE c # C(k)
  <2>1. PartOf(q.ups, c, FALSE) = {} /\ PartOf(q.ups, c, TRUE) = {}
    BY <1>1, <1>3 DEF PartOf
  <2>2. Delivered(q, c) = up[c] \o <<>> \o <<>>
    BY <2>1, SeqOfNone, DeliveredParts
  <2> QED
    BY <1>2, <1>3, <2>2
<1>4. CASE c = C(k) /\ x.t = "evict"
  <2>1. {y \in q.ups : y[1] = c /\ (y[2].t = "evict") = TRUE} = {p}
    BY <1>1, <1>4
  <2>2. PartOf(q.ups, c, FALSE) = {} /\ PartOf(q.ups, c, TRUE) = {x}
    BY <1>1, <1>4, <2>1 DEF PartOf
  <2>3. Delivered(q, c) = up[c] \o <<>> \o <<x>>
    BY <2>2, SeqOfNone, SeqOfOne, DeliveredParts
  <2>4. \A r \in Seq(Evts) : r \o <<>> \o <<x>> = Append(r, x)
    BY <1>2
  <2> QED
    BY <1>2, <1>4, <2>3, <2>4
<1>5. CASE c = C(k) /\ x.t # "evict"
  <2>1. {y \in q.ups : y[1] = c /\ (y[2].t = "evict") = FALSE} = {p}
    BY <1>1, <1>5
  <2>2. PartOf(q.ups, c, FALSE) = {x} /\ PartOf(q.ups, c, TRUE) = {}
    BY <1>1, <1>5, <2>1 DEF PartOf
  <2>3. Delivered(q, c) = up[c] \o <<x>> \o <<>>
    BY <2>2, SeqOfNone, SeqOfOne, DeliveredParts
  <2>4. \A r \in Seq(Evts) : r \o <<x>> \o <<>> = Append(r, x)
    BY <1>2
  <2> QED
    BY <1>2, <1>5, <2>3, <2>4
<1> QED
  BY <1>3, <1>4, <1>5

\* L2 k can send the directory the events r, with S on their way.
Admits(k, S, r) ==
    \/ r = <<>>
    \/ \E y \in DirEvents(k) : r = <<y>> /\ \A x \in S : ~(x.rep <=> y.rep)

\* L2 k sends the directory the events of an outcome.
LEMMA ToHomePut ==
    ASSUME NEW k, NEW q, ToHome(k, q), NEW r, Admits(k, ToSet(q), r)
    PROVE  ToHome(k, q \o r) /\ ToSet(q \o r) = ToSet(q) \cup ToSet(r)
<1>1. q \in Seq(DirEvents(k)) /\ Distinct(q)
  BY DEF ToHome
<1>2. CASE r = <<>>
  <2>1. \A p \in Seq(DirEvents(k)) : p \o <<>> = p
    OBVIOUS
  <2>2. ToSet(<<>>) = {}
    BY Elements, Zenon
  <2>3. q \o r = q /\ ToSet(r) = {}
    BY <1>1, <1>2, <2>1, <2>2, Zenon
  <2> QED
    BY <2>3
<1>3. CASE \E y \in DirEvents(k) : r = <<y>> /\ \A x \in ToSet(q) : ~(x.rep <=> y.rep)
  <2>1. PICK y \in DirEvents(k) : r = <<y>> /\ \A x \in ToSet(q) : ~(x.rep <=> y.rep)
    BY <1>3
  <2> DEFINE p == Append(q, y)
  <2>2. q \o r = p /\ ToSet(r) = {y}
    <3>1. \A u \in Seq(DirEvents(k)) : u \o <<y>> = Append(u, y)
      OBVIOUS
    <3>2. ToSet(<<y>>) = {y}
      BY Elements, Zenon
    <3> QED
      BY <1>1, <2>1, <3>1, <3>2, Zenon
  <2>3. y \notin ToSet(q)
    BY <2>1
  <2>4. p \in Seq(DirEvents(k)) /\ Distinct(p) /\ ToSet(p) = ToSet(q) \cup {y}
    BY <1>1, <2>3, Put
  <2> HIDE DEF p
  <2>5. ToHome(k, p)
    BY <2>1, <2>4 DEF ToHome
  <2> QED
    BY <2>2, <2>4, <2>5
<1> QED
  BY <1>2, <1>3 DEF Admits

\* L2 k has handled an event with outcome q.
LEMMA L2Keeps ==
    ASSUME Private, Inv, NEW k \in L2s, NEW q, L2Applies(k, q, FALSE), lost' = lost,
           Served(k, q, l1[C(k)], out[C(k)], l2[k], up[C(k)], ToSet(dn'[C(k)]), ToSet(todir[k]),
                  ToSet(toL2[k]), ToSet(toL2'[k]), dir, mc),
           FromL1(k, dn'[C(k)]), FromHome(k, toL2'[k]),
           \A j \in L2s : j # k => dn'[C(j)] = dn[C(j)] /\ toL2'[j] = toL2[j],
           dn' \in [L1s -> Seq(Evts)], toL2' \in [L2s -> Seq(Evts)]
    PROVE  Inv'
<1>1. /\ l2' = [l2 EXCEPT ![k] = q.entry] /\ up' = [c \in L1s |-> Delivered(q, c)]
      /\ todir' = [todir EXCEPT ![k] = @ \o q.downs] /\ xbar' = xbar /\ fatal' = q.fatal
      /\ UNCHANGED <<l1, dir, mc, out, pre>>
  BY DEF L2Applies
<1>2. Frame /\ Home(dir, mc) /\ Orders /\ (\A j \in L2s : Node(j))
  BY DEF Inv
<1>3. C(k) \in L1s /\ \A j \in L2s : C(j) \in L1s /\ (j # k => C(j) # C(k))
  BY OwnL1
<1> DEFINE td2 == ToSet(todir[k]) \cup ToSet(q.downs)
<1>4. /\ q.fatal = FALSE /\ q.entry \in Entries
      /\ \E v : /\ \/ q.ups = {} /\ v = up[C(k)]
                   \/ \E x \in Events(k) : q.ups = {<<C(k), x>>} /\ v = Append(up[C(k)], x)
                /\ Sound(k, l1[C(k)], out[C(k)], q.entry, v, ToSet(dn'[C(k)]), td2, ToSet(toL2'[k]), dir, mc)
      /\ \/ q.downs = <<>>
         \/ \E y \in DirEvents(k) : q.downs = <<y>> /\ \A x \in ToSet(todir[k]) : ~(x.rep <=> y.rep)
      /\ dir.type \in {"tr_s", "m_s"} => (Owes(q.entry, td2, ToSet(toL2'[k])) <=> InDebt(k))
      /\ Has(ToSet(toL2[k]), "write_nd") \/ Has(ToSet(todir[k]), "e_to_m")
            => Has(ToSet(toL2'[k]), "write_nd") \/ Has(td2, "e_to_m")
  BY DEF Served, InDebt
<1>5. PICK v : /\ \/ q.ups = {} /\ v = up[C(k)]
                  \/ \E x \in Events(k) : q.ups = {<<C(k), x>>} /\ v = Append(up[C(k)], x)
               /\ Sound(k, l1[C(k)], out[C(k)], q.entry, v, ToSet(dn'[C(k)]), td2, ToSet(toL2'[k]), dir, mc)
  BY <1>4
<1>6. up'[C(k)] = v /\ v \in Seq(Evts) /\ \A c \in L1s : c # C(k) => up'[c] = up[c]
  <2>1. up[C(k)] \in Seq(Evts)
    BY <1>2, <1>3 DEF Frame
  <2>2. CASE q.ups = {} /\ v = up[C(k)]
    BY <1>1, <1>3, <2>1, <2>2, DeliveredNone
  <2>3. CASE \E x \in Events(k) : q.ups = {<<C(k), x>>} /\ v = Append(up[C(k)], x)
    <3>1. PICK x \in Events(k) : q.ups = {<<C(k), x>>} /\ v = Append(up[C(k)], x)
      BY <2>3
    <3>0. q.ups = {<<C(k), x>>}
      BY <3>1
    <3>2. \A c \in L1s : Delivered(q, c) = IF c = C(k) THEN Append(up[c], x) ELSE up[c]
      <4>1. Hands(k, x, q)
        BY <3>0 DEF Hands
      <4> QED
        BY <4>1, DeliveredOne
    <3>3. x \in Evts
      BY AllEvents
    <3> QED
      BY <1>1, <1>3, <2>1, <3>1, <3>2, <3>3
  <2> QED
    BY <1>5, <2>2, <2>3
<1>7. ToHome(k, todir[k] \o q.downs) /\ ToSet(todir[k] \o q.downs) = td2
  <2>1. ToHome(k, todir[k])
    BY <1>2, ThreeQueues DEF Node
  <2>2. Admits(k, ToSet(todir[k]), q.downs)
    BY <1>4 DEF Admits
  <2> QED
    BY <2>1, <2>2, ToHomePut
<1>8. todir'[k] = todir[k] \o q.downs /\ \A j \in L2s : j # k => todir'[j] = todir[j]
  BY <1>1, <1>2 DEF Frame
<1>9. todir[k] \o q.downs \in Seq(Evts)
  <2>1. todir[k] \o q.downs \in Seq(DirEvents(k)) /\ DirEvents(k) \subseteq Evts
    BY <1>7, AllEvents DEF ToHome
  <2> QED
    BY <2>1, Wider
<1>10. l2'[k] = q.entry /\ \A j \in L2s : j # k => l2'[j] = l2[j]
  BY <1>1, <1>2 DEF Frame
<1>11. Frame'
  <2>1. l2' \in [L2s -> Entries]
    BY <1>1, <1>2, <1>4 DEF Frame, Entries
  <2>2. todir' \in [L2s -> Seq(Evts)]
    BY <1>1, <1>2, <1>9 DEF Frame
  <2>3. up' \in [L1s -> Seq(Evts)]
    BY <1>1, <1>2, <1>6 DEF Frame
  <2> QED
    BY <1>1, <1>2, <1>4, <2>1, <2>2, <2>3 DEF Frame, Entries
<1>12. Node(k)'
  <2>1. Queues(k, dn'[C(k)], todir'[k], toL2'[k])
    BY <1>7, <1>8, ThreeQueues
  <2>2. /\ l1'[C(k)] = l1[C(k)] /\ out'[C(k)] = out[C(k)] /\ up'[C(k)] = v /\ ToSet(todir'[k]) = td2
        /\ dir' = dir /\ mc' = mc /\ l2'[k] = q.entry
    BY <1>1, <1>6, <1>7, <1>8, <1>10
  <2>3. /\ Access(k, l1[C(k)], out[C(k)], v, ToSet(dn'[C(k)]), td2, ToSet(toL2'[k]), dir, mc)
        /\ Line(k, l1[C(k)], q.entry, v, ToSet(dn'[C(k)]))
        /\ Place(k, q.entry, td2, ToSet(toL2'[k]), dir, mc)
    BY <1>5 DEF Sound
  <2> HIDE DEF td2
  <2> QED
    BY <2>1, <2>2, <2>3 DEF Node
<1>13. ASSUME NEW j \in L2s, j # k PROVE Node(j)'
  <2>1. /\ up'[C(j)] = up[C(j)] /\ dn'[C(j)] = dn[C(j)] /\ todir'[j] = todir[j] /\ toL2'[j] = toL2[j]
        /\ l2'[j] = l2[j] /\ l1' = l1 /\ out' = out /\ dir' = dir /\ mc' = mc
    BY <1>1, <1>3, <1>6, <1>8, <1>10, <1>13
  <2>2. Node(j)
    BY <1>2
  <2> QED
    BY <2>1, <2>2 DEF Node
<1>14. Orders'
  <2>1. ASSUME NEW j \in L2s, j # k
        PROVE  /\ InDebt(j)' <=> InDebt(j) 
               /\ todir'[j] = todir[j] /\ toL2'[j] = toL2[j]
    BY <1>8, <1>10, <2>1 DEF InDebt
  <2>2. dir.type \in {"tr_s", "m_s"} => (InDebt(k)' <=> InDebt(k))
    BY <1>4, <1>7, <1>8, <1>10 DEF InDebt
  <2>3. Has(ToSet(toL2[k]), "write_nd") \/ Has(ToSet(todir[k]), "e_to_m")
            => Has(ToSet(toL2'[k]), "write_nd") \/ Has(ToSet(todir'[k]), "e_to_m")
    BY <1>4, <1>7, <1>8
  <2>4. dir.type \in {"tr_s", "m_s"} =>
          \E j \in L2s : InDebt(j)' /\ \A i \in L2s : InDebt(i)' => i = j
    BY <1>2, <2>1, <2>2 DEF Orders
  <2>5. dir.type = "tr_m" /\ ~Waits(dir) /\ mc = <<>> =>
          \E j \in L2s : Has(ToSet(toL2'[j]), "write_nd") \/ Has(ToSet(todir'[j]), "e_to_m")
    BY <1>2, <2>1, <2>3 DEF Orders
  <2>6. dir' = dir /\ mc' = mc
    BY <1>1
  <2> QED
    BY <2>4, <2>5, <2>6 DEF Orders
<1>15. Home(dir', mc')
  BY <1>1, <1>2
<1> QED
  BY <1>11, <1>12, <1>13, <1>14, <1>15 DEF Inv
-----------------------------------------------------------------------------
(* The events an L2 takes.                                                 *)

\* What the invariant says of L2 k.
LEMMA L2Facts ==
    ASSUME Private, Inv, NEW k \in L2s
    PROVE  /\ l2[k] \in Entries /\ up[C(k)] \in Seq(Evts)
           /\ FromL1(k, dn[C(k)]) /\ FromHome(k, toL2[k])
           /\ Sets(k, ToSet(dn[C(k)]), ToSet(todir[k]), ToSet(toL2[k]))
           /\ Sound(k, l1[C(k)], out[C(k)], l2[k], up[C(k)], ToSet(dn[C(k)]), ToSet(todir[k]),
                    ToSet(toL2[k]), dir, mc)
           /\ Place(k, l2[k], ToSet(todir[k]), ToSet(toL2[k]), dir, mc)
           /\ pre = 0 /\ lost = 0 /\ dn \in [L1s -> Seq(Evts)] /\ toL2 \in [L2s -> Seq(Evts)]
<1>1. Node(k) /\ Frame
  BY DEF Inv
<1>2. C(k) \in L1s
  BY OwnL1
<1>3. FromL1(k, dn[C(k)]) /\ ToHome(k, todir[k]) /\ FromHome(k, toL2[k])
  BY <1>1, ThreeQueues DEF Node
<1>4. \A S : \A q \in Seq(S) : ToSet(q) \subseteq S
  BY DEF ToSet
<1>5. Sets(k, ToSet(dn[C(k)]), ToSet(todir[k]), ToSet(toL2[k]))
  <2>1. /\ ToSet(dn[C(k)]) \subseteq DnEvents(k) /\ ToSet(todir[k]) \subseteq DirEvents(k)
        /\ ToSet(toL2[k]) \subseteq L2Events(k)
    BY <1>3, <1>4 DEF FromL1, ToHome, FromHome
  <2> QED
    BY <1>3, <2>1 DEF FromL1, ToHome, FromHome, Sets
<1>6. l2[k] \in Entries /\ up[C(k)] \in Seq(Evts)
  BY <1>1, <1>2 DEF Frame, Entries
<1> QED
  BY <1>1, <1>3, <1>5, <1>6 DEF Node, Sound, Frame

\* An L1's reply passes its requests, so that a request is served only when no
\* reply is left.
LEMMA RequestAlone ==
    ASSUME NEW k, NEW q, FromL1(k, q), NEW i \in Servable(q), ~q[i].rep
    PROVE  ~Replies(ToSet(q))
<1>1. i \in DOMAIN q /\ q \in Seq(DnEvents(k)) /\ Distinct(q)
  BY DEF Servable, FromL1
<1>2. q[i] \in ToSet(q)
  BY <1>1 DEF ToSet
<1>3. ASSUME NEW x \in ToSet(q), x.rep PROVE FALSE
  <2>1. Before(q, x, q[i])
    BY <1>2, <1>3 DEF FromL1
  <2> QED
    BY <1>1, <2>1, Overtakes
<1> QED
  BY <1>3 DEF Replies

\* CacheL2 handles event e of its L1.
LEMMA L1EventServed ==
    ASSUME Private, NEW k \in L2s, NEW a, NEW o, NEW u, NEW d, NEW td, NEW tl,
           NEW D, NEW m, l2[k] \in Entries, Sound(k, a, o, l2[k], u, d, td, tl, D, m), Sets(k, d, td, tl),
           NEW e \in d, ~e.rep => ~Replies(d)
    PROVE  /\ Served(k, L2Handles(k, e), a, o, l2[k], u, d \ {e}, td, tl, tl, D, m)
           /\ e.t = "evict" => l2[k].type # "I"
<1>1. e \in DnEvents(k) /\ e \in Events(k)
  BY DEF Sets, DnEvents
<1>2. \/ ~e.rep /\ e.t = "read" /\ e.c = C(k)
      \/ ~e.rep /\ e.t = "write" /\ e.c = C(k)
      \/ e.rep /\ e.t = "m_to_m" /\ e.c = NoL1
      \/ e.rep /\ e.t = "evict" /\ e.c = C(k)
  BY <1>1 DEF DnEvents, Request
<1>3. CASE ~e.rep /\ e.t = "read" /\ e.c = C(k)
  <2>1. e = Ask(k, "read")
    BY <1>1, <1>3, EventIs
  <2>2. L2Handles(k, e) = OnRead(k, l2[k], e)
    BY <1>3 DEF L2Handles
  <2>3. Served(k, OnRead(k, l2[k], e), a, o, l2[k], u, d \ {e}, td, tl, tl, D, m)
    BY <1>3, <2>1, RequestServed
  <2> QED
    BY <1>3, <2>2, <2>3
<1>4. CASE ~e.rep /\ e.t = "write" /\ e.c = C(k)
  <2>1. e = Ask(k, "write")
    BY <1>1, <1>4, EventIs
  <2>2. L2Handles(k, e) = OnWrite(k, l2[k], e)
    BY <1>4 DEF L2Handles
  <2>3. Served(k, OnWrite(k, l2[k], e), a, o, l2[k], u, d \ {e}, td, tl, tl, D, m)
    BY <1>4, <2>1, RequestServed
  <2> QED
    BY <1>4, <2>2, <2>3
<1>5. CASE e.rep /\ e.t = "m_to_m" /\ e.c = NoL1
  <2>1. e = Order("m_to_m", k)
    BY <1>1, <1>5, EventIs
  <2>2. L2Handles(k, e) = OnMoved(k, l2[k], e)
    BY <1>5 DEF L2Handles
  <2>3. Served(k, OnMoved(k, l2[k], e), a, o, l2[k], u, d \ {e}, td, tl, tl, D, m)
    BY <2>1, MovedServed
  <2> QED
    BY <1>5, <2>2, <2>3
<1>6. CASE e.rep /\ e.t = "evict" /\ e.c = C(k)
  <2>1. e = Answer(k, "evict")
    BY <1>1, <1>6, EventIs
  <2>2. L2Handles(k, e) = OnEvict(k, l2[k], e)
    BY <1>6 DEF L2Handles
  <2>3. Served(k, OnEvict(k, l2[k], e), a, o, l2[k], u, d \ {e}, td, tl, tl, D, m) /\ l2[k].type # "I"
    BY <2>1, EvictServed
  <2> QED
    BY <1>6, <2>2, <2>3
<1> QED
  BY <1>2, <1>3, <1>4, <1>5, <1>6

\* CacheL2::process_event with an event of its L1.
LEMMA L2FromL1Keeps ==
    ASSUME Private, Inv, NEW c \in L1s, NEW i, L2FromL1(c, i)
    PROVE  Inv'
<1> DEFINE k == Parent(c)
<1>1. k \in L2s /\ c = C(k)
  BY OwnL1
<1> DEFINE e == dn[c][i]
           q == L2Handles(k, e)
<1>2. /\ i \in Servable(dn[c]) /\ dn' = [dn EXCEPT ![c] = RemoveAt(@, i)]
      /\ L2Applies(k, q, k \in Local /\ e.t = "evict" /\ l2[k].type = "I")
      /\ toL2' = toL2 /\ lost' = lost
  BY DEF L2FromL1
<1> HIDE DEF k
<1>3. /\ l2[k] \in Entries /\ FromL1(k, dn[C(k)]) /\ FromHome(k, toL2[k])
      /\ Sets(k, ToSet(dn[C(k)]), ToSet(todir[k]), ToSet(toL2[k]))
      /\ Sound(k, l1[C(k)], out[C(k)], l2[k], up[C(k)], ToSet(dn[C(k)]), ToSet(todir[k]),
               ToSet(toL2[k]), dir, mc)
      /\ dn \in [L1s -> Seq(Evts)] /\ toL2 \in [L2s -> Seq(Evts)]
  BY <1>1, L2Facts
<1>4. i \in DOMAIN dn[C(k)]
  BY <1>1, <1>2 DEF Servable
<1>5. /\ FromL1(k, RemoveAt(dn[C(k)], i)) /\ ToSet(RemoveAt(dn[C(k)], i)) = ToSet(dn[C(k)]) \ {e}
      /\ e \in ToSet(dn[C(k)])
  BY <1>1, <1>3, <1>4, FromL1Taken
<1>6. ~e.rep => ~Replies(ToSet(dn[C(k)]))
  BY <1>1, <1>2, <1>3, RequestAlone
<1> HIDE DEF e
<1>7. /\ Served(k, q, l1[C(k)], out[C(k)], l2[k], up[C(k)], ToSet(dn[C(k)]) \ {e},
                ToSet(todir[k]), ToSet(toL2[k]), ToSet(toL2[k]), dir, mc)
      /\ e.t = "evict" => l2[k].type # "I"
  BY <1>1, <1>3, <1>5, <1>6, L1EventServed
<1>8. L2Applies(k, q, FALSE)
  <2>1. (k \in Local /\ e.t = "evict" /\ l2[k].type = "I") = FALSE
    BY <1>7
  <2> QED
    BY <1>2, <2>1
<1>9. RemoveAt(dn[C(k)], i) \in Seq(Evts)
  <2>1. RemoveAt(dn[C(k)], i) \in Seq(DnEvents(k)) /\ DnEvents(k) \subseteq Evts
    BY <1>1, <1>5, AllEvents DEF FromL1
  <2> QED
    BY <2>1, Wider
<1>10. /\ dn'[C(k)] = RemoveAt(dn[C(k)], i) /\ dn' \in [L1s -> Seq(Evts)]
       /\ \A j \in L2s : j # k => dn'[C(j)] = dn[C(j)] /\ toL2'[j] = toL2[j]
  BY <1>1, <1>2, <1>3, <1>9, OwnL1
<1> HIDE DEF q
<1>11. /\ Served(k, q, l1[C(k)], out[C(k)], l2[k], up[C(k)], ToSet(dn'[C(k)]), ToSet(todir[k]),
                ToSet(toL2[k]), ToSet(toL2'[k]), dir, mc)
       /\ FromL1(k, dn'[C(k)]) /\ FromHome(k, toL2'[k]) /\ toL2' \in [L2s -> Seq(Evts)]
  BY <1>2, <1>3, <1>5, <1>7, <1>10
<1> QED
  BY <1>1, <1>2, <1>8, <1>10, <1>11, L2Keeps

\* Data passes the orders that were sent after it, so that an order is served
\* only when no data is left.
LEMMA OrderAlone ==
    ASSUME Private, NEW k, NEW q, FromHome(k, q), NEW i \in Servable(q), q[i].c = NoL1
    PROVE  \A t \in Data : ~Has(ToSet(q), t)
<1>1. i \in DOMAIN q /\ q \in Seq(L2Events(k)) /\ Distinct(q)
  BY DEF Servable, FromHome
<1>2. q[i] \in ToSet(q) /\ ToSet(q) \subseteq L2Events(k)
  BY <1>1 DEF ToSet
<1>3. ASSUME NEW x \in ToSet(q), x.t \in Data PROVE FALSE
  <2>1. Before(q, x, q[i])
    BY <1>2, <1>3 DEF FromHome
  <2>2. q[i].rep /\ ~x.rep
    BY <1>1, <2>1, Overtakes
  <2>3. q[i] \in L2Events(k) /\ x \in L2Events(k)
    BY <1>2
  <2>4. C(k) # NoL1 => k \in Local
    BY <2>2, <2>3 DEF L2Events
  <2>5. k \in Local => x.rep
    BY <1>3, <2>3 DEF L2Events, Data, Sharing, Dropping
  <2>6. C(k) # NoL1
    BY DEF C, NoL1
  <2> QED
    BY <2>2, <2>4, <2>5, <2>6
<1> QED
  BY <1>3 DEF Has

\* The event L2 k takes: an answer or an order, as a reply.
Received(e) == [e EXCEPT !.rep = TRUE]

LEMMA ReceivedIs ==
    ASSUME NEW k, NEW e \in Events(k)
    PROVE  /\ Received(e).t = e.t /\ Received(e).rep = TRUE
           /\ e.c = C(k) => Received(e) = Answer(k, e.t)
           /\ e.c = NoL1 => Received(e) = Order(e.t, k)
<1>1. e = [t |-> e.t, c |-> e.c, pf |-> e.pf, k |-> e.k, rep |-> e.rep]
  BY DEF Events
<1>3. Received(e) = As(e, e.t)
  <2>1. [e EXCEPT !.t = e.t] = e
    BY DEF Events
  <2>2. As(e, e.t) = [[e EXCEPT !.t = e.t] EXCEPT !.rep = TRUE]
    BY <1>1 DEF As
  <2> QED
    BY <2>1, <2>2, Zenon DEF Received
<1>4. /\ e.c = C(k) => Received(e) = Answer(k, e.t)
      /\ e.c = NoL1 => Received(e) = Order(e.t, k)
  <2>1. e.c = C(k) => \A t : As(e, t) = Answer(k, t)
    BY EventIs, Zenon
  <2>2. e.c = NoL1 => \A t : As(e, t) = Order(t, k)
    BY EventIs, Zenon
  <2> QED
    BY <1>3, <2>1, <2>2, Zenon
<1>5. e.c = C(k) \/ e.c = NoL1
  BY DEF Events
<1>6. Received(e).t = e.t /\ Received(e).rep = TRUE
  BY <1>4, <1>5 DEF Answer, Order, Event
<1> QED
  BY <1>4, <1>6

\* CacheL2 handles event e of the directory.
LEMMA DirEventServed ==
    ASSUME Private, NEW k \in L2s, NEW a, NEW o, NEW u \in Seq(Evts), NEW d, NEW td, NEW tl,
           NEW D, NEW m, l2[k] \in Entries, Sound(k, a, o, l2[k], u, d, td, tl, D, m), Sets(k, d, td, tl),
           Home(D, m), NEW e \in tl, e.c = NoL1 => \A t \in Data : ~Has(tl, t)
    PROVE  Served(k, L2Handles(k, Received(e)), a, o, l2[k], u, d, td, tl, tl \ {e}, D, m)
<1>1. e \in L2Events(k) /\ e \in Events(k)
  BY DEF Sets, L2Events
<1>2. \/ e.c = C(k) /\ e.t \in {"nack", "write_nd"}
      \/ e.c = C(k) /\ e.t \in Data
      \/ e.c = NoL1 /\ e.t \in Sharing \cup Dropping \cup {"dir_rd"}
  BY <1>1 DEF L2Events
<1> DEFINE r == Received(e)
<1>3. /\ r.t = e.t /\ r.rep = TRUE
      /\ e.c = C(k) => r = Answer(k, e.t)
      /\ e.c = NoL1 => r = Order(e.t, k)
  BY <1>1, ReceivedIs
<1> HIDE DEF r
<1>4. CASE e.c = C(k) /\ e.t = "nack"
  <2>1. L2Handles(k, r) = OnNack(k, l2[k], Answer(k, "nack"))
    BY <1>3, <1>4 DEF L2Handles
  <2>2. Served(k, OnNack(k, l2[k], Answer(k, "nack")), a, o, l2[k], u, d, td, tl, tl \ {e}, D, m)
    BY <1>4, NackServed
  <2> QED
    BY <2>1, <2>2 DEF r
<1>5. CASE e.c = C(k) /\ e.t = "write_nd"
  <2>1. L2Handles(k, r) = OnWriteNd(k, l2[k], Answer(k, "write_nd"))
    BY <1>3, <1>5 DEF L2Handles
  <2>2. Served(k, OnWriteNd(k, l2[k], Answer(k, "write_nd")), a, o, l2[k], u, d, td, tl, tl \ {e}, D, m)
    BY <1>5, UpgradeServed
  <2> QED
    BY <2>1, <2>2 DEF r
<1>6. CASE e.c = C(k) /\ e.t \in Data
  <2>1. L2Handles(k, r) = OnData(k, l2[k], r)
    BY <1>3, <1>6 DEF L2Handles, Data
  <2>2. Served(k, OnData(k, l2[k], Answer(k, e.t)), a, o, l2[k], u, d, td, tl, tl \ {e}, D, m)
    BY <1>6, DataServed
  <2>3. r = Answer(k, e.t)
    BY <1>3, <1>6
  <2> QED
    BY <2>1, <2>2, <2>3 DEF r
<1>7. CASE e.c = NoL1 /\ e.t \in Sharing \cup Dropping \cup {"dir_rd"}
  <2>1. Place(k, l2[k], td, tl, D, m)
    BY DEF Sound
  <2>2. Bidden(k, l2[k], td, tl, e, D)
    BY <1>7, <2>1, OrderTaken
  <2>3. r = Order(e.t, k)
    BY <1>3, <1>7
  <2>4. CASE e.t \in Sharing
    <3>1. L2Handles(k, r) = OnToShared(k, l2[k], r)
      BY <1>3, <2>4 DEF L2Handles, Sharing
    <3>2. Served(k, OnToShared(k, l2[k], Order(e.t, k)), a, o, l2[k], u, d, td, tl, tl \ {e}, D, m)
      BY <2>2, <2>4, SharingServed
    <3> QED
      BY <2>3, <3>1, <3>2 DEF r
  <2>5. CASE e.t = "dir_rd"
    <3>1. L2Handles(k, r) = OnDirRd(k, l2[k], Order("dir_rd", k))
      BY <1>3, <2>3, <2>5 DEF L2Handles
    <3>2. D.type = "m_s" /\ k \in D.sharers
      BY <2>2, <2>5 DEF Bidden
    <3>3. D.sharers = {k}
      BY <3>2 DEF Home
    <3>4. Asks(tl)
      BY <1>7 DEF Asks
    <3>5. Served(k, OnDirRd(k, l2[k], Order("dir_rd", k)), a, o, l2[k], u, d, td, tl, tl \ {e}, D, m)
      BY <2>2, <2>5, <3>3, <3>4, FetchServed
    <3> QED
      BY <3>1, <3>5 DEF r
  <2>6. CASE e.t \in Dropping
    <3>1. L2Handles(k, r) = OnInvalidate(k, l2[k], r)
      BY <1>3, <2>6 DEF L2Handles, Dropping
    <3>2. Served(k, OnInvalidate(k, l2[k], Order(e.t, k)), a, o, l2[k], u, d, td, tl, tl \ {e}, D, m)
      BY <2>2, <2>6, DropServed
    <3> QED
      BY <2>3, <3>1, <3>2 DEF r
  <2> QED
    BY <1>7, <2>4, <2>5, <2>6
<1> QED
  BY <1>2, <1>4, <1>5, <1>6, <1>7

\* CacheL2::process_event with an event of the directory.
LEMMA L2FromDirKeeps ==
    ASSUME Private, Inv, NEW k \in L2s, NEW i, L2FromDir(k, i)
    PROVE  Inv'
<1> DEFINE e == toL2[k][i]
           q == L2Handles(k, Received(e))
<1>1. /\ l2[k] \in Entries /\ up[C(k)] \in Seq(Evts) /\ FromL1(k, dn[C(k)]) /\ FromHome(k, toL2[k])
      /\ Sets(k, ToSet(dn[C(k)]), ToSet(todir[k]), ToSet(toL2[k]))
      /\ Sound(k, l1[C(k)], out[C(k)], l2[k], up[C(k)], ToSet(dn[C(k)]), ToSet(todir[k]),
               ToSet(toL2[k]), dir, mc)
      /\ pre = 0 /\ lost = 0 /\ dn \in [L1s -> Seq(Evts)] /\ toL2 \in [L2s -> Seq(Evts)]
  BY L2Facts
<1>2. /\ i \in Servable(toL2[k]) /\ toL2' = [toL2 EXCEPT ![k] = RemoveAt(@, i)] /\ dn' = dn
      /\ L2Applies(k, q, FALSE) /\ lost' = lost
  <2>1. ~(pre + lost < MaxOther)
    BY <1>1 DEF Private
  <2> QED
    BY <2>1 DEF L2FromDir, Received
<1>3. i \in DOMAIN toL2[k]
  BY <1>2 DEF Servable
<1>4. /\ FromHome(k, RemoveAt(toL2[k], i)) /\ ToSet(RemoveAt(toL2[k], i)) = ToSet(toL2[k]) \ {e}
      /\ e \in ToSet(toL2[k])
  BY <1>1, <1>3, FromHomeTaken
<1>5. e.c = NoL1 => \A t \in Data : ~Has(ToSet(toL2[k]), t)
  BY <1>1, <1>2, OrderAlone
<1>6. Home(dir, mc)
  BY DEF Inv
<1> HIDE DEF e
<1>7. Served(k, q, l1[C(k)], out[C(k)], l2[k], up[C(k)], ToSet(dn[C(k)]),
             ToSet(todir[k]), ToSet(toL2[k]), ToSet(toL2[k]) \ {e}, dir, mc)
  BY <1>1, <1>4, <1>5, <1>6, DirEventServed
<1>8. RemoveAt(toL2[k], i) \in Seq(Evts)
  <2>1. RemoveAt(toL2[k], i) \in Seq(L2Events(k)) /\ L2Events(k) \subseteq Evts
    BY <1>4, AllEvents DEF FromHome
  <2> QED
    BY <2>1, Wider
<1>9. /\ toL2'[k] = RemoveAt(toL2[k], i) /\ toL2' \in [L2s -> Seq(Evts)]
      /\ \A j \in L2s : j # k => dn'[C(j)] = dn[C(j)] /\ toL2'[j] = toL2[j]
  BY <1>1, <1>2, <1>8
<1> HIDE DEF q
<1>10. /\ Served(k, q, l1[C(k)], out[C(k)], l2[k], up[C(k)], ToSet(dn'[C(k)]), ToSet(todir[k]),
                ToSet(toL2[k]), ToSet(toL2'[k]), dir, mc)
       /\ FromL1(k, dn'[C(k)]) /\ FromHome(k, toL2'[k]) /\ dn' \in [L1s -> Seq(Evts)]
  BY <1>1, <1>2, <1>4, <1>7, <1>9
<1> QED
  BY <1>2, <1>9, <1>10, L2Keeps
-----------------------------------------------------------------------------
(* The steps keep the invariant: the L1s.                                  *)

\* L1 k sends its L2 event e: a request, or a reply when nothing is queued.
LEMMA FromL1Put ==
    ASSUME NEW k, NEW q, FromL1(k, q), NEW e \in DnEvents(k),
           \A x \in ToSet(q) : x.rep /\ ~e.rep
    PROVE  FromL1(k, Append(q, e)) /\ ToSet(Append(q, e)) = ToSet(q) \cup {e}
<1> DEFINE r == Append(q, e)
<1>1. q \in Seq(DnEvents(k)) /\ Distinct(q) /\ e \notin ToSet(q)
  BY DEF FromL1
<1>2. /\ r \in Seq(DnEvents(k)) /\ Distinct(r) /\ ToSet(r) = ToSet(q) \cup {e}
      /\ \A x, y : Before(q, x, y) => Before(r, x, y)
      /\ \A x \in ToSet(q) : Before(r, x, e)
  BY <1>1, Put
<1> HIDE DEF r
<1>3. ASSUME NEW x \in ToSet(r), NEW y \in ToSet(r), x.rep <=> y.rep PROVE x = y
  BY <1>2, <1>3 DEF FromL1
<1>4. ASSUME NEW x \in ToSet(r), NEW y \in ToSet(r), x.rep, ~y.rep PROVE Before(r, x, y)
  BY <1>2, <1>4 DEF FromL1
<1>5. FromL1(k, r)
  BY <1>2, <1>3, <1>4 DEF FromL1
<1> QED
  BY <1>2, <1>5 DEF r

\* The variables of L1 k become a, o, u and d.
L1Becomes(k, a, o, u, d) ==
    /\ l1' = [l1 EXCEPT ![C(k)] = a] /\ out' = [out EXCEPT ![C(k)] = o]
    /\ up' = [up EXCEPT ![C(k)] = u] /\ dn' = [dn EXCEPT ![C(k)] = d]
    /\ UNCHANGED <<l2, dir, todir, toL2, xbar, mc, pre, lost>> /\ ~fatal'
L1Holds(k, a, o, u, d) ==
    /\ a \in {"I", "E", "M"} /\ o \in {0, 1} /\ u \in Seq(Evts) /\ FromL1(k, d)
    /\ Sound(k, a, o, l2[k], u, ToSet(d), ToSet(todir[k]), ToSet(toL2[k]), dir, mc)

\* A step of L1 k: its part of the invariant is what changes.
LEMMA L1Keeps ==
    ASSUME Private, Inv, NEW k \in L2s, NEW a, NEW o, NEW u, NEW d,
           L1Becomes(k, a, o, u, d), L1Holds(k, a, o, u, d)
    PROVE  Inv'
<1>0. /\ a \in {"I", "E", "M"} /\ o \in {0, 1} /\ u \in Seq(Evts) /\ FromL1(k, d)
      /\ Sound(k, a, o, l2[k], u, ToSet(d), ToSet(todir[k]), ToSet(toL2[k]), dir, mc)
      /\ UNCHANGED <<l2, dir, todir, toL2, xbar, mc, pre, lost>> /\ ~fatal'
  BY DEF L1Becomes, L1Holds
<1>1. Frame /\ Home(dir, mc) /\ Orders /\ (\A j \in L2s : Node(j))
  BY DEF Inv
<1>2. C(k) \in L1s /\ \A j \in L2s : C(j) \in L1s /\ (j # k => C(j) # C(k))
  BY OwnL1
<1>3. d \in Seq(Evts)
  <2>1. d \in Seq(DnEvents(k)) /\ DnEvents(k) \subseteq Evts
    BY <1>0, AllEvents DEF FromL1
  <2> QED
    BY <2>1, Wider
<1>4. Frame'
  <2>1. /\ l1' \in [L1s -> {"I", "E", "M"}] /\ out' \in [L1s -> {0, 1}]
        /\ up' \in [L1s -> Seq(Evts)] /\ dn' \in [L1s -> Seq(Evts)]
    BY <1>0, <1>1, <1>3 DEF Frame, L1Becomes
  <2> QED
    BY <1>0, <1>1, <2>1 DEF Frame
<1>5. l1'[C(k)] = a /\ out'[C(k)] = o /\ up'[C(k)] = u /\ dn'[C(k)] = d
  BY <1>1, <1>2 DEF Frame, L1Becomes
<1>6. Node(k)'
  <2>1. ToHome(k, todir[k]) /\ FromHome(k, toL2[k])
    BY <1>1, ThreeQueues DEF Node
  <2>2. Queues(k, d, todir[k], toL2[k])
    BY <1>0, <2>1, ThreeQueues
  <2> QED
    BY <1>0, <1>5, <2>2 DEF Node, Sound
<1>7. ASSUME NEW j \in L2s, j # k PROVE Node(j)'
  <2>1. l1'[C(j)] = l1[C(j)] /\ out'[C(j)] = out[C(j)] /\ up'[C(j)] = up[C(j)] /\ dn'[C(j)] = dn[C(j)]
    BY <1>1, <1>2, <1>7 DEF Frame, L1Becomes
  <2>2. Node(j)
    BY <1>1
  <2> QED
    BY <1>0, <2>1, <2>2 DEF Node
<1>8. Orders'
  BY <1>0, <1>1 DEF Orders, InDebt
<1> QED
  BY <1>0, <1>1, <1>4, <1>6, <1>7, <1>8 DEF Inv

\* CacheL1: a core's access.
LEMMA L1RequestKeeps ==
    ASSUME Private, Inv, NEW c \in L1s, NEW t \in {"read", "write"}, L1Request(c, t)
    PROVE  Inv'
<1> DEFINE k == Parent(c)
<1>1. k \in L2s /\ c = C(k)
  BY OwnL1
<1>2. /\ out[c] < MaxOut /\ (IF t = "read" THEN l1[c] = "I" ELSE l1[c] # "M")
      /\ l1' = [l1 EXCEPT ![c] = "I"]
      /\ dn' = [dn EXCEPT ![c] = Append(dn[c], Event(t, c, FALSE, k, FALSE))]
      /\ out' = [out EXCEPT ![c] = out[c] + 1]
      /\ UNCHANGED <<l2, dir, up, todir, toL2, xbar, mc, pre, lost, fatal>>
  BY DEF L1Request
<1> HIDE DEF k
<1> DEFINE e == Ask(k, t)
           d == Append(dn[c], e)
<1>3. e = Event(t, c, FALSE, k, FALSE) /\ e.t = t /\ e.rep = FALSE /\ e.c = C(k)
  BY <1>1 DEF Ask, Event
<1>4. l1[c] # "M" /\ out[c] = 0 /\ Frame
  <2>1. out[c] \in {0, 1} /\ Frame
    BY DEF Inv, Frame
  <2> QED
    BY <1>2, <2>1 DEF Private
<1>5. /\ FromL1(k, dn[C(k)]) /\ up[C(k)] \in Seq(Evts)
      /\ Sound(k, l1[C(k)], out[C(k)], l2[k], up[C(k)], ToSet(dn[C(k)]), ToSet(todir[k]),
               ToSet(toL2[k]), dir, mc)
      /\ Sets(k, ToSet(dn[C(k)]), ToSet(todir[k]), ToSet(toL2[k]))
  BY <1>1, L2Facts
<1>6. ~Requests(ToSet(dn[C(k)]))
  <2>1. Access(k, l1[C(k)], 0, up[C(k)], ToSet(dn[C(k)]), ToSet(todir[k]), ToSet(toL2[k]), dir, mc)
    BY <1>1, <1>4, <1>5 DEF Sound
  <2> QED
    BY <2>1 DEF Access, One
<1>7. e \in DnEvents(k)
  <2>1. t \in Kinds
    BY DEF Kinds, Data
  <2>2. e \in Events(k)
    BY <2>1, EventTypes
  <2> QED
    BY <1>3, <2>2 DEF DnEvents, Request
<1> HIDE DEF e
<1>8. \A x \in ToSet(dn[C(k)]) : x.rep /\ ~e.rep
  BY <1>3, <1>6 DEF Requests
<1>9. FromL1(k, d) /\ ToSet(d) = ToSet(dn[C(k)]) \cup {e}
  BY <1>1, <1>5, <1>7, <1>8, FromL1Put
<1>10. Sound(k, "I", 1, l2[k], up[C(k)], ToSet(dn[C(k)]) \cup {e}, ToSet(todir[k]), ToSet(toL2[k]), dir, mc)
  <2>1. Sound(k, l1[C(k)], 0, l2[k], up[C(k)], ToSet(dn[C(k)]), ToSet(todir[k]), ToSet(toL2[k]), dir, mc)
    BY <1>1, <1>4, <1>5
  <2>2. l1[C(k)] # "M" /\ ~e.rep /\ e.t \in {"read", "write"}
    BY <1>1, <1>3, <1>4
  <2> QED
    BY <1>1, <2>1, <2>2, RequestSound
<1>11. L1Becomes(k, "I", 1, up[C(k)], d)
  BY <1>1, <1>2, <1>3, <1>4 DEF Frame, L1Becomes
<1> HIDE DEF d
<1>12. Sound(k, "I", 1, l2[k], up[C(k)], ToSet(d), ToSet(todir[k]), ToSet(toL2[k]), dir, mc)
  BY <1>9, <1>10
<1>13. L1Holds(k, "I", 1, up[C(k)], d)
  BY <1>5, <1>9, <1>12 DEF L1Holds
<1> QED
  BY <1>1, <1>11, <1>13, L1Keeps

\* CacheL1: an event of its L2.
LEMMA L1ReplyKeeps ==
    ASSUME Private, Inv, NEW c \in L1s, L1Reply(c)
    PROVE  Inv'
<1> DEFINE k == Parent(c)
           x == Head(up[c])
           sent == L1Sends(c, l1[c], x)
           a == L1Next(l1[c], x)
           o == IF x.t \in {"nack", "rd_bypass", "read", "write"} THEN out[c] - 1 ELSE out[c]
           u == Tail(up[c])
           d == dn[c] \o sent
<1>1. k \in L2s /\ c = C(k) /\ c \in L1s
  BY OwnL1
<1>2. /\ up[c] # <<>> /\ up' = [up EXCEPT ![c] = u] /\ l1' = [l1 EXCEPT ![c] = a] /\ dn' = [dn EXCEPT ![c] = d]
      /\ fatal' = (x.t = "dir_rd" /\ l1[c] \in {"S", "E"})
      /\ out' = IF x.t \in {"nack", "rd_bypass", "read", "write"} THEN [out EXCEPT ![c] = out[c] - 1] ELSE out
      /\ UNCHANGED <<l2, dir, todir, toL2, xbar, mc, pre, lost>>
  BY DEF L1Reply
<1> HIDE DEF k
<1>3. /\ FromL1(k, dn[C(k)]) /\ up[C(k)] \in Seq(Evts)
      /\ Sound(k, l1[C(k)], out[C(k)], l2[k], up[C(k)], ToSet(dn[C(k)]), ToSet(todir[k]),
               ToSet(toL2[k]), dir, mc)
      /\ Place(k, l2[k], ToSet(todir[k]), ToSet(toL2[k]), dir, mc)
  BY <1>1, L2Facts
<1>4. Replied(k, l1[C(k)], out[C(k)], l2[k], up[C(k)], ToSet(dn[C(k)]), ToSet(todir[k]),
              ToSet(toL2[k]), dir, mc)
  BY <1>1, <1>2, <1>3, ReplySound
<1>5. /\ ~(x.t = "dir_rd" /\ l1[c] \in {"S", "E"}) /\ a \in {"I", "E", "M"}
      /\ Access(k, a, o, u, ToSet(dn[c]) \cup ToSet(sent), ToSet(todir[k]), ToSet(toL2[k]), dir, mc)
      /\ Line(k, a, l2[k], u, ToSet(dn[c]) \cup ToSet(sent))
      /\ \/ sent = <<>>
         \/ ToSet(dn[c]) = {} /\ sent \in {<<Order("m_to_m", k)>>, <<Answer(k, "evict")>>}
  BY <1>1, <1>4 DEF Replied
<1>6. o \in {0, 1} /\ out' = [out EXCEPT ![c] = o]
  <2>1. out \in [L1s -> {0, 1}]
    BY DEF Inv, Frame
  <2>2. out' = [out EXCEPT ![c] = o]
    BY <1>2, <2>1
  <2> QED
    BY <1>5, <2>2 DEF Access
<1>7. u \in Seq(Evts)
  BY <1>1, <1>2, <1>3
<1> HIDE DEF sent, a, o, u
<1>8. FromL1(k, d) /\ ToSet(d) = ToSet(dn[c]) \cup ToSet(sent)
  <2>1. dn[c] \in Seq(DnEvents(k))
    BY <1>1, <1>3 DEF FromL1
  <2>2. CASE sent = <<>>
    <3>1. d = dn[c]
      BY <2>1, <2>2
    <3>2. ToSet(<<>>) = {}
      BY Elements, Zenon
    <3> QED
      BY <1>1, <1>3, <2>2, <3>1, <3>2
  <2>3. CASE ToSet(dn[c]) = {} /\ sent \in {<<Order("m_to_m", k)>>, <<Answer(k, "evict")>>}
    <3>1. PICK e \in {Order("m_to_m", k), Answer(k, "evict")} : sent = <<e>>
      BY <2>3
    <3>2. e \in DnEvents(k)
      <4>1. "m_to_m" \in Kinds /\ "evict" \in Kinds
        BY DEF Kinds
      <4>2. e \in Events(k)
        BY <4>1, EventTypes
      <4>3. \/ e.rep /\ e.t = "m_to_m" /\ e.c = NoL1
            \/ e.rep /\ e.t = "evict" /\ e.c = C(k)
        BY DEF Order, Answer, Event
      <4> QED
        BY <4>2, <4>3 DEF DnEvents
    <3>3. \A q \in Seq(DnEvents(k)) : q \o <<e>> = Append(q, e)
      BY <3>2
    <3>4. d = Append(dn[c], e)
      BY <2>1, <3>1, <3>3
    <3>5. FromL1(k, dn[c]) /\ \A y \in ToSet(dn[c]) : y.rep /\ ~e.rep
      BY <1>1, <1>3, <2>3
    <3>6. FromL1(k, Append(dn[c], e)) /\ ToSet(Append(dn[c], e)) = ToSet(dn[c]) \cup {e}
      BY <3>2, <3>5, FromL1Put
    <3>7. ToSet(<<e>>) = {e}
      BY Elements, Zenon
    <3> QED
      BY <3>1, <3>4, <3>6, <3>7
  <2> QED
    BY <1>5, <2>2, <2>3
<1> HIDE DEF d
<1>9. Sound(k, a, o, l2[k], u, ToSet(d), ToSet(todir[k]), ToSet(toL2[k]), dir, mc)
  BY <1>3, <1>5, <1>8 DEF Sound
<1>10. ~fatal'
  BY <1>2, <1>5
<1>11. L1Becomes(k, a, o, u, d)
  BY <1>1, <1>2, <1>6, <1>10 DEF L1Becomes
<1>12. L1Holds(k, a, o, u, d)
  BY <1>5, <1>6, <1>7, <1>8, <1>9 DEF L1Holds
<1> QED
  BY <1>1, <1>11, <1>12, L1Keeps
-----------------------------------------------------------------------------
(* The invariant.                                                          *)

LEMMA NoneQueued ==
    ASSUME NEW S
    PROVE  S = {} => /\ ~Answers(S) /\ ~Asks(S) /\ ~Replies(S) /\ ~Requests(S) /\ \A t : ~Has(S, t)
  BY DEF Answers, Asks, Replies, Requests, Has

LEMMA InitInv ==
    ASSUME Private, Init
    PROVE  Inv
<1>1. Frame
  <2>1. NoEntry \in Entries
    BY DEF Entries, NoEntry, Entry, L2Types
  <2>2. <<>> \in Seq(Evts)
    OBVIOUS
  <2> QED
    BY <2>1, <2>2 DEF Init, Frame, Entries
<1>2. Home(dir, mc)
  <2>1. dir = NoDir /\ mc = <<>>
    BY DEF Init
  <2>2. NoDir.type = "none" /\ NoDir.sharers = {} /\ NoDir.pend = NoEvent /\ NoDir.gotcl = FALSE
    BY DEF NoDir
  <2>3. NoDir \in DirEntries
    <3>1. NoEvent \in DirPends /\ "none" \in DirTypes
      BY DEF DirPends, DirTypes
    <3> QED
      BY <3>1 DEF DirEntries, NoDir
  <2> QED
    BY <2>1, <2>2, <2>3 DEF Home, Reading, Waits
<1>3. Orders
  BY DEF Init, Orders, NoDir
<1>4. ASSUME NEW k \in L2s PROVE Node(k)
  <2>1. C(k) \in L1s /\ k # 0
    BY OwnL1
  <2>2. /\ dn[C(k)] = <<>> /\ up[C(k)] = <<>> /\ todir[k] = <<>> /\ toL2[k] = <<>> /\ mc = <<>>
        /\ l1[C(k)] = "I" /\ out[C(k)] = 0 /\ l2[k] = NoEntry /\ dir = NoDir
    BY <2>1 DEF Init
  <2>3. ToSet(<<>>) = {}
    BY Elements, Zenon
  <2>4. Queues(k, <<>>, <<>>, <<>>)
    BY <2>3 DEF Queues, Distinct
  <2>5. dir.pend.k # k /\ dir.type = "none" /\ dir.sharers = {} /\ dir.pend = NoEvent
    BY <2>1, <2>2 DEF NoDir, NoEvent, Event
  <2>6. Access(k, "I", 0, <<>>, {}, {}, {}, dir, mc)
    BY <2>2, <2>3, <2>5, NoneQueued DEF Access, One, Reads
  <2>7. /\ NoEntry.type = "I" /\ NoEntry.l1l2 = "I" /\ NoEntry.sharers = {} /\ NoEntry.pend = NoEvent
    BY DEF NoEntry, Entry
  <2>8. Line(k, "I", NoEntry, <<>>, {})
    BY <2>7, NoneQueued DEF Line, Absent
  <2>9. Place(k, NoEntry, {}, {}, dir, mc)
    BY <2>5, <2>7, NoneQueued DEF Place, Holds, Gets, Wishes, Obeys, Owes
  <2> QED
    BY <2>2, <2>3, <2>4, <2>6, <2>8, <2>9 DEF Node
<1> QED
  BY <1>1, <1>2, <1>3, <1>4 DEF Inv

LEMMA Stutters ==
    ASSUME Inv, UNCHANGED vars
    PROVE  Inv'
<1>1. UNCHANGED <<l1, l2, dir, up, dn, todir, toL2, xbar, mc, out, pre, lost, fatal>>
  BY DEF vars
<1>2. Frame' /\ Home(dir, mc)' /\ Orders'
  BY <1>1 DEF Inv, Frame, Orders, InDebt
<1>3. \A k \in L2s : Node(k)'
  BY <1>1 DEF Inv, Node
<1> QED
  BY <1>2, <1>3 DEF Inv

LEMMA NextInv ==
    ASSUME Private, Inv, [Next]_vars
    PROVE  Inv'
<1>1. pre + lost = 0 /\ ~(pre + lost < MaxOther) /\ \A k \in L2s : xbar[k] = <<>>
  BY DEF Inv, Frame, Private
<1>2. CASE \E c \in L1s : L1Acts(c)
  <2>1. PICK c \in L1s : L1Acts(c)
    BY <1>2
  <2>2. CASE L1Request(c, "read") \/ L1Request(c, "write")
    BY <2>2, L1RequestKeeps
  <2>3. CASE L1Reply(c)
    BY <2>3, L1ReplyKeeps
  <2>4. ~L1Prefetch(c) /\ ~L1Victim(c)
    BY <1>1 DEF L1Prefetch, L1Victim
  <2> QED
    BY <2>1, <2>2, <2>3, <2>4 DEF L1Acts
<1>3. CASE \E k \in L2s : L2Acts(k)
  <2>1. PICK k \in L2s : L2Acts(k)
    BY <1>3
  <2>2. ~L2Victim(k)
    BY <1>1 DEF L2Victim
  <2>3. CASE \E i \in DOMAIN toL2[k] : L2FromDir(k, i)
    BY <2>3, L2FromDirKeeps
  <2>4. CASE \E c \in L1s : Parent(c) = k /\ \E i \in DOMAIN dn[c] : L2FromL1(c, i)
    BY <2>4, L2FromL1Keeps
  <2> QED
    BY <2>1, <2>2, <2>3, <2>4 DEF L2Acts
<1>4. CASE DirActs
  <2>1. \A k \in L2s : ~DirFromXbar(k)
    BY <1>1 DEF DirFromXbar
  <2>2. CASE \E k \in L2s : \E i \in DOMAIN todir[k] : DirFromL2(k, i)
    BY <2>2, DirFromL2Keeps
  <2>3. CASE \E i \in DOMAIN mc : DirFromMC(i)
    BY <2>3, DirFromMCKeeps
  <2> QED
    BY <1>4, <2>1, <2>2, <2>3 DEF DirActs
<1>5. CASE UNCHANGED vars
  BY <1>5, Stutters
<1> QED
  BY <1>2, <1>3, <1>4, <1>5 DEF Next

LEMMA Invariant == Private => (Spec => []Inv)
<1> SUFFICES ASSUME Private PROVE Spec => []Inv
  OBVIOUS
<1>1. Init => Inv
  BY InitInv
<1>2. Inv /\ [Next]_vars => Inv'
  BY NextInv
<1> QED
  BY <1>1, <1>2, PTL DEF Spec
-----------------------------------------------------------------------------
(* What the invariant implies.                                             *)

\* The states of an L2 entry, and the L1 that goes with them.
LEMMA L2States ==
    ASSUME NEW k \in L2s, Node(k)
    PROVE  /\ l2[k].type \in {"I", "E", "S", "M", "tr_s", "tr_m", "tr_i"}
           /\ l2[k].sharers \in {{}, {C(k)}}
           /\ l2[k].pend # NoEvent <=> l2[k].type \in {"tr_s", "tr_i"}
           /\ l2[k].l1l2 \in {"I", "E", "M"} \/ l2[k].type = "tr_i"
           /\ l1[C(k)] = "M" => l2[k].type \in {"M", "tr_s", "tr_i"}
           /\ l1[C(k)] # "I" /\ up[C(k)] = <<>> /\ dn[C(k)] = <<>> => C(k) \in l2[k].sharers
           /\ l2[k].type \in {"tr_s", "tr_i"} => up[C(k)] # <<>> \/ dn[C(k)] # <<>>
<1> DEFINE a == l1[C(k)]
           s == l2[k]
           u == up[C(k)]
           d == ToSet(dn[C(k)])
<1>1. Line(k, a, s, u, d)
  BY DEF Node
<1>2. ToSet(<<>>) = {}
  BY Elements, Zenon
<1>3. dn[C(k)] = <<>> => d = {}
  BY <1>2
<1>4. /\ \A t \in Shared \cup Fetched \cup Dropping \cup {"e_to_m"} : Order(t, k) # NoEvent
      /\ "dir_rd" \in Fetched /\ Dropping \subseteq Shared \cup Fetched \cup Dropping \cup {"e_to_m"}
  BY OrderTypes DEF Fetched
<1> HIDE DEF a, s, u, d
<1>5. /\ s.type \in {"I", "E", "S", "M", "tr_s", "tr_m", "tr_i"}
      /\ s.sharers \in {{}, {C(k)}}
      /\ s.pend # NoEvent <=> s.type \in {"tr_s", "tr_i"}
      /\ s.l1l2 \in {"I", "E", "M"} \/ s.type = "tr_i"
      /\ a = "M" => s.type \in {"M", "tr_s", "tr_i"}
      /\ a # "I" /\ u = <<>> /\ d = {} => C(k) \in s.sharers
      /\ s.type \in {"tr_s", "tr_i"} => u # <<>> \/ d # {}
  <2>1. CASE Absent(k, a, s, u, d)
    <3>1. <<Drop(k)>> # <<>>
      BY Short
    <3> QED
      BY <2>1, <3>1 DEF Absent
  <2>2. CASE Clean(k, a, s, u, d)
    BY <2>2 DEF Clean
  <2>3. CASE Modified(k, a, s, u, d)
    BY <2>3 DEF Modified
  <2>4. ASSUME NEW t, Wanted(k, a, u, t) PROVE u # <<>>
    BY <2>4, Short DEF Wanted
  <2>5. \A t : Has(d, t) => d # {}
    BY DEF Has
  <2>6. CASE Leaving(k, a, s, u, d)
    <3>1. s.pend # NoEvent
      BY <1>4, <2>6 DEF Leaving
    <3>2. u # <<>> \/ d # {}
      BY <2>4, <2>5, <2>6 DEF Leaving
    <3> QED
      BY <2>6, <3>1, <3>2 DEF Leaving
  <2>7. CASE Fetching(k, a, s, u, d)
    <3>1. s.pend # NoEvent
      BY <1>4, <2>7 DEF Fetching
    <3>2. u # <<>> \/ d # {}
      BY <2>4, <2>5, <2>7 DEF Fetching
    <3> QED
      BY <2>7, <3>1, <3>2 DEF Fetching
  <2> QED
    BY <1>1, <2>1, <2>2, <2>3, <2>6, <2>7 DEF Line
<1> QED
  BY <1>3, <1>5 DEF a, s, u, d

\* The directory lists every L2 that has the line, and nobody else when it is
\* modified there.
LEMMA Listed ==
    ASSUME NEW k \in L2s, Node(k), l2[k].type # "I"
    PROVE  /\ k \in dir.sharers
           /\ l2[k].type \in {"M", "tr_s", "tr_i"} => dir.sharers = {k}
<1>1. Holds(k, l2[k], ToSet(todir[k]), ToSet(toL2[k]), dir, mc)
  BY DEF Node, Place
<1>2. l2[k].type \in {"E", "S", "M", "tr_s", "tr_m", "tr_i"}
  BY L2States
<1> QED
  BY <1>1, <1>2 DEF Holds, Exclusive, Sharer, Writer, Upgrading

LEMMA InvTypes ==
    ASSUME Private, Inv
    PROVE  TypeOK
<1>1. Frame /\ Home(dir, mc) /\ \A k \in L2s : Node(k)
  BY DEF Inv
<1>2. l1 \in [L1s -> {"I"} \cup Stable] /\ out \in [L1s -> 0 .. MaxOut] /\ pre + lost <= MaxOther
  BY <1>1 DEF Frame, Stable, Private
<1>3. ASSUME NEW k \in L2s
      PROVE  /\ l2[k].type \in L2Types /\ l2[k].l1l2 \in L2Types
             /\ l2[k].sharers \subseteq {c \in L1s : Parent(c) = k}
             /\ l2[k].pend # NoEvent => l2[k].type \in {"M", "tr_s", "tr_i"}
  <2>1. l2[k].type \in L2Types /\ l2[k].l1l2 \in L2Types
    BY <1>1 DEF Frame
  <2>2. C(k) \in L1s /\ Parent(C(k)) = k
    BY OwnL1
  <2>3. l2[k].sharers \in {{}, {C(k)}} /\ (l2[k].pend # NoEvent => l2[k].type \in {"tr_s", "tr_i"})
    BY <1>1, L2States
  <2> QED
    BY <2>1, <2>2, <2>3
<1>4. /\ dir.type \in {"none", "tr_e", "tr_m", "tr_s", "m_s"} \cup Stable
      /\ dir.sharers \subseteq L2s
      /\ dir.pend # NoEvent => dir.type \in {"tr_m", "tr_s", "m_s"}
  BY <1>1 DEF Home, DirEntries, DirTypes, Waits
<1> QED
  BY <1>2, <1>3, <1>4 DEF TypeOK

LEMMA InvOneWriter ==
    ASSUME Private, Inv
    PROVE  OneWriter
<1>1. \A k \in L2s : Node(k)
  BY DEF Inv
<1>2. \A k \in L2s : l2[k].type \in {"M", "tr_s", "tr_i"} => dir.sharers = {k}
  BY <1>1, Listed
<1>3. ASSUME NEW c \in L1s, NEW d \in L1s, l1[c] = "M", l1[d] = "M" PROVE c = d
  <2>1. c = C(Parent(c)) /\ d = C(Parent(d)) /\ Parent(c) \in L2s /\ Parent(d) \in L2s
    BY OwnL1
  <2>2. \A k \in L2s : l1[C(k)] = "M" => l2[k].type \in {"M", "tr_s", "tr_i"}
    BY <1>1, L2States
  <2>3. dir.sharers = {Parent(c)} /\ dir.sharers = {Parent(d)}
    BY <1>2, <1>3, <2>1, <2>2
  <2>4. Parent(c) = Parent(d)
    BY <2>3
  <2> QED
    BY <2>1, <2>4
<1>4. \A k, j \in L2s : l2[k].type = "M" /\ l2[j].type = "M" => k = j
  BY <1>2
<1> QED
  BY <1>3, <1>4 DEF OneWriter

-----------------------------------------------------------------------------
(* An access is in one place.                                              *)

\* The events of a queue that belong to an access of L1 c, and places in it.
OfL1(c, e)     == e.c = c /\ ~e.pf /\ e.t \notin {"evict", "evict_nd"}
In(c, q)       == {i \in DOMAIN q : OfL1(c, q[i])}
At(x, name, I) == {<<x, name, i>> : i \in I}
\* Set S has an element if b holds, and no second one.
Single(S, b)   == (b => \E x : S = {x}) /\ (~b => S = {})

LEMMA AtSingle ==
    ASSUME NEW x, NEW name, NEW I, NEW b, Single(I, b)
    PROVE  Single(At(x, name, I), b)
<1>1. I = {} => At(x, name, I) = {}
  BY DEF At
<1>2. ASSUME NEW i, I = {i} PROVE At(x, name, I) = {<<x, name, i>>}
  BY <1>2 DEF At
<1> QED
  BY <1>1, <1>2 DEF Single

\* A queue without two events of the access of L1 c.
LEMMA InQueue ==
    ASSUME NEW c, NEW q, Distinct(q), NEW b,
           \A x \in ToSet(q), y \in ToSet(q) : OfL1(c, x) /\ OfL1(c, y) => x = y,
           b <=> \E x \in ToSet(q) : OfL1(c, x)
    PROVE  Single(In(c, q), b)
<1>1. \A i \in DOMAIN q : q[i] \in ToSet(q)
  BY DEF ToSet
<1>2. \A x \in ToSet(q) : \E i \in DOMAIN q : q[i] = x
  BY DEF ToSet
<1>3. \A i, j \in In(c, q) : i = j
  BY <1>1 DEF In, Distinct
<1>4. b <=> In(c, q) # {}
  BY <1>1, <1>2 DEF In
<1> QED
  BY <1>3, <1>4 DEF Single

\* What is queued for L1 k: at most one answer.
LEMMA UpShapes ==
    ASSUME NEW k, NEW a, NEW s, NEW u, NEW d, Line(k, a, s, u, d)
    PROVE  \/ u = <<>>
           \/ \E t : u = <<Order(t, k)>>
           \/ \E t \in {"nack", "read", "write"} : \E v, w :
                 u \in {<<Answer(k, t)>>, <<Order(v, k), Answer(k, t)>>, <<Answer(k, t), Order(w, k)>>,
                        <<Order(v, k), Answer(k, t), Order(w, k)>>}
<1>1. CASE Absent(k, a, s, u, d)
  BY <1>1 DEF Absent, Drop
<1>2. CASE Clean(k, a, s, u, d)
  BY <1>2 DEF Clean, Drop
<1>3. CASE Modified(k, a, s, u, d)
  BY <1>3 DEF Modified, Drop
<1>4. CASE Leaving(k, a, s, u, d)
  BY <1>4 DEF Leaving, Wanted, Drop
<1>5. CASE Fetching(k, a, s, u, d)
  BY <1>5 DEF Fetching, Wanted, Drop
<1> QED
  BY <1>1, <1>2, <1>3, <1>4, <1>5 DEF Line

LEMMA Short3 ==
    ASSUME NEW x, NEW y, NEW z
    PROVE  /\ DOMAIN <<>> = {} /\ DOMAIN <<x>> = {1} /\ DOMAIN <<x, y>> = {1, 2} /\ DOMAIN <<x, y, z>> = {1, 2, 3}
           /\ <<x>>[1] = x /\ <<x, y>>[1] = x /\ <<x, y>>[2] = y
           /\ <<x, y, z>>[1] = x /\ <<x, y, z>>[2] = y /\ <<x, y, z>>[3] = z
  OBVIOUS

LEMMA InUp ==
    ASSUME Private, NEW k \in L2s, NEW a, NEW s, NEW u, NEW d, Line(k, a, s, u, d)
    PROVE  Single(In(C(k), u), Answers(ToSet(u)))
<1>1. C(k) # NoL1
  BY OwnL1
<1>2. \A t : ~OfL1(C(k), Order(t, k))
  BY <1>1 DEF OfL1, Order, Event
<1>3. \A t \in {"nack", "read", "write"} : OfL1(C(k), Answer(k, t))
  BY DEF OfL1, Answer, Event
<1>4. CASE u = <<>>
  <2>1. In(C(k), u) = {}
    BY <1>4 DEF In
  <2>2. ~Answers(ToSet(u))
    BY <1>4, Returning, Zenon
  <2> QED
    BY <2>1, <2>2 DEF Single
<1>5. CASE \E t : u = <<Order(t, k)>>
  <2>1. PICK t : u = <<Order(t, k)>>
    BY <1>5
  <2>2. DOMAIN u = {1} /\ u[1] = Order(t, k)
    BY <2>1
  <2>3. In(C(k), u) = {}
    BY <1>2, <2>2 DEF In
  <2>4. ~Answers(ToSet(u))
    BY <2>1, Returning, Zenon
  <2> QED
    BY <2>3, <2>4 DEF Single
<1>6. ASSUME NEW t \in {"nack", "read", "write"}, NEW v, NEW w,
             u \in {<<Answer(k, t)>>, <<Order(v, k), Answer(k, t)>>, <<Answer(k, t), Order(w, k)>>,
                    <<Order(v, k), Answer(k, t), Order(w, k)>>}
      PROVE  Single(In(C(k), u), Answers(ToSet(u)))
  <2>1. Answers(ToSet(u))
    BY <1>6, Returning
  <2>2. ~OfL1(C(k), Order(v, k)) /\ ~OfL1(C(k), Order(w, k)) /\ OfL1(C(k), Answer(k, t))
    BY <1>2, <1>3
  <2>3. CASE u \in {<<Answer(k, t)>>, <<Answer(k, t), Order(w, k)>>}
    <3>1. 1 \in DOMAIN u /\ u[1] = Answer(k, t) /\ \A i \in DOMAIN u : i = 1 \/ u[i] = Order(w, k)
      BY <2>3, Short3
    <3>2. In(C(k), u) = {1}
      BY <2>2, <3>1 DEF In
    <3> QED
      BY <2>1, <3>2 DEF Single
  <2>4. CASE u \in {<<Order(v, k), Answer(k, t)>>, <<Order(v, k), Answer(k, t), Order(w, k)>>}
    <3>1. /\ 2 \in DOMAIN u /\ u[2] = Answer(k, t)
          /\ \A i \in DOMAIN u : i = 2 \/ u[i] = Order(w, k) \/ u[i] = Order(v, k)
      BY <2>4, Short3
    <3>2. In(C(k), u) = {2}
      BY <2>2, <3>1 DEF In
    <3> QED
      BY <2>1, <3>2 DEF Single
  <2> QED
    BY <1>6, <2>3, <2>4
<1> QED
  BY <1>4, <1>5, <1>6, UpShapes

\* The other queues of L2 k, by what their events are.
LEMMA OfWhom ==
    ASSUME Private, NEW k \in L2s
    PROVE  /\ \A e \in DnEvents(k) : OfL1(C(k), e) <=> ~e.rep
           /\ \A e \in DirEvents(k) : OfL1(C(k), e) <=> ~e.rep
           /\ \A e \in L2Events(k) : OfL1(C(k), e) <=> e.c # NoL1
           /\ \A e \in L2Events(k) : e.c # NoL1 => e.c = C(k)
<1>1. C(k) # NoL1
  BY OwnL1
<1>2. \A e \in DnEvents(k) : OfL1(C(k), e) <=> ~e.rep
  BY <1>1 DEF OfL1, DnEvents, Events, Request
<1>3. \A e \in DirEvents(k) : OfL1(C(k), e) <=> ~e.rep
  BY <1>1 DEF OfL1, DirEvents, Events, Request
<1>4. \A e \in L2Events(k) : e.c # NoL1 => e.c = C(k)
  BY DEF L2Events, Events
<1>5. \A e \in L2Events(k) : OfL1(C(k), e) <=> e.c # NoL1
  BY <1>1, <1>4 DEF OfL1, L2Events, Events, Data
<1> QED
  BY <1>2, <1>3, <1>4, <1>5

LEMMA InQueues ==
    ASSUME Private, NEW k \in L2s, NEW d, NEW td, NEW tl, Queues(k, d, td, tl)
    PROVE  /\ Single(In(C(k), d), Requests(ToSet(d))) /\ Single(In(C(k), td), Requests(ToSet(td)))
           /\ Single(In(C(k), tl), Answers(ToSet(tl)))
<1>1. FromL1(k, d) /\ ToHome(k, td) /\ FromHome(k, tl)
  BY ThreeQueues
<1>2. \A S : \A q \in Seq(S) : ToSet(q) \subseteq S
  BY DEF ToSet
<1>3. Single(In(C(k), d), Requests(ToSet(d)))
  <2>1. ToSet(d) \subseteq DnEvents(k) /\ Distinct(d)
    BY <1>1, <1>2 DEF FromL1
  <2>2. \A e \in ToSet(d) : OfL1(C(k), e) <=> ~e.rep
    BY <2>1, OfWhom
  <2>3. \A x \in ToSet(d), y \in ToSet(d) : OfL1(C(k), x) /\ OfL1(C(k), y) => x = y
    BY <1>1, <2>2 DEF FromL1
  <2>4. Requests(ToSet(d)) <=> \E x \in ToSet(d) : OfL1(C(k), x)
    BY <2>2 DEF Requests
  <2> QED
    BY <2>1, <2>3, <2>4, InQueue
<1>4. Single(In(C(k), td), Requests(ToSet(td)))
  <2>1. ToSet(td) \subseteq DirEvents(k) /\ Distinct(td)
    BY <1>1, <1>2 DEF ToHome
  <2>2. \A e \in ToSet(td) : OfL1(C(k), e) <=> ~e.rep
    BY <2>1, OfWhom
  <2>3. \A x \in ToSet(td), y \in ToSet(td) : OfL1(C(k), x) /\ OfL1(C(k), y) => x = y
    BY <1>1, <2>2 DEF ToHome
  <2>4. Requests(ToSet(td)) <=> \E x \in ToSet(td) : OfL1(C(k), x)
    BY <2>2 DEF Requests
  <2> QED
    BY <2>1, <2>3, <2>4, InQueue
<1>5. Single(In(C(k), tl), Answers(ToSet(tl)))
  <2>1. ToSet(tl) \subseteq L2Events(k) /\ Distinct(tl)
    BY <1>1, <1>2 DEF FromHome
  <2>2. \A e \in ToSet(tl) : (OfL1(C(k), e) <=> e.c # NoL1) /\ (e.c # NoL1 => e.c = C(k))
    BY <2>1, OfWhom
  <2>3. \A x \in ToSet(tl), y \in ToSet(tl) : OfL1(C(k), x) /\ OfL1(C(k), y) => x = y
    BY <1>1, <2>2 DEF FromHome
  <2>4. Answers(ToSet(tl)) <=> \E x \in ToSet(tl) : OfL1(C(k), x)
    BY <2>2 DEF Answers
  <2> QED
    BY <2>1, <2>3, <2>4, InQueue
<1> QED
  BY <1>3, <1>4, <1>5

\* The directory's pending slot and the memory controller.
LEMMA InHome ==
    ASSUME Private, NEW k \in L2s, NEW D, NEW m, Home(D, m)
    PROVE  /\ Single(In(C(k), m), Reads(k, m))
           /\ OfL1(C(k), D.pend) <=> D.pend.k = k
<1>1. C(k) # NoL1 /\ k # 0
  BY OwnL1
<1>2. \A j : C(j) = C(k) <=> j = k
  BY DEF C
<1>3. ASSUME NEW j, NEW t \in {"read", "write"}
      PROVE  (OfL1(C(k), Ask(j, t)) <=> j = k) /\ Ask(j, t).k = j
  BY <1>2 DEF OfL1, Ask, Event
<1>4. Single(In(C(k), m), Reads(k, m))
  <2>1. CASE m = <<>>
    <3>1. In(C(k), m) = {} /\ ~Reads(k, m)
      BY <2>1 DEF In, Reads
    <3> QED
      BY <3>1 DEF Single
  <2>2. CASE \E j \in L2s, t \in {"read", "write"} : m = <<Ask(j, t)>>
    <3>1. PICK j \in L2s, t \in {"read", "write"} : m = <<Ask(j, t)>>
      BY <2>2
    <3>2. DOMAIN m = {1} /\ m[1] = Ask(j, t) /\ m # <<>>
      BY <3>1
    <3>3. Reads(k, m) <=> j = k
      BY <1>3, <3>2 DEF Reads
    <3>4. In(C(k), m) = IF j = k THEN {1} ELSE {}
      BY <1>3, <3>2 DEF In
    <3> QED
      BY <3>3, <3>4 DEF Single
  <2> QED
    BY <2>1, <2>2 DEF Home, Reading
<1>5. OfL1(C(k), D.pend) <=> D.pend.k = k
  <2>1. D.pend = NoEvent \/ \E j \in L2s, t \in {"read", "write"} : D.pend = Ask(j, t)
    BY DEF Home, DirEntries, DirPends
  <2>2. ~OfL1(C(k), NoEvent) /\ NoEvent.k # k
    BY <1>1 DEF OfL1, NoEvent, Event
  <2> QED
    BY <1>3, <2>1, <2>2
<1> QED
  BY <1>4, <1>5

\* An event of another L2 is not of L1 C(k).
LEMMA OfOthers ==
    ASSUME Private, NEW k \in L2s, NEW j \in L2s, j # k
    PROVE  /\ \A e \in Events(j) : ~OfL1(C(k), e)
           /\ \A S : S \subseteq Events(j) => \A q \in Seq(S) : In(C(k), q) = {}
<1>1. C(k) # NoL1 /\ C(k) # C(j)
  BY OwnL1
<1>2. \A e \in Events(j) : ~OfL1(C(k), e)
  BY <1>1 DEF Events, OfL1
<1>3. ASSUME NEW S, S \subseteq Events(j), NEW q \in Seq(S) PROVE In(C(k), q) = {}
  <2>1. \A i \in DOMAIN q : q[i] \in Events(j)
    BY <1>3
  <2> QED
    BY <1>2, <2>1 DEF In
<1> QED
  BY <1>2, <1>3

\* What is queued for another L1 is not of L1 C(k).
LEMMA UpOthers ==
    ASSUME Private, NEW k \in L2s, NEW j \in L2s, j # k,
           NEW a, NEW s, NEW u, NEW d, Line(j, a, s, u, d)
    PROVE  In(C(k), u) = {}
<1>1. C(k) # NoL1 /\ C(k) # C(j)
  BY OwnL1
<1>2. \A t : ~OfL1(C(k), Order(t, j)) /\ ~OfL1(C(k), Answer(j, t))
  BY <1>1 DEF OfL1, Order, Answer, Event
<1>3. \A i \in DOMAIN u : \E t : u[i] = Order(t, j) \/ u[i] = Answer(j, t)
  <2>1. CASE u = <<>>
    BY <2>1
  <2>2. CASE \E t : u = <<Order(t, j)>>
    BY <2>2, Short3
  <2>3. CASE \E t \in {"nack", "read", "write"} : \E v, w :
                u \in {<<Answer(j, t)>>, <<Order(v, j), Answer(j, t)>>, <<Answer(j, t), Order(w, j)>>,
                       <<Order(v, j), Answer(j, t), Order(w, j)>>}
    <3>1. PICK t, v, w :
                u \in {<<Answer(j, t)>>, <<Order(v, j), Answer(j, t)>>, <<Answer(j, t), Order(w, j)>>,
                       <<Order(v, j), Answer(j, t), Order(w, j)>>}
      BY <2>3
    <3>2. \A i \in DOMAIN u : u[i] \in {Answer(j, t), Order(v, j), Order(w, j)}
      BY <3>1, Short3
    <3> QED
      BY <3>2
  <2> QED
    BY <2>1, <2>2, <2>3, UpShapes
<1> QED
  BY <1>2, <1>3 DEF In

\* Where the access of L1 C(k) can be.
Spots(k) ==
    At(C(k), "up", In(C(k), up[C(k)])) \cup At(C(k), "dn", In(C(k), dn[C(k)])) \cup
    At(k, "todir", In(C(k), todir[k])) \cup At(k, "toL2", In(C(k), toL2[k])) \cup
    At(0, "mc", In(C(k), mc)) \cup {<<0, "dir", 0>> : e \in {x \in {dir.pend} : OfL1(C(k), x)}}

LEMMA UnionOne ==
    ASSUME NEW S, NEW c \in S, NEW f, \A x \in S : x # c => f[x] = {}
    PROVE  UNION {f[x] : x \in S} = f[c]
  OBVIOUS

LEMMA WhereSpots ==
    ASSUME Private, Inv, NEW k \in L2s
    PROVE  Where(C(k)) = Spots(k)
<1> DEFINE c == C(k)
           f == [x \in L1s |-> At(x, "up", In(c, up[x])) \cup At(x, "dn", In(c, dn[x]))]
           g == [j \in L2s |-> At(j, "todir", In(c, todir[j])) \cup At(j, "toL2", In(c, toL2[j]))]
           F == UNION {f[x] : x \in L1s}
           G == UNION {g[j] : j \in L2s}
           h == {<<j, "l2", 0>> : j \in {i \in L2s : OfL1(c, l2[i].pend)}}
           p == {<<0, "dir", 0>> : e \in {x \in {dir.pend} : OfL1(c, x)}}
<1>1. Where(c) = F \cup G \cup h \cup At(0, "mc", In(c, mc)) \cup p
  <2>1. {f[x] : x \in L1s} = {At(x, "up", In(c, up[x])) \cup At(x, "dn", In(c, dn[x])) : x \in L1s}
    OBVIOUS
  <2>2. {g[j] : j \in L2s} = {At(j, "todir", In(c, todir[j])) \cup At(j, "toL2", In(c, toL2[j])) : j \in L2s}
    OBVIOUS
  <2> HIDE DEF f, g
  <2> QED
    BY <2>1, <2>2, Zenon DEF Where, At, In, OfL1
<1>2. c \in L1s /\ c # NoL1 /\ \A j \in L2s : Node(j)
  BY OwnL1 DEF Inv
<1>3. \A x, name : At(x, name, {}) = {}
  BY DEF At
<1>4. ASSUME NEW j \in L2s, j # k
      PROVE  /\ In(c, up[C(j)]) = {} /\ In(c, dn[C(j)]) = {} /\ In(c, todir[j]) = {} /\ In(c, toL2[j]) = {}
  <2>1. Line(j, l1[C(j)], l2[j], up[C(j)], ToSet(dn[C(j)])) /\ Queues(j, dn[C(j)], todir[j], toL2[j])
    BY <1>2 DEF Node
  <2>2. dn[C(j)] \in Seq(DnEvents(j)) /\ todir[j] \in Seq(DirEvents(j)) /\ toL2[j] \in Seq(L2Events(j))
    BY <2>1 DEF Queues
  <2>3. DnEvents(j) \subseteq Events(j) /\ DirEvents(j) \subseteq Events(j) /\ L2Events(j) \subseteq Events(j)
    BY DEF DnEvents, DirEvents, L2Events
  <2>4. In(c, up[C(j)]) = {}
    BY <1>4, <2>1, UpOthers
  <2>5. \A S : S \subseteq Events(j) => \A q \in Seq(S) : In(c, q) = {}
    BY <1>4, OfOthers
  <2> QED
    BY <2>2, <2>3, <2>4, <2>5
<1>5. F = f[c]
  <2>1. ASSUME NEW x \in L1s, x # c PROVE f[x] = {}
    <3>1. x = C(Parent(x)) /\ Parent(x) \in L2s
      BY OwnL1
    <3>2. Parent(x) # k
      BY <2>1, <3>1
    <3>3. In(c, up[x]) = {} /\ In(c, dn[x]) = {}
      BY <1>4, <3>1, <3>2
    <3>4. f[x] = At(x, "up", In(c, up[x])) \cup At(x, "dn", In(c, dn[x]))
      OBVIOUS
    <3> QED
      BY <1>3, <3>3, <3>4
  <2> HIDE DEF f, c
  <2> QED
    BY <1>2, <2>1, UnionOne
<1>6. G = g[k]
  <2>1. ASSUME NEW j \in L2s, j # k PROVE g[j] = {}
    <3>1. g[j] = At(j, "todir", In(c, todir[j])) \cup At(j, "toL2", In(c, toL2[j]))
      OBVIOUS
    <3>2. In(c, todir[j]) = {} /\ In(c, toL2[j]) = {}
      BY <1>4, <2>1
    <3> QED
      BY <1>3, <3>1, <3>2
  <2> HIDE DEF g
  <2> QED
    BY <2>1, UnionOne
<1>7. h = {}
  <2>1. ASSUME NEW j \in L2s PROVE ~OfL1(c, l2[j].pend)
    <3>1. l2[j].pend = NoEvent \/ \E t : l2[j].pend = Order(t, j)
      <4>1. Line(j, l1[C(j)], l2[j], up[C(j)], ToSet(dn[C(j)]))
        BY <1>2 DEF Node
      <4> QED
        BY <4>1 DEF Line, Absent, Clean, Modified, Leaving, Fetching
    <3>2. ~OfL1(c, NoEvent) /\ \A t : ~OfL1(c, Order(t, j))
      BY <1>2 DEF OfL1, NoEvent, Order, Event
    <3> QED
      BY <3>1, <3>2
  <2> QED
    BY <2>1
<1>8. /\ f[c] = At(c, "up", In(c, up[c])) \cup At(c, "dn", In(c, dn[c]))
      /\ g[k] = At(k, "todir", In(c, todir[k])) \cup At(k, "toL2", In(c, toL2[k]))
  BY <1>2
<1>9. Spots(k) = f[c] \cup g[k] \cup At(0, "mc", In(c, mc)) \cup p
  <2>1. Spots(k) = At(c, "up", In(c, up[c])) \cup At(c, "dn", In(c, dn[c])) \cup
                   At(k, "todir", In(c, todir[k])) \cup At(k, "toL2", In(c, toL2[k])) \cup
                   At(0, "mc", In(c, mc)) \cup p
    BY DEF Spots
  <2> HIDE DEF f, g, p
  <2> QED
    BY <1>8, <2>1
<1> HIDE DEF f, g, h, p, F, G
<1>10. Where(c) = f[c] \cup g[k] \cup h \cup At(0, "mc", In(c, mc)) \cup p
  BY <1>1, <1>5, <1>6, Zenon
<1>11. \A A, B, D, E : A \cup B \cup {} \cup D \cup E = A \cup B \cup D \cup E
  OBVIOUS
<1>12. Where(c) = Spots(k)
  BY <1>7, <1>9, <1>10, <1>11, Zenon
<1> QED
  BY <1>12 DEF c

\* Six sets with n1 .. n6 elements, and at most one in all.
Counted(S, n) == n \in {0, 1} /\ (n = 1 => \E x : S = {x}) /\ (n = 0 => S = {})

AtMostOne(o, S1, S2, S3, S4, S5, S6, n1, n2, n3, n4, n5, n6) ==
    /\ Counted(S1, n1) /\ Counted(S2, n2) /\ Counted(S3, n3)
    /\ Counted(S4, n4) /\ Counted(S5, n5) /\ Counted(S6, n6)
    /\ o \in {0, 1} /\ o = n2 + n3 + n5 + n6 + n4 + n1

LEMMA Counts ==
    ASSUME NEW S, NEW b, Single(S, b)
    PROVE  Counted(S, One(b))
  BY DEF Single, Counted, One

LEMMA Six ==
    ASSUME NEW o, NEW S1, NEW S2, NEW S3, NEW S4, NEW S5, NEW S6,
           NEW n1, NEW n2, NEW n3, NEW n4, NEW n5, NEW n6,
           AtMostOne(o, S1, S2, S3, S4, S5, S6, n1, n2, n3, n4, n5, n6)
    PROVE  Cardinality(S1 \cup S2 \cup S3 \cup S4 \cup S5 \cup S6) = o
<1> DEFINE S == S1 \cup S2 \cup S3 \cup S4 \cup S5 \cup S6
<1>0. /\ Counted(S1, n1) /\ Counted(S2, n2) /\ Counted(S3, n3)
      /\ Counted(S4, n4) /\ Counted(S5, n5) /\ Counted(S6, n6)
      /\ o \in {0, 1} /\ o = n2 + n3 + n5 + n6 + n4 + n1
  BY DEF AtMostOne
<1>1. n1 \in {0, 1} /\ n2 \in {0, 1} /\ n3 \in {0, 1} /\ n4 \in {0, 1} /\ n5 \in {0, 1} /\ n6 \in {0, 1}
  BY <1>0 DEF Counted
<1>2. /\ (n1 = 0 => S1 = {}) /\ (n2 = 0 => S2 = {}) /\ (n3 = 0 => S3 = {})
      /\ (n4 = 0 => S4 = {}) /\ (n5 = 0 => S5 = {}) /\ (n6 = 0 => S6 = {})
  BY <1>0 DEF Counted
<1>3. CASE o = 0
  <2>1. n1 = 0 /\ n2 = 0 /\ n3 = 0 /\ n4 = 0 /\ n5 = 0 /\ n6 = 0
    BY <1>0, <1>1, <1>3
  <2>2. S = {}
    BY <1>2, <2>1
  <2> HIDE DEF S
  <2>3. Cardinality(S) = 0
    BY <2>2, FS_EmptySet
  <2> QED
    BY <1>3, <2>3 DEF S
<1>4. CASE o = 1
  <2>1. \/ n1 = 1 /\ n2 = 0 /\ n3 = 0 /\ n4 = 0 /\ n5 = 0 /\ n6 = 0
        \/ n1 = 0 /\ n2 = 1 /\ n3 = 0 /\ n4 = 0 /\ n5 = 0 /\ n6 = 0
        \/ n1 = 0 /\ n2 = 0 /\ n3 = 1 /\ n4 = 0 /\ n5 = 0 /\ n6 = 0
        \/ n1 = 0 /\ n2 = 0 /\ n3 = 0 /\ n4 = 1 /\ n5 = 0 /\ n6 = 0
        \/ n1 = 0 /\ n2 = 0 /\ n3 = 0 /\ n4 = 0 /\ n5 = 1 /\ n6 = 0
        \/ n1 = 0 /\ n2 = 0 /\ n3 = 0 /\ n4 = 0 /\ n5 = 0 /\ n6 = 1
    BY <1>0, <1>1, <1>4
  <2>2. \/ (n1 = 1 /\ S = S1) \/ (n2 = 1 /\ S = S2) \/ (n3 = 1 /\ S = S3)
        \/ (n4 = 1 /\ S = S4) \/ (n5 = 1 /\ S = S5) \/ (n6 = 1 /\ S = S6)
    BY <1>2, <2>1
  <2> HIDE DEF S
  <2>3. \E x : S = {x}
    BY <1>0, <2>2 DEF Counted
  <2>4. Cardinality(S) = 1
    BY <2>3, FS_Singleton
  <2> QED
    BY <1>4, <2>4 DEF S
<1> QED
  BY <1>0, <1>3, <1>4

LEMMA InvNothingLost ==
    ASSUME Private, Inv
    PROVE  NothingLost
<1> SUFFICES ASSUME NEW c \in L1s PROVE out[c] = Cardinality(Where(c))
  BY DEF NothingLost
<1> DEFINE k == Parent(c)
<1>1. k \in L2s /\ c = C(k)
  BY OwnL1
<1> HIDE DEF k
<1> DEFINE p == {<<0, "dir", 0>> : e \in {x \in {dir.pend} : OfL1(C(k), x)}}
<1>2. Home(dir, mc) /\ Node(k)
  BY <1>1 DEF Inv
<1>3. /\ Queues(k, dn[C(k)], todir[k], toL2[k])
      /\ Access(k, l1[C(k)], out[C(k)], up[C(k)], ToSet(dn[C(k)]), ToSet(todir[k]), ToSet(toL2[k]), dir, mc)
      /\ Line(k, l1[C(k)], l2[k], up[C(k)], ToSet(dn[C(k)]))
  BY <1>2 DEF Node
<1>4. Single(At(C(k), "up", In(C(k), up[C(k)])), Answers(ToSet(up[C(k)])))
  BY <1>1, <1>3, InUp, AtSingle
<1>5. /\ Single(In(C(k), dn[C(k)]), Requests(ToSet(dn[C(k)])))
      /\ Single(In(C(k), todir[k]), Requests(ToSet(todir[k])))
      /\ Single(In(C(k), toL2[k]), Answers(ToSet(toL2[k])))
  BY <1>1, <1>3, InQueues
<1>6. /\ Single(At(C(k), "dn", In(C(k), dn[C(k)])), Requests(ToSet(dn[C(k)])))
      /\ Single(At(k, "todir", In(C(k), todir[k])), Requests(ToSet(todir[k])))
      /\ Single(At(k, "toL2", In(C(k), toL2[k])), Answers(ToSet(toL2[k])))
  BY <1>5, AtSingle
<1>7. Single(At(0, "mc", In(C(k), mc)), Reads(k, mc)) /\ (OfL1(C(k), dir.pend) <=> dir.pend.k = k)
  BY <1>1, <1>2, InHome, AtSingle
<1>8. Single(p, dir.pend.k = k)
  <2>1. OfL1(C(k), dir.pend) => p = {<<0, "dir", 0>>}
    OBVIOUS
  <2>2. ~OfL1(C(k), dir.pend) => p = {}
    OBVIOUS
  <2> HIDE DEF p
  <2> QED
    BY <1>7, <2>1, <2>2 DEF Single
<1>9. Where(C(k)) = At(C(k), "up", In(C(k), up[C(k)])) \cup At(C(k), "dn", In(C(k), dn[C(k)])) \cup
                    At(k, "todir", In(C(k), todir[k])) \cup At(k, "toL2", In(C(k), toL2[k])) \cup
                    At(0, "mc", In(C(k), mc)) \cup p
  BY <1>1, WhereSpots DEF Spots
<1> HIDE DEF p
<1>10. /\ out[C(k)] \in {0, 1}
       /\ out[C(k)] = One(Requests(ToSet(dn[C(k)]))) + One(Requests(ToSet(todir[k]))) + One(Reads(k, mc))
                + One(dir.pend.k = k) + One(Answers(ToSet(toL2[k]))) + One(Answers(ToSet(up[C(k)])))
  BY <1>3 DEF Access
<1> DEFINE S1 == At(C(k), "up", In(C(k), up[C(k)]))
           S2 == At(C(k), "dn", In(C(k), dn[C(k)]))
           S3 == At(k, "todir", In(C(k), todir[k]))
           S4 == At(k, "toL2", In(C(k), toL2[k]))
           S5 == At(0, "mc", In(C(k), mc))
           n1 == One(Answers(ToSet(up[C(k)])))
           n2 == One(Requests(ToSet(dn[C(k)])))
           n3 == One(Requests(ToSet(todir[k])))
           n4 == One(Answers(ToSet(toL2[k])))
           n5 == One(Reads(k, mc))
           n6 == One(dir.pend.k = k)
<1>11. /\ Counted(S1, n1) /\ Counted(S2, n2) /\ Counted(S3, n3)
       /\ Counted(S4, n4) /\ Counted(S5, n5) /\ Counted(p, n6)
  <2>1. Counted(p, n6)
    BY <1>8 DEF Single, Counted, One
  <2> QED
    BY <1>4, <1>6, <1>7, <2>1, Counts
<1>12. out[C(k)] = n2 + n3 + n5 + n6 + n4 + n1
  BY <1>10
<1>13. Where(C(k)) = S1 \cup S2 \cup S3 \cup S4 \cup S5 \cup p
  BY <1>9
<1> HIDE DEF S1, S2, S3, S4, S5, n1, n2, n3, n4, n5, n6
<1>14. Cardinality(S1 \cup S2 \cup S3 \cup S4 \cup S5 \cup p) = out[C(k)]
  <2>1. AtMostOne(out[C(k)], S1, S2, S3, S4, S5, p, n1, n2, n3, n4, n5, n6)
    BY <1>10, <1>11, <1>12 DEF AtMostOne
  <2> QED
    BY <2>1, Six
<1> QED
  BY <1>1, <1>13, <1>14
-----------------------------------------------------------------------------
(* The theorems.                                                           *)

\* CacheL1, CacheL2 and Directory keep their fields' types, and a request or an
\* order waits in a pending slot only while the entry is in a state whose end
\* releases it.
THEOREM TypesCorrect == Private => (Spec => []TypeOK)
<1> SUFFICES ASSUME Private PROVE Spec => []TypeOK
  OBVIOUS
<1>1. Inv => TypeOK
  BY InvTypes
<1>2. Spec => []Inv
  BY Invariant
<1> QED
  BY <1>1, <1>2, PTL

\* No LOG(FATAL), ASSERTX or null dereference of the three process_event
\* handlers is reached as long as no line loses its place.
THEOREM NoAbort == Private => (Spec => []AbortNeedsEviction)
<1> SUFFICES ASSUME Private PROVE Spec => []AbortNeedsEviction
  OBVIOUS
<1>1. Inv => AbortNeedsEviction
  BY DEF Inv, Frame, AbortNeedsEviction
<1>2. Spec => []Inv
  BY Invariant
<1> QED
  BY <1>1, <1>2, PTL

\* No two L1s and no two L2s have the line modified at the same time.
THEOREM WritersExclude == Private => (Spec => []OneWriter)
<1> SUFFICES ASSUME Private PROVE Spec => []OneWriter
  OBVIOUS
<1>1. Inv => OneWriter
  BY InvOneWriter
<1>2. Spec => []Inv
  BY Invariant
<1> QED
  BY <1>1, <1>2, PTL

\* The LocalQueueElement of a core's access is always in exactly one queue,
\* pending slot or memory controller: it is neither dropped nor answered twice.
THEOREM AccessesKept == Private => (Spec => []NothingLost)
<1> SUFFICES ASSUME Private PROVE Spec => []NothingLost
  OBVIOUS
<1>1. Inv => NothingLost
  BY InvNothingLost
<1>2. Spec => []Inv
  BY Invariant
<1> QED
  BY <1>1, <1>2, PTL
=============================================================================
