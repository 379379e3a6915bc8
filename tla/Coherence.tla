------------------------------ MODULE Coherence ------------------------------
(***************************************************************************)
(* The cache coherence protocol of the timing model, for one cache line:   *)
(* CacheL1 and CacheL2 (McSim/PTSCache.cc) and the Directory               *)
(* (McSim/PTSDirectory.cc) that owns the line.  Every component handles    *)
(* one event at a time; an event is a LocalQueueElement whose `from' stack *)
(* says where its answer goes.  The other lines of the caches appear as    *)
(* nondeterminism: a line may fall victim to a fill of its set at any time *)
(* and a fill may find its set occupied by a line in a transient state.    *)
(*                                                                         *)
(* Delivery.  Events between two components are delivered in order, except *)
(* that a component serves its reply queue first: a reply may pass         *)
(* requests that were sent before it, never the other way round.  The      *)
(* crossbar orders replies before coherence requests (crq) in the same     *)
(* way.  A memory read takes any time.                                     *)
(*                                                                         *)
(* LOG(FATAL), ASSERTX and uses of a null or empty `from' end the          *)
(* simulation: `fatal' records that.  The directory cache and the          *)
(* limitless broadcast are configured off.                                 *)
(***************************************************************************)
EXTENDS Integers, Sequences, FiniteSets, SequencesExt

CONSTANTS
    L2s,        \* the L2 caches, a set of integers
    Local,      \* those next to the line's directory (the others use the crossbar)
    Wide,       \* the L2s with two L1 caches (the others have one)
    MaxOut,     \* bound: accesses of an L1's cores in flight
    Prefetchers,  \* the L2s whose first L1 prefetches
    MaxOther    \* bound: prefetches and evictions on account of other lines

ASSUME CoherenceAssumption ==
    /\ L2s \subseteq Nat \ {0} /\ IsFiniteSet(L2s) /\ Local \subseteq L2s
    /\ Wide \subseteq L2s /\ MaxOut \in Nat \ {0} /\ MaxOther \in Nat
    /\ Prefetchers \subseteq L2s

\* L1 number i of L2 k.
L1s       == {c \in L2s \X {1, 2} : c[2] = 1 \/ c[1] \in Wide}
Parent(c) == c[1]
NoL1      == <<0, 0>>

VARIABLES
    l1,     \* l1[c]: state of the line in L1 c
    l2,     \* l2[k]: type, type_l1l2, sharedl1 and pending of the L2 entry
    dir,    \* the directory entry; type "none" when dir has no entry
    up, dn,     \* up[c], dn[c]: events from L2 to L1 c and back
    todir, toL2, \* todir[k], toL2[k]: events from L2 k to the directory and back
    xbar,   \* xbar[k]: evictions a local L2 sends through the crossbar
    mc,     \* reads at the memory controller
    out,    \* out[c]: accesses of the cores of c in flight
    pre,    \* prefetches sent
    lost,   \* how often the line has lost its place
    fatal

vars == <<l1, l2, dir, up, dn, todir, toL2, xbar, mc, out, pre, lost, fatal>>

-----------------------------------------------------------------------------
\* An event.  c is the L1 that waits for it, pf tells a prefetch (nobody
\* waits); k is the L2 its `from' stack names; rep tells a reply (urgent).
Event(t, c, pf, k, rep) == [t |-> t, c |-> c, pf |-> pf, k |-> k, rep |-> rep]
NoEvent  == Event("none", NoL1, FALSE, 0, FALSE)
Order(t, k) == Event(t, NoL1, FALSE, k, TRUE)   \* a new element without requester
As(e, t)    == [e EXCEPT !.t = t, !.rep = TRUE]  \* the same element, answered

Entry(type, l1l2, sharers, pend) ==
    [type |-> type, l1l2 |-> l1l2, sharers |-> sharers, pend |-> pend]
NoEntry  == Entry("I", "I", {}, NoEvent)
NoDir    == [type |-> "none", sharers |-> {}, pend |-> NoEvent, gotcl |-> FALSE]

Stable   == {"E", "S", "M"}
Moving   == {"tr_s", "tr_m", "tr_i", "tr_e", "m_s"}

Init ==
    /\ l1 = [c \in L1s |-> "I"]
    /\ l2 = [k \in L2s |-> NoEntry]
    /\ dir = NoDir
    /\ up = [c \in L1s |-> <<>>] /\ dn = [c \in L1s |-> <<>>]
    /\ todir = [k \in L2s |-> <<>>] /\ toL2 = [k \in L2s |-> <<>>]
    /\ xbar = [k \in L2s |-> <<>>]
    /\ mc = <<>>
    /\ out = [c \in L1s |-> 0] /\ pre = 0 /\ lost = 0
    /\ fatal = FALSE

\* The events of a queue that may be served next: the first reply and, if no
\* reply was sent before it, the first event.
Servable(q) == {i \in DOMAIN q : i = 1 \/ (q[i].rep /\ \A j \in 1 .. i - 1 : ~q[j].rep)}

-----------------------------------------------------------------------------
(* CacheL1::process_event.                                                 *)

\* A core reads or writes.  A write to a clean line drops the line and misses.
L1Request(c, t) ==
    /\ ~fatal /\ out[c] < MaxOut
    /\ IF t = "read" THEN l1[c] = "I" ELSE l1[c] # "M"
    /\ l1' = [l1 EXCEPT ![c] = "I"]
    /\ dn' = [dn EXCEPT ![c] = Append(@, Event(t, c, FALSE, Parent(c), FALSE))]
    /\ out' = [out EXCEPT ![c] = @ + 1]
    /\ UNCHANGED <<l2, dir, up, todir, toL2, xbar, mc, pre, lost, fatal>>

\* do_prefetch: a neighbouring line was read.
L1Prefetch(c) ==
    /\ ~fatal /\ c[2] = 1 /\ c[1] \in Prefetchers /\ pre + lost < MaxOther
    /\ dn' = [dn EXCEPT ![c] = Append(@, Event("read", c, TRUE, Parent(c), FALSE))]
    /\ pre' = pre + 1
    /\ UNCHANGED <<l1, l2, dir, up, todir, toL2, xbar, mc, out, lost, fatal>>

\* A fill of another line takes the way of this one.
L1Victim(c) ==
    /\ ~fatal /\ pre + lost < MaxOther /\ l1[c] # "I"
    /\ lost' = lost + 1
    /\ l1' = [l1 EXCEPT ![c] = "I"]
    /\ dn' = [dn EXCEPT ![c] = Append(@,
                Event(IF l1[c] = "M" THEN "evict" ELSE "evict_nd", c, FALSE, Parent(c), TRUE))]
    /\ UNCHANGED <<l2, dir, up, todir, toL2, xbar, mc, out, pre, fatal>>

\* What an L1 in state s does with reply e: its state and the event it sends.
L1NextKeepsModified(s, e) ==        \* a faulty variant: m_to_m leaves the line
    CASE e.t = "evict"            -> "I"
      [] e.t = "m_to_s" /\ s = "M" -> "S"
      [] e.t = "dir_rd" /\ s = "M" -> "E"
      [] e.t = "write"            -> "M"
      [] e.t = "read" /\ s # "M"  -> "E"
      [] OTHER                    -> s
L1Next(s, e) ==
    CASE e.t = "evict"            -> "I"
      [] e.t = "m_to_m" /\ s = "M" -> "I"
      [] e.t = "m_to_s" /\ s = "M" -> "S"
      [] e.t = "dir_rd" /\ s = "M" -> "E"
      [] e.t = "write"            -> "M"
      [] e.t = "read" /\ s # "M"  -> "E"
      [] OTHER                    -> s
L1Sends(c, s, e) ==
    CASE e.t \in {"m_to_m", "m_to_s"} -> <<e>>
      [] e.t \in {"evict", "dir_rd"} /\ s = "M" ->
            <<Event("evict", c, FALSE, Parent(c), TRUE)>>
      [] OTHER -> <<>>

L1Reply(c) ==
    LET e == Head(up[c])
    IN  /\ ~fatal /\ up[c] # <<>>
        /\ up' = [up EXCEPT ![c] = Tail(@)]
        /\ fatal' = (e.t = "dir_rd" /\ l1[c] \in {"S", "E"})
        /\ l1' = [l1 EXCEPT ![c] = L1Next(@, e)]
        /\ dn' = [dn EXCEPT ![c] = @ \o L1Sends(c, l1[c], e)]
        /\ out' = IF e.t \in {"nack", "rd_bypass", "read", "write"}
                  THEN [out EXCEPT ![c] = @ - 1] ELSE out
        /\ UNCHANGED <<l2, dir, todir, toL2, xbar, mc, pre, lost>>

-----------------------------------------------------------------------------
(* CacheL2::process_event.  A handler's outcome: the entry, the events to  *)
(* L1s (a set of <<L1, event>>), the events to the directory, and whether  *)
(* the simulation is aborted.                                              *)

Outcome(e, ups, downs) == [entry |-> e, ups |-> ups, downs |-> downs, fatal |-> FALSE]
Abort(e) == [entry |-> e, ups |-> {}, downs |-> <<>>, fatal |-> TRUE]

\* req_L1_evict for the sharers in S.
Evicts(k, S) == {<<c, Order("evict", k)>> : c \in S}
\* The answer to the L1 that waits for r, if one does.
ToL1(r, t) == IF r.pf THEN {} ELSE {<<r.c, As(r, t)>>}

\* et_write_nd: the directory grants an upgrade.
OnWriteNd(k, s, r) ==
    IF s.type # "tr_m"
    THEN Outcome(s, ToL1(r, "nack"), <<Order("e_to_i", k)>>)
    ELSE Outcome(Entry("M", "M", {r.c}, s.pend),
                 Evicts(k, s.sharers \ {r.c}) \cup ToL1(r, "write"),
                 <<Order("e_to_m", k)>>)

\* et_e_rd, et_s_rd, et_write: data arrives.  The set may be full of lines in
\* transient states; then the line is given back.
OnBypass(k, s, r) == Outcome(s, ToL1(r, "nack"), <<Order("evict", k)>>)
OnData(k, s, r) ==
    LET present == s.type # "I"
        evicted == IF present /\ r.t = "write" THEN s.sharers \ {r.c} ELSE {}
        left    == IF present /\ r.t = "write" THEN {} ELSE s.sharers
        type    == CASE r.t = "e_rd" -> "E" [] r.t = "s_rd" -> "S" [] OTHER -> "M"
        l1l2    == CASE r.pf -> "I"
                     [] r.t = "write" -> "M"
                     [] present /\ r.t = "s_rd" -> "S"
                     [] OTHER -> "E"
    IN  IF present /\ r.t # "write" /\ s.type = "M"
        THEN Outcome(s, ToL1(r, "rd_bypass"), <<>>)
        ELSE Outcome(Entry(type, l1l2, IF r.pf THEN left ELSE left \cup {r.c}, s.pend),
                     Evicts(k, evicted) \cup ToL1(r, IF r.t = "write" THEN "write" ELSE "read"),
                     <<>>)

\* et_m_to_s, et_m_to_m: the owner among the L1s has given the line up.
OnMoved(k, s, r) ==
    IF s.type = "tr_i" /\ s.pend # NoEvent
    THEN Outcome(NoEntry,
                 (IF s.l1l2 = "tr_i" THEN {} ELSE ToL1(r, "nack")) \cup
                 (IF s.l1l2 \in {"tr_i", "tr_m"} THEN {} ELSE Evicts(k, s.sharers \cup {r.c})),
                 <<s.pend>>)
    ELSE IF s.l1l2 \in {"tr_m", "tr_s"} /\ s.type # "I" /\ r.c # NoL1
    THEN LET kept == s.pend = NoEvent
         IN  Outcome(Entry(IF kept THEN s.type ELSE "S",
                           CASE s.l1l2 = "tr_s" -> "S" [] kept -> "M" [] OTHER -> "I",
                           s.sharers \cup {r.c}, NoEvent),
                     ToL1(r, CASE r.t = "m_to_s" -> "read" [] kept -> "write" [] OTHER -> "nack"),
                     IF kept THEN <<>> ELSE <<s.pend>>)
    ELSE Abort(s)

\* et_evict, et_evict_nd from L1 r.c.
OnEvict(k, s, r) ==
    LET left == s.sharers \ {r.c}
    IN  CASE s.type = "I" ->
               Outcome(s, {}, IF r.t = "evict" THEN <<Order("evict", k)>> ELSE <<>>)
          [] s.type = "tr_s" ->
               Outcome(Entry("S", s.l1l2, s.sharers \cup {r.c}, NoEvent), {}, <<s.pend>>)
          [] OTHER ->
               Outcome([s EXCEPT !.sharers = left,
                                 !.l1l2 = IF left = {} /\ @ \notin {"tr_s", "tr_m", "tr_i"}
                                          THEN "I" ELSE @], {}, <<>>)

\* et_dir_rd: the directory wants modified data back.
OnDirRd(k, s, r) ==
    CASE s.type = "I" -> Outcome(s, {}, <<As(r, "dir_rd_nd")>>)
      [] s.type = "M" /\ s.l1l2 \in {"I", "E", "S"} ->
            Outcome([s EXCEPT !.type = "S"], {}, <<As(r, "dir_rd")>>)
      [] s.type = "M" /\ s.l1l2 = "M" /\ Cardinality(s.sharers) = 1 ->
            Outcome(Entry("tr_s", "E", {}, As(r, "dir_rd")),
                    {<<c, Order("dir_rd", k)>> : c \in s.sharers}, <<>>)
      [] s.type = "M" /\ s.l1l2 \in {"tr_m", "tr_s"} /\ s.pend = NoEvent ->
            Outcome([s EXCEPT !.pend = As(r, "dir_rd")], {}, <<>>)
      [] OTHER -> Abort(s)

\* et_e_to_s, et_s_to_s: the directory wants the line shared.
OnToSharedStrict(k, s, r) ==        \* a faulty variant: no upgrade may be under way
    CASE s.type = "I" -> Outcome(s, {}, <<As(r, IF r.t = "e_to_s" THEN "e_to_s_nd" ELSE "s_to_s_nd")>>)
      [] s.type \in {"E", "S"} -> Outcome([s EXCEPT !.type = "S"], {}, <<As(r, r.t)>>)
      [] OTHER -> Abort(s)
OnToShared(k, s, r) ==
    CASE s.type = "I" -> Outcome(s, {}, <<As(r, IF r.t = "e_to_s" THEN "e_to_s_nd" ELSE "s_to_s_nd")>>)
      [] s.type \in {"E", "S", "tr_m"} -> Outcome([s EXCEPT !.type = "S"], {}, <<As(r, r.t)>>)
      [] OTHER -> Abort(s)

\* et_invalidate, et_invalidate_nd.
OnInvalidate(k, s, r) ==
    CASE s.type = "I" -> Outcome(s, {}, <<As(r, "invalidate_nd")>>)
      [] s.type \in {"tr_s", "tr_e", "tr_i"} -> Abort(s)
      [] s.type = "M" /\ s.l1l2 = "M" ->
            IF Cardinality(s.sharers) # 1 THEN Abort(s)
            ELSE Outcome(Entry("tr_i", "tr_i", {}, As(r, r.t)),
                         {<<c, Order("m_to_m", k)>> : c \in s.sharers}, <<>>)
      [] s.type = "M" /\ s.l1l2 \in {"tr_m", "tr_s"} ->
            IF s.pend # NoEvent THEN Abort(s)
            ELSE Outcome([s EXCEPT !.type = "tr_i", !.pend = As(r, r.t)], {}, <<>>)
      [] OTHER -> Outcome(NoEntry, Evicts(k, s.sharers), <<As(r, r.t)>>)

\* A request of L1 r.c meets a line that is between two states.
Busy(s) == \/ s.l1l2 = "E" /\ s.type = "tr_s"
           \/ s.l1l2 \in {"tr_s", "tr_m", "tr_i"} \/ s.type = "tr_m"
ToDir(r) == <<[r EXCEPT !.rep = FALSE]>>

OnRead(k, s, r) ==
    LET add == s.sharers \cup {r.c}
    IN  CASE s.type = "I" -> Outcome(s, {}, ToDir(r))
          [] s.type # "I" /\ r.pf -> Outcome(s, {}, <<>>)
          [] s.type \in Stable /\ s.l1l2 \in {"I", "E", "S"} /\ ~r.pf ->
                Outcome([s EXCEPT !.sharers = add,
                                  !.l1l2 = CASE @ = "I" -> "E"
                                             [] @ = "E" /\ Cardinality(add) > 1 -> "S"
                                             [] OTHER -> @], ToL1(r, "read"), <<>>)
          [] s.type = "M" /\ s.l1l2 = "M" /\ ~r.pf ->
                CASE Cardinality(s.sharers) > 1 -> Abort(s)
                  [] s.sharers = {} -> Outcome([s EXCEPT !.l1l2 = "S", !.sharers = add],
                                               ToL1(r, "read"), <<>>)
                  [] s.sharers = {r.c} -> Outcome(s, ToL1(r, "read"), <<>>)
                  [] OTHER -> Outcome([s EXCEPT !.l1l2 = "tr_s", !.sharers = {}],
                                      {<<c, As(r, "m_to_s")>> : c \in s.sharers}, <<>>)
          [] OTHER -> IF Busy(s) THEN Outcome(s, ToL1(r, "nack"), <<>>) ELSE Abort(s)

OnWrite(k, s, r) ==
    LET others == s.sharers \ {r.c}
        grant(ups) == Outcome([s EXCEPT !.l1l2 = "M", !.sharers = {r.c}],
                              ups \cup ToL1(r, "write"), <<>>)
    IN  CASE s.type = "I" -> Outcome(s, {}, ToDir(r))
          [] s.type \in {"E", "S"} ->
                IF s.type = "E" /\ s.sharers = {r.c}
                THEN Outcome([s EXCEPT !.type = "tr_m"], {}, ToDir(r))
                ELSE Outcome([s EXCEPT !.type = IF s.sharers # {} THEN "I" ELSE @, !.sharers = {}],
                             Evicts(k, others), ToDir(r))
          [] s.type = "M" /\ s.l1l2 = "M" ->
                CASE Cardinality(s.sharers) # 1 -> Abort(s)
                  [] s.sharers = {r.c} -> grant({})
                  [] OTHER -> Outcome([s EXCEPT !.l1l2 = "tr_m", !.sharers = {}],
                                      {<<c, As(r, "m_to_m")>> : c \in s.sharers}, <<>>)
          [] s.type = "M" /\ s.l1l2 = "I" ->
                Outcome([s EXCEPT !.l1l2 = "M", !.sharers = @ \cup {r.c}], ToL1(r, "write"), <<>>)
          [] s.type = "M" /\ s.l1l2 = "E" ->
                IF Cardinality(s.sharers) > 1 THEN Abort(s) ELSE grant(Evicts(k, others))
          [] s.type = "M" /\ s.l1l2 = "S" -> grant(Evicts(k, others))
          [] OTHER -> IF Busy(s) THEN Outcome(s, ToL1(r, "nack"), <<>>) ELSE Abort(s)

\* et_nack.
OnNackDropped(k, s, r) == Outcome(s, {}, <<>>)      \* a faulty variant: nobody is told
OnNack(k, s, r) == Outcome(s, ToL1(r, "nack"), <<>>)

\* One event e at L2 k, from an L1 or from the directory.
L2Handles(k, e) ==
    LET s == l2[k]
    IN  CASE e.t = "read" -> OnRead(k, s, e)
          [] e.t = "write" /\ ~e.rep -> OnWrite(k, s, e)
          [] e.t = "write_nd" -> OnWriteNd(k, s, e)
          [] e.t \in {"e_rd", "s_rd", "write"} /\ e.rep -> OnData(k, s, e)
          [] e.t \in {"m_to_s", "m_to_m"} -> OnMoved(k, s, e)
          [] e.t \in {"evict", "evict_nd"} -> OnEvict(k, s, e)
          [] e.t = "dir_rd" -> OnDirRd(k, s, e)
          [] e.t = "nack" -> OnNack(k, s, e)
          [] e.t \in {"e_to_s", "s_to_s"} -> OnToShared(k, s, e)
          [] OTHER -> OnInvalidate(k, s, e)


\* The L1s' events of an outcome, answers before evictions, behind those of c.
Delivered(o, c) ==
    LET for(b) == SetToSeq({x[2] : x \in {y \in o.ups : y[1] = c /\ (y[2].t = "evict") = b}})
    IN  up[c] \o for(FALSE) \o for(TRUE)

\* add_event_to_LL: an eviction an L1 sent and L2 passes on carries the L2
\* itself on top of `from' and takes the crossbar even to a local directory.
L2Applies(k, o, far) ==
    /\ l2' = [l2 EXCEPT ![k] = o.entry]
    /\ up' = [c \in L1s |-> Delivered(o, c)]
    /\ todir' = IF far THEN todir ELSE [todir EXCEPT ![k] = @ \o o.downs]
    /\ xbar' = IF far THEN [xbar EXCEPT ![k] = @ \o o.downs] ELSE xbar
    /\ fatal' = o.fatal
    /\ UNCHANGED <<l1, dir, mc, out, pre>>

\* Event i of those from an L1.
L2FromL1(c, i) ==
    LET e == dn[c][i]
        k == Parent(c)
    IN  /\ ~fatal /\ i \in Servable(dn[c])
        /\ dn' = [dn EXCEPT ![c] = RemoveAt(@, i)]
        /\ L2Applies(k, L2Handles(k, e), k \in Local /\ e.t = "evict" /\ l2[k].type = "I")
        /\ UNCHANGED <<toL2, lost>>

\* Event i of those from the directory: L2 takes all of them from its reply
\* queue.
L2FromDir(k, i) ==
    LET e == [toL2[k][i] EXCEPT !.rep = TRUE]
    IN  /\ ~fatal /\ i \in Servable(toL2[k])
        /\ toL2' = [toL2 EXCEPT ![k] = RemoveAt(@, i)]
        /\ \/ L2Applies(k, L2Handles(k, e), FALSE) /\ UNCHANGED lost
           \/ /\ pre + lost < MaxOther /\ l2[k].type = "I" /\ e.t \in {"e_rd", "s_rd", "write"}
              /\ L2Applies(k, OnBypass(k, l2[k], e), FALSE)
              /\ lost' = lost + 1
        /\ UNCHANGED dn

\* A fill of another line takes the way of this one.  An order pending in it
\* stays in the way, where only that other line's transfers between its L1s
\* would send it on: here it stays there.
L2Victim(k) ==
    /\ ~fatal /\ pre + lost < MaxOther /\ l2[k].type \in Stable
    /\ lost' = lost + 1
    /\ L2Applies(k, Outcome(NoEntry, Evicts(k, l2[k].sharers),
                            IF l2[k].l1l2 = "M" THEN <<>> ELSE <<Order("evict", k)>>), FALSE)
    /\ UNCHANGED <<dn, toL2>>

-----------------------------------------------------------------------------
(* Directory::process_event.                                               *)

\* The new entry, the events sent to L2s (a set of <<L2, event>>) and to memory.
DirApplies(d, sends, reads) ==
    /\ dir' = d
    /\ toL2' = [k \in L2s |-> toL2[k] \o SetToSeq({x[2] : x \in {y \in sends : y[1] = k}})]
    /\ mc' = mc \o reads
    /\ fatal' = FALSE
DirAborts == fatal' = TRUE /\ UNCHANGED <<dir, toL2, mc>>

\* add_event_to_ULpp and add_event_to_UL: to a remote L2 the first takes the
\* reply lane of the crossbar, the second its coherence request lane.
ULpp(e, t) == <<e.k, [e EXCEPT !.t = t, !.rep = TRUE]>>
UL(e, t)   == <<e.k, [e EXCEPT !.t = t, !.rep = e.k \in Local]>>
Tell(k, t) == UL(Event(t, NoL1, FALSE, k, FALSE), t)

\* A read of a line some L2 has: that L2 is asked to share it.
DirRead(e) ==
    IF e.k \in dir.sharers THEN DirApplies(dir, {ULpp(e, "nack")}, <<>>)
    ELSE IF dir.sharers = {} \/ (dir.type # "S" /\ Cardinality(dir.sharers) # 1) THEN DirAborts
    ELSE \E s \in dir.sharers :
            DirApplies([dir EXCEPT !.type = IF @ = "M" THEN "m_s" ELSE "tr_s", !.pend = e],
                       {Tell(s, CASE dir.type = "E" -> "e_to_s"
                                  [] dir.type = "M" -> "dir_rd"
                                  [] OTHER -> "s_to_s")}, <<>>)

\* A write: the L2s that have the line are told to drop it.
DirWrite(e) ==
    LET held == [dir EXCEPT !.type = "tr_m", !.pend = e,
                            !.gotcl = IF dir.type = "E" THEN FALSE ELSE @]
    IN  IF \/ dir.sharers = {} \/ (dir.type # "S" /\ Cardinality(dir.sharers) # 1)
           \/ dir.type = "M" /\ dir.pend # NoEvent
        THEN DirAborts
        ELSE IF dir.type = "E" /\ e.k \in dir.sharers
        THEN DirApplies([dir EXCEPT !.type = "tr_m"], {ULpp(e, "write_nd")}, <<>>)
        ELSE IF dir.type = "M" /\ e.k \in dir.sharers
        THEN DirApplies(dir, {UL(e, "nack")}, <<>>)
        ELSE \E s \in dir.sharers :
                DirApplies(held, {Tell(s, "invalidate")} \cup
                                 {Tell(x, "invalidate_nd") : x \in dir.sharers \ {s}}, <<>>)

DirRequest(e) ==
    CASE dir.type = "none" ->
            DirApplies([type |-> IF e.t = "read" THEN "tr_e" ELSE "tr_m", sharers |-> {e.k},
                        pend |-> NoEvent, gotcl |-> FALSE], {}, <<e>>)
      [] dir.type \in Moving -> DirApplies(dir, {ULpp(e, "nack")}, <<>>)
      [] dir.type \in Stable /\ e.t = "read" -> DirRead(e)
      [] OTHER -> DirWrite(e)

\* et_evict: L2 e.k gave the line up.
DirEvict(e) ==
    LET left    == [dir EXCEPT !.sharers = @ \ {e.k}]
        dropped == dir.type = "tr_m" \/ (dir.type = "M" /\ e.k \notin dir.sharers)
    IN  IF dir.type \in {"M", "m_s"} /\ Cardinality(dir.sharers) > 1 THEN DirAborts
        ELSE DirApplies(IF dir.type = "none" \/ dropped THEN dir
                        ELSE IF left.sharers = {} /\ dir.type \notin {"tr_s", "m_s"} THEN NoDir
                        ELSE left, {}, <<>>)

\* et_e_to_i, et_e_to_m: the outcome of an upgrade.
DirUpgraded(e) ==
    CASE dir.type = "none" -> DirApplies(dir, {}, <<>>)
      [] dir.type = "tr_m" ->
            DirApplies(IF e.t = "e_to_i" THEN NoDir
                       ELSE [dir EXCEPT !.type = "M", !.pend = NoEvent], {}, <<>>)
      [] OTHER -> DirAborts

\* et_invalidate, et_invalidate_nd: L2 e.k has dropped the line.  The last one
\* lets the write that waits go on, with the line if one of them returned it.
DirInvalidatedEarly(e) ==           \* a faulty variant: the first answer suffices
    CASE dir.type = "none" -> DirApplies(dir, {}, <<>>)
      [] dir.type = "tr_m" /\ dir.pend # NoEvent ->
            DirApplies([type |-> "M", sharers |-> {dir.pend.k}, pend |-> NoEvent, gotcl |-> FALSE],
                       {UL(dir.pend, "write")}, <<>>)
      [] dir.type = "M" -> DirApplies(dir, {}, <<>>)
      [] OTHER -> DirAborts
DirInvalidatedSilent(e) ==          \* a faulty variant: the write is not resumed
    CASE dir.type = "tr_m" -> DirApplies([dir EXCEPT !.type = "M"], {}, <<>>)
      [] OTHER -> DirApplies(dir, {}, <<>>)
DirInvalidated(e) ==
    LET got  == dir.gotcl \/ e.t = "invalidate"
        left == dir.sharers \ {e.k}
        p    == dir.pend
    IN  CASE dir.type = "none" -> DirApplies(dir, {}, <<>>)
          [] dir.type = "tr_m" /\ p # NoEvent ->
                CASE left # {} -> DirApplies([dir EXCEPT !.sharers = left, !.gotcl = got], {}, <<>>)
                  [] left = {} /\ got ->
                        DirApplies([type |-> "M", sharers |-> {p.k}, pend |-> NoEvent, gotcl |-> FALSE],
                                   {UL(p, "write")}, <<>>)
                  [] OTHER -> DirApplies([dir EXCEPT !.sharers = {p.k}, !.pend = NoEvent], {}, <<p>>)
          [] OTHER -> DirAborts

\* et_e_to_s, et_s_to_s, et_dir_rd and their _nd forms: L2 e.k shares the line
\* with the L2 whose read waits, or no longer has it.
DirSharedForgets(e) ==              \* a faulty variant: the reader is not recorded
    IF dir.type \notin {"tr_s", "m_s"} THEN DirAborts
    ELSE IF e.t \in {"e_to_s_nd", "s_to_s_nd", "dir_rd_nd"}
    THEN DirApplies(IF dir.sharers = {} THEN NoDir ELSE [dir EXCEPT !.type = "S", !.pend = NoEvent],
                    {ULpp(dir.pend, "nack")}, <<>>)
    ELSE DirApplies([dir EXCEPT !.type = "S", !.pend = NoEvent], {UL(dir.pend, "s_rd")}, <<>>)
DirSharedKeepsPending(e) ==         \* a faulty variant: pending is not cleared
    IF dir.type \notin {"tr_s", "m_s"} THEN DirAborts
    ELSE DirApplies([dir EXCEPT !.type = "S", !.sharers = @ \cup {dir.pend.k}],
                    {UL(dir.pend, "s_rd")}, <<>>)
DirShared(e) ==
    LET p == dir.pend
    IN  IF dir.type \notin {"tr_s", "m_s"} THEN DirAborts
        ELSE IF e.t \in {"e_to_s_nd", "s_to_s_nd", "dir_rd_nd"}
        THEN DirApplies(IF dir.sharers = {} THEN NoDir ELSE [dir EXCEPT !.type = "S", !.pend = NoEvent],
                        {ULpp(p, "nack")}, <<>>)
        ELSE DirApplies([dir EXCEPT !.type = "S", !.sharers = @ \cup {p.k}, !.pend = NoEvent],
                        {UL(p, "s_rd")}, <<>>)

DirHandles(e) ==
    CASE ~e.rep -> DirRequest(e)
      [] e.rep /\ e.t = "evict" -> DirEvict(e)
      [] e.rep /\ e.t \in {"e_to_i", "e_to_m"} -> DirUpgraded(e)
      [] e.rep /\ e.t \in {"invalidate", "invalidate_nd"} -> DirInvalidated(e)
      [] OTHER -> DirShared(e)

DirFromL2(k, i) ==
    /\ ~fatal /\ i \in Servable(todir[k])
    /\ todir' = [todir EXCEPT ![k] = RemoveAt(@, i)]
    /\ DirHandles(todir[k][i])
    /\ UNCHANGED <<l1, l2, up, dn, xbar, out, pre, lost>>

\* An eviction a local L2 passed on leaves the crossbar.
DirFromXbar(k) ==
    /\ ~fatal /\ xbar[k] # <<>>
    /\ xbar' = [xbar EXCEPT ![k] = Tail(@)]
    /\ DirHandles(Head(xbar[k]))
    /\ UNCHANGED <<l1, l2, up, dn, todir, out, pre, lost>>

\* The reads the memory controller may answer next: bank and row conflicts let
\* any of them overtake the others.
MCReady == DOMAIN mc

\* The memory controller answers one of its reads.
DirFromMC(i) ==
    LET e == mc[i]
    IN  /\ ~fatal /\ i \in MCReady
        /\ mc' = RemoveAt(mc, i)
        /\ dir' = CASE dir.type = "tr_e" -> [dir EXCEPT !.type = "E"]
                    [] dir.type = "tr_m" -> [dir EXCEPT !.type = "M"]
                    [] OTHER -> dir
        /\ toL2' = [toL2 EXCEPT ![e.k] =
                      Append(@, ULpp(e, IF dir.type = "tr_m" THEN "write" ELSE "e_rd")[2])]
        /\ UNCHANGED <<l1, l2, up, dn, todir, xbar, out, pre, lost, fatal>>

-----------------------------------------------------------------------------
L1Acts(c) == \/ L1Request(c, "read") \/ L1Request(c, "write")
             \/ L1Prefetch(c) \/ L1Victim(c) \/ L1Reply(c)
L2Acts(k) == \/ L2Victim(k)
             \/ \E i \in DOMAIN toL2[k] : L2FromDir(k, i)
             \/ \E c \in L1s : Parent(c) = k /\ \E i \in DOMAIN dn[c] : L2FromL1(c, i)
DirActs   == \/ \E k \in L2s : DirFromXbar(k) \/ \E i \in DOMAIN todir[k] : DirFromL2(k, i)
             \/ \E i \in DOMAIN mc : DirFromMC(i)

Next == (\E c \in L1s : L1Acts(c)) \/ (\E k \in L2s : L2Acts(k)) \/ DirActs

Spec == Init /\ [][Next]_vars

\* A component with a queued event runs again, and the oldest event of a queue
\* is not overtaken forever: process_event reschedules itself while a queue is
\* not empty, and what passes the event needs a round trip to come again.  The
\* cores owe nothing.
Fairness ==
    /\ \A c \in L1s : WF_vars(L1Reply(c)) /\ WF_vars(L2FromL1(c, 1))
    /\ \A k \in L2s : WF_vars(L2FromDir(k, 1)) /\ WF_vars(DirFromL2(k, 1)) /\ WF_vars(DirFromXbar(k))
    /\ WF_vars(DirFromMC(1))

FairSpec == Spec /\ Fairness

-----------------------------------------------------------------------------
(* What the protocol promises.                                             *)

L2Types == {"I", "tr_s", "tr_m", "tr_i"} \cup Stable

\* The fields of the entries have their types, and a request waits in a pending
\* slot only while its entry is in a state that will release it.
TypeOK ==
    /\ l1 \in [L1s -> {"I"} \cup Stable]
    /\ \A k \in L2s :
        /\ l2[k].type \in L2Types /\ l2[k].l1l2 \in L2Types
        /\ l2[k].sharers \subseteq {c \in L1s : Parent(c) = k}
        /\ l2[k].pend # NoEvent => l2[k].type \in {"M", "tr_s", "tr_i"}
    /\ dir.type \in {"none", "tr_e", "tr_m", "tr_s", "m_s"} \cup Stable
    /\ dir.sharers \subseteq L2s
    /\ dir.pend # NoEvent => dir.type \in {"tr_m", "tr_s", "m_s"}
    /\ out \in [L1s -> 0 .. MaxOut] /\ pre + lost <= MaxOther

\* The L2 caches that have the line, and the stillness in which no event is
\* under way.
Holders == {k \in L2s : l2[k].type # "I"}
Quiet == /\ \A c \in L1s : up[c] = <<>> /\ dn[c] = <<>>
         /\ \A k \in L2s : todir[k] = <<>> /\ toL2[k] = <<>> /\ xbar[k] = <<>>
         /\ mc = <<>>

\* The directory hands a modified line to one L2 only after every other L2 has
\* answered its invalidation: a modified line has no second holder, whatever
\* the interleaving of the three L2s' requests, answers and nacks.
ModifiedAlone == \A k \in L2s : l2[k].type = "M" => Holders = {k}

\* When all events are handled no component waits in a transient state, the
\* directory lists every L2 that has the line, and an L2 every L1 that has it:
\* a later invalidation reaches all copies.
SettlesConsistent ==
    Quiet => /\ dir.type \notin Moving /\ dir.pend = NoEvent
             /\ \A k \in L2s : {l2[k].type, l2[k].l1l2} \cap Moving = {} /\ l2[k].pend = NoEvent
             /\ Holders \subseteq dir.sharers
             /\ \A c \in L1s : l1[c] # "I" => c \in l2[Parent(c)].sharers

\* Every access of a core is answered, with the line or with a nack that lets
\* the core retry: no nack, transient state or pending slot keeps it forever.
Answered == \A c \in L1s : (out[c] > 0) ~> (out[c] = 0)

\* The LOG(FATAL)s, ASSERTXs and null dereferences of the three handlers cannot
\* be reached unless the line has lost its place in a cache.
AbortNeedsEviction == fatal => lost > 0

\* Two L1s, of one L2 or of two, never have the line modified at the same time,
\* and neither do two L2s, as long as the line keeps its place.
OneWriter ==
    lost = 0 => /\ \A c, d \in L1s : l1[c] = "M" /\ l1[d] = "M" => c = d
                /\ \A k, j \in L2s : l2[k].type = "M" /\ l2[j].type = "M" => k = j

\* The places where an access of L1 c waits: queues, L2's and the directory's
\* pending slots and the memory controller.
Where(c) ==
    LET waits(e) == e.c = c /\ ~e.pf /\ e.t \notin {"evict", "evict_nd"}
        in(q)    == {i \in DOMAIN q : waits(q[i])}
    IN  (UNION {{<<d, "up", i>> : i \in in(up[d])} \cup
                {<<d, "dn", i>> : i \in in(dn[d])} : d \in L1s}) \cup
        (UNION {{<<k, "todir", i>> : i \in in(todir[k])} \cup
                {<<k, "toL2", i>> : i \in in(toL2[k])} : k \in L2s}) \cup
        {<<k, "l2", 0>> : k \in {j \in L2s : waits(l2[j].pend)}} \cup
        {<<0, "mc", i>> : i \in in(mc)} \cup
        {<<0, "dir", 0>> : e \in {x \in {dir.pend} : waits(x)}}

\* An access is one LocalQueueElement that is handed on: it is never dropped
\* and never answered twice, even when lines are evicted under it.
NothingLost == ~fatal => \A c \in L1s : out[c] = Cardinality(Where(c))

\* After a write every other L1 has dropped the line, as the coherence test
\* expects.
WriterAlone == Quiet => \A c, d \in L1s : l1[c] = "M" /\ d # c => l1[d] = "I"

=============================================================================
