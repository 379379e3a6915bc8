-------------------------- MODULE MemoryController --------------------------
(***************************************************************************)
(* One memory controller of the timing simulator with its DRAM banks:      *)
(* PTSMemoryController.cc.  Every cycle it picks one request of its window *)
(* and takes one step for it: open a row, close one, or move the data.     *)
(*                                                                         *)
(* Times are relative to the current cycle, in units of process_interval:  *)
(* 0 is now.  A time so old that no constraint refers to it any more stops *)
(* growing older.  An address is its bank (with the rank), and page.       *)
(***************************************************************************)
EXTENDS Integers, Sequences, FiniteSets, FiniteSetsExt, SequencesExt

CONSTANTS
    Banks, Rank,        \* the banks of all ranks, and the rank of each
    tRCD, tRR, tRP, tCL, tBL, tBBL, tRAS, tWRBUB, tRWBUB, tRRBUB, tWTR,
    Window,             \* req_window_sz
    Configs,            \* [policy, par_bs, full_duplex] of the configurations
    Threads,
    Reqs,               \* what may arrive: [bank, page, type, th]
    MaxReqs             \* bound: how many arrive

Ranks  == {Rank[b] : b \in Banks}
Reads  == {"read", "s_rd"}                  \* and e_rd, rd_dir_info_*
Writes == {"evict", "s_rd_wr"}              \* and dir_evict
Column == {"read", "write"}

\* With tWRBUB or tRWBUB above tCL the controller would have dropped the slots
\* that the bubbles are looked for in.
ASSUME ControllerAssumption ==
    /\ {tRCD, tRR, tRP, tCL, tBL, tBBL, tRAS, tWRBUB, tRWBUB, tRRBUB, tWTR, MaxReqs} \subseteq Nat
    /\ tWRBUB <= tCL /\ tRWBUB <= tCL /\ tBL > 0 /\ Window \in Nat \ {0}
    /\ Configs \subseteq [policy : {"open", "closed"}, par_bs : BOOLEAN, full_duplex : BOOLEAN]
    /\ Reqs \subseteq [bank : Banks, page : Nat, type : Reads \cup Writes, th : Threads]

VARIABLES
    config,
    req_event,          \* requests that arrive in this cycle
    scheduled,          \* the event queue holds an event for this cycle
    req_l,              \* the mark of a request is history: it belongs to the batch
    curr_batch_last, num_req_from_a_th,
    bank_status,        \* [action_type, action_time, page_num, last_activate_time]
    last_activate_time, last_write_time, last_read_time, last_read_time_rank,
    dp_status,          \* busy slots of the data path: [at, kind]
    owed,               \* answers each thread waits for
    arrived,
    log                 \* history: the recent commands on the DRAM's pins

vars == <<config, req_event, scheduled, req_l, curr_batch_last, num_req_from_a_th, bank_status,
          last_activate_time, last_write_time, last_read_time, last_read_time_rank, dp_status,
          owed, arrived, log>>

Init ==
    /\ config \in Configs
    /\ req_event = <<>> /\ scheduled = FALSE /\ req_l = <<>> /\ arrived = 0
    /\ curr_batch_last = -1 /\ num_req_from_a_th = [h \in Threads |-> 0]
    /\ bank_status = [b \in Banks |-> [action_type |-> "idle", action_time |-> 0, page_num |-> 0,
                                       last_activate_time |-> 0]]
    /\ last_activate_time = [r \in Ranks |-> 0] /\ last_write_time = [r \in Ranks |-> 0]
    /\ last_read_time = [rank |-> 0, at |-> 0] /\ last_read_time_rank = [r \in Ranks |-> 0]
    /\ dp_status = {} /\ owed = [h \in Threads |-> 0] /\ log = <<>>

-----------------------------------------------------------------------------
(* Arrival and batches.  x is the controller's state during process_event: *)
(* q, last, n, bank, act, wr, rd, rdrank, dp, owed and log.                *)

Answered(r) == r.type # "evict"             \* evictions are deleted, not answered

\* The requests of a thread in a queue, and those of them it waits for.
From(q, h)   == {i \in DOMAIN q : q[i].th = h}
Waited(q, h) == {i \in DOMAIN q : q[i].th = h /\ Answered(q[i])}

\* add_req_event, add_rep_event: a message is under way for at least a cycle, so
\* it does not arrive in a cycle that is over.
Arrive(r) ==
    /\ arrived < MaxReqs /\ arrived' = arrived + 1
    /\ req_event' = Append(req_event, r) /\ scheduled' = TRUE
    /\ owed' = [owed EXCEPT ![r.th] = @ + (IF Answered(r) THEN 1 ELSE 0)]
    /\ UNCHANGED <<config, req_l, curr_batch_last, num_req_from_a_th, bank_status,
                   last_activate_time, last_write_time, last_read_time, last_read_time_rank,
                   dp_status, log>>

\* The batch that PAR-BS means: when no request of the last one is left, all
\* that are in the window now.
Mark(q) ==
    IF config.par_bs /\ \A i \in DOMAIN q : ~q[i].mark
    THEN [i \in DOMAIN q |-> [q[i] EXCEPT !.mark = i <= Window]] ELSE q

State ==
    [q |-> req_l, last |-> curr_batch_last, n |-> num_req_from_a_th, bank |-> bank_status,
     act |-> last_activate_time, wr |-> last_write_time, rd |-> last_read_time,
     rdrank |-> last_read_time_rank, dp |-> dp_status, owed |-> owed, log |-> log]

PreProcessing(x) ==
    LET new == [i \in DOMAIN req_event |->
                  LET r == req_event[i]
                  IN  [bank |-> r.bank, page |-> r.page, type |-> r.type, th |-> r.th, mark |-> FALSE]]
        q == Mark(x.q \o new)
        n == [h \in Threads |-> x.n[h] + Cardinality(From(req_event, h))]
    IN  [x EXCEPT !.q = q,
                  !.n = IF config.par_bs THEN n ELSE @,
                  !.last = IF config.par_bs /\ @ = -1 /\ q # <<>> THEN Min({Len(q), Window}) - 1
                           ELSE @]

-----------------------------------------------------------------------------
(* What could be done for a request this cycle.                            *)

RowOf(r)   == <<r.bank, r.page>>
OpenRow(x, b) == <<b, x.bank[b].page_num>>
RankFree(x, b) == x.act[Rank[b]] + tRR <= 0

\* The bank has no row open and may open one.
Closed(x, b) ==
    LET k == x.bank[b]
    IN  /\ k.action_time <= 0
        /\ k.action_type = "idle" \/ (k.action_type = "precharge" /\ k.action_time + tRP <= 0)

\* The bank has a row open and takes a command.
Opened(x, b) ==
    LET k == x.bank[b]
    IN  /\ k.action_type \in {"activate", "read", "write"}
        /\ k.action_type = "activate" => k.action_time + tRCD <= 0
        /\ k.action_time + tBBL <= 0

\* No other request wants the row that is open: of the batch for a request of
\* the batch, else of the window.
RowUnwanted(x, i) ==
    \A j \in DOMAIN x.q :
        /\ j # i /\ j <= Window
        /\ i - 1 <= x.last => j - 1 <= x.last
        => RowOf(x.q[j]) # OpenRow(x, x.q[i].bank)

\* The data path is free for a burst of this kind and every bubble is kept.
Slots(x, kind) == {s \in x.dp : config.full_duplex => s.kind = kind}
PathFree(x, kind) == \A s \in Slots(x, kind) : s.at < tCL \/ s.at >= tCL + tBL
NoneWithinLess(x, kind, bubble) ==      \* a faulty variant: one slot too few
    config.full_duplex \/ \A s \in x.dp : s.kind = kind => s.at <= tCL - bubble \/ s.at >= tCL
NoneWithin(x, kind, bubble) ==
    config.full_duplex \/ \A s \in x.dp : s.kind = kind => s.at < tCL - bubble \/ s.at >= tCL

ReadMayGo(x, rank) ==
    /\ PathFree(x, "read") /\ NoneWithin(x, "write", tWRBUB)
    /\ tWTR > 0 => x.wr[rank] + tWTR <= 0
    /\ x.rd.rank # rank => x.rd.at + tRRBUB <= 0
WriteMayGo(x, rank) ==
    /\ PathFree(x, "write") /\ NoneWithin(x, "read", tRWBUB)
    /\ x.rdrank[rank] + tRWBUB <= 0

\* The step that request i allows.
Move(x, i) ==
    LET r == x.q[i]
        b == r.bank
    IN  CASE Closed(x, b) /\ RankFree(x, b) -> "activate"
          [] Opened(x, b) /\ RowOf(r) # OpenRow(x, b) /\ config.policy = "open"
             /\ RowUnwanted(x, i) /\ RankFree(x, b) -> "precharge"
          [] Opened(x, b) /\ RowOf(r) = OpenRow(x, b)
             /\ (IF r.type \in Reads THEN ReadMayGo(x, Rank[b]) ELSE WriteMayGo(x, Rank[b])) -> "column"
          [] OTHER -> "none"

\* The choice: of the batch if any of its requests can move, else the first that
\* can; row hits before others; then the thread with fewest requests; then age.
Candidates(x) ==
    LET can   == {i \in DOMAIN x.q : i <= Window /\ Move(x, i) # "none"}
        batch == {i \in can : i - 1 <= x.last}
    IN  IF batch # {} THEN batch ELSE IF can # {} THEN {Min(can)} ELSE {}
Choice(x) ==
    LET hits == {i \in Candidates(x) : Move(x, i) = "column"}
        best == IF hits # {} THEN hits ELSE Candidates(x)
        n(i) == x.n[x.q[i].th]
    IN  CHOOSE i \in best : \A j \in best : n(i) < n(j) \/ (n(i) = n(j) /\ i <= j)

-----------------------------------------------------------------------------
(* Doing it.                                                               *)

Command(x, cmd, b, page, at) ==
    [x EXCEPT !.log = Append(@, [cmd |-> cmd, bank |-> b, page |-> page, at |-> at])]

Activate(x, r) ==
    Command([x EXCEPT !.bank[r.bank] = [action_type |-> "activate", action_time |-> 0,
                                        page_num |-> r.page, last_activate_time |-> 0],
                      !.act[Rank[r.bank]] = 0], "activate", r.bank, r.page, 0)

\* The earliest moment the open row may be closed.
RowEndNow(x, b) == 0                    \* a faulty variant: forgets tRAS
RowEnd(x, b) == Max({0, tRAS + x.bank[b].last_activate_time})
Precharge(x, b) ==
    Command([x EXCEPT !.bank[b].action_time = tRP + RowEnd(x, b),
                      !.bank[b].action_type = "precharge"],
            "precharge", b, x.bank[b].page_num, RowEnd(x, b))

\* The burst: slots of the data path, last times, and the answer if there is one.
Burst(x, r) ==
    LET kind == IF r.type \in Reads THEN "read" ELSE "write"
        rank == Rank[r.bank]
        y == [x EXCEPT !.dp = @ \cup {[at |-> tCL + j, kind |-> kind] : j \in 0 .. tBL - 1},
                       !.bank[r.bank].action_time = 0,
                       !.n[r.th] = IF config.par_bs THEN @ - 1 ELSE @,
                       !.owed[r.th] = IF Answered(r) THEN @ - 1 ELSE @]
        z == IF kind = "read"
             THEN [y EXCEPT !.rd = [rank |-> rank, at |-> 0], !.rdrank[rank] = tCL + tBL]
             ELSE [y EXCEPT !.wr[rank] = tCL + tBL]
    IN  Command(z, kind, r.bank, r.page, 0)

\* The row stays open (policy open, or a later request of the window wants it;
\* then not before tRAS) or is closed behind the burst.
CloseOrKeepBank(x, i) ==                \* a faulty variant: looks at the bank, not the row
    LET r == x.q[i]
        kind == IF r.type \in Reads THEN "read" ELSE "write"
        wanted == \E j \in DOMAIN x.q : i < j /\ j <= Window /\ x.q[j].bank = r.bank
    IN  IF config.policy = "open" THEN [x EXCEPT !.bank[r.bank].action_type = kind]
        ELSE IF wanted THEN [x EXCEPT !.bank[r.bank].action_type = kind,
                                      !.bank[r.bank].action_time = RowEnd(x, r.bank)]
        ELSE Precharge(x, r.bank)
CloseOrKeep(x, i) ==
    LET r == x.q[i]
        kind == IF r.type \in Reads THEN "read" ELSE "write"
        wanted == \E j \in DOMAIN x.q : i < j /\ j <= Window /\ RowOf(x.q[j]) = RowOf(r)
    IN  IF config.policy = "open" THEN [x EXCEPT !.bank[r.bank].action_type = kind]
        ELSE IF wanted THEN [x EXCEPT !.bank[r.bank].action_type = kind,
                                      !.bank[r.bank].action_time = RowEnd(x, r.bank)]
        ELSE Precharge(x, r.bank)

\* Request i leaves: curr_batch_last follows, or begins the next batch.
LeaveBehind(x, i) ==                    \* a faulty variant: only the last of a batch counts
    [x EXCEPT !.q = Mark(RemoveAt(@, i)),
              !.last = CASE ~config.par_bs -> @
                         [] config.par_bs /\ @ = i - 1 /\ i = 1 -> Min({Window - 1, Len(x.q) - 2})
                         [] config.par_bs /\ @ = i - 1 /\ i > 1 -> @ - 1
                         [] OTHER -> @]
Leave(x, i) ==
    [x EXCEPT !.q = Mark(RemoveAt(@, i)),
              !.last = CASE ~config.par_bs -> @
                         [] config.par_bs /\ @ = i - 1 /\ i = 1 -> Min({Window - 1, Len(x.q) - 2})
                         [] config.par_bs /\ (@ > i - 1 \/ (@ = i - 1 /\ i > 1)) -> @ - 1
                         [] OTHER -> @]

Step(x) ==
    IF Candidates(x) = {} THEN x
    ELSE LET i == Choice(x)
             r == x.q[i]
         IN  CASE Move(x, i) = "activate"  -> Activate(x, r)
               [] Move(x, i) = "precharge" -> Precharge(x, r.bank)
               [] Move(x, i) = "column"    -> Leave(CloseOrKeep(Burst(x, r), i), i)

-----------------------------------------------------------------------------
(* Time.                                                                   *)

Older(t, limit) == IF t > -limit THEN t - 1 ELSE t
Horizon == Max({tRAS + tRP, tRCD, tRR, tCL + tBL + tWTR, tCL + tBL + tWRBUB, tBL + tRWBUB})

NextCycle(x) ==
    LET old    == {i \in DOMAIN x.log : \A j \in 1 .. i : x.log[j].at <= -Horizon}
        recent == SubSeq(x.log, Cardinality(old) + 1, Len(x.log))
    IN  [x EXCEPT
          !.bank = [b \in Banks |-> [x.bank[b] EXCEPT !.action_time = Older(@, Max({tRCD, tRP, tBBL})),
                                                      !.last_activate_time = Older(@, tRAS)]],
          !.act = [r \in Ranks |-> Older(x.act[r], tRR)],
          !.wr = [r \in Ranks |-> Older(x.wr[r], tWTR)],
          !.rd = [x.rd EXCEPT !.at = Older(@, tRRBUB)],
          !.rdrank = [r \in Ranks |-> Older(x.rdrank[r], tRWBUB)],
          !.dp = {[s EXCEPT !.at = @ - 1] : s \in {u \in x.dp : u.at > 0}},
          !.log = [i \in DOMAIN recent |-> [recent[i] EXCEPT !.at = @ - 1]]]

Becomes(x) ==
    /\ req_l' = x.q /\ curr_batch_last' = x.last /\ num_req_from_a_th' = x.n /\ owed' = x.owed
    /\ bank_status' = x.bank /\ last_activate_time' = x.act /\ last_write_time' = x.wr
    /\ last_read_time' = x.rd /\ last_read_time_rank' = x.rdrank
    /\ dp_status' = x.dp /\ log' = x.log

Processed == NextCycle(Step(PreProcessing(State)))

ProcessEvent ==
    /\ scheduled
    /\ Becomes(Processed)
    /\ req_event' = <<>> /\ scheduled' = (req_l' # <<>>)
    /\ UNCHANGED <<config, arrived>>

\* A cycle in which the event queue has nothing for the controller.
Idle ==
    /\ ~scheduled /\ Becomes(NextCycle(State))
    /\ UNCHANGED <<config, req_event, scheduled, arrived>>

Next == ProcessEvent \/ Idle \/ \E r \in Reqs : Arrive(r)

Spec == Init /\ [][Next]_vars

\* The event queue runs what it holds: weak fairness of ProcessEvent, written
\* out with the condition under which it changes the state.
FairSpec ==
    Spec /\ (\/ []<>(~scheduled \/ (req_event = <<>> /\ req_l # <<>> /\ Processed = State))
             \/ []<><<ProcessEvent>>_vars)

-----------------------------------------------------------------------------
\* The bookkeeping is right whatever is served, in and out of order, from the
\* batch and from behind it: the requests up to curr_batch_last are exactly the
\* ones of the batch that are left, PAR-BS knows how many requests each thread
\* has, and a thread waits for the answers of its requests that are here.
Bookkeeping ==
    /\ \A i \in DOMAIN req_l : req_l[i].mark <=> i - 1 <= curr_batch_last
    /\ \A h \in Threads :
        /\ config.par_bs => num_req_from_a_th[h] = Cardinality(From(req_l, h))
        /\ owed[h] = Cardinality(Waited(req_l, h)) + Cardinality(Waited(req_event, h))

\* What the DRAM sees obeys its timing: in a bank rows are opened and closed
\* alternately, data moves only in the row that is open and tRCD after it was
\* opened, a row stays open for tRAS and is closed for tRP; two rows of a rank
\* are opened tRR apart.
DramProtocol ==
    \A i, j \in DOMAIN log : LET c == log[i]  d == log[j]
                                 between == {log[k].cmd : k \in {m \in i + 1 .. j - 1 : log[m].bank = c.bank}}
                             IN
        /\ i < j /\ c.bank = d.bank =>
             CASE c.cmd = "activate" /\ d.cmd \in Column ->
                    d.at - c.at >= tRCD /\ ("precharge" \notin between => d.page = c.page)
               [] c.cmd = "activate" /\ d.cmd = "precharge" -> d.at - c.at >= tRAS
               [] c.cmd = "precharge" /\ d.cmd = "activate" -> d.at - c.at >= tRP
               [] c.cmd = "activate" /\ d.cmd = "activate" -> "precharge" \in between
               [] c.cmd = "precharge" /\ d.cmd \in Column -> "activate" \in between
               [] c.cmd \in Column /\ d.cmd = "activate" -> "precharge" \in between
               [] OTHER -> TRUE
        /\ i < j /\ c.cmd = "activate" /\ d.cmd = "activate" /\ Rank[c.bank] = Rank[d.bank] =>
             d.at - c.at >= tRR

\* Bursts do not overlap on the data path, and between a read and a write the
\* path is empty for the bubble; in a rank a read command waits tWTR, if there is
\* one, after the end of a write.
BusTurnaround ==
    \A i, j \in DOMAIN log : LET c == log[i]  d == log[j]  end == c.at + tCL + tBL IN
        i < j /\ {c.cmd, d.cmd} \subseteq Column =>
            /\ ~config.full_duplex \/ c.cmd = d.cmd => d.at + tCL >= end
            /\ ~config.full_duplex /\ c.cmd = "write" /\ d.cmd = "read" => d.at + tCL >= end + tWRBUB
            /\ ~config.full_duplex /\ c.cmd = "read" /\ d.cmd = "write" => d.at + tCL >= end + tRWBUB
            /\ tWTR > 0 /\ c.cmd = "write" /\ d.cmd = "read" /\ Rank[c.bank] = Rank[d.bank] =>
                 d.at >= end + tWTR

\* Every request is served in the end: no row stays open for nobody, and none is
\* closed over and over.
Serves == (req_l # <<>> \/ req_event # <<>>) ~> (req_l = <<>> /\ req_event = <<>>)

=============================================================================
