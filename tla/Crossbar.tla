------------------------------ MODULE Crossbar ------------------------------
(***************************************************************************)
(* The crossbar between the L2 caches and the directories: PTSXbar.cc, and *)
(* the calls of PTSCache.cc and PTSDirectory.cc that feed it.  L2 i and    *)
(* directory i share port i.  The crossbar is shown to implement Lanes,    *)
(* the delivery the coherence protocol relies on.                          *)
(*                                                                         *)
(* Time: an Add* action is the moment its (aligned) event_time is reached, *)
(* so every order of arrivals that latencies can produce is a behaviour.   *)
(***************************************************************************)
EXTENDS Naturals, Sequences, FiniteSets, SequencesExt

CONSTANTS
    NumPorts,   \* num_ports
    Homes,      \* the directories that own an address (which_mc)
    Flits,      \* num_flits_per_packet of a message with data
    MaxFlits    \* bound: flits in the crossbar

ASSUME CrossbarAssumption ==
    /\ NumPorts \in Nat \ {0}
    /\ Flits \in Nat \ {0} /\ MaxFlits \in Nat

Ports == 0 .. NumPorts - 1
ASSUME HomesAssumption == Homes \subseteq Ports

LanesOf == {"rep", "crq", "req"}
Components == [c : {"l2"}, num : Ports] \cup [c : {"dir"}, num : Homes]

\* An element in the crossbar: the port and the lane it came in on, its
\* destination, whether it carries data, and whether it is one of the dummies
\* that stand for the other flits of its packet.
Elements == [from : Ports, lane : LanesOf, to : Components, data : BOOLEAN, dummy : BOOLEAN]

VARIABLES
    events,     \* arrived and not yet seen, in order of arrival: rep_events,
                \* crq_events and req_events are events["rep"] and so on
    queues,     \* queues[i]: port i's multimap, most urgent first
    clockwise,
    top_priority,
    scheduled   \* the global event queue holds an event for the crossbar

vars == <<events, queues, clockwise, top_priority, scheduled>>

Init ==
    /\ events = [l \in LanesOf |-> <<>>]
    /\ queues = [i \in Ports |-> <<>>]
    /\ clockwise = TRUE /\ top_priority = 0
    /\ scheduled = FALSE

-----------------------------------------------------------------------------
(* add_req_event, add_crq_event, add_rep_event.                            *)

L2(i)  == [c |-> "l2", num |-> i]
Dir(i) == [c |-> "dir", num |-> i]

Inside == Len(events["rep"]) + Len(events["crq"]) + Len(events["req"])
          + FoldLeft(LAMBDA n, i : n + Len(queues[i - 1]), 0, [i \in 1 .. NumPorts |-> i])

\* The events of one message: dummies first, then the element itself.
Packet(i, lane, to, data) ==
    LET n == IF data THEN Flits ELSE 1
    IN  [k \in 1 .. n |-> [from |-> i, lane |-> lane, to |-> to, data |-> data, dummy |-> k # n]]

\* Port i sends a message.
Add(i, lane, to, data) ==
    LET p == Packet(i, lane, to, data)
    IN  /\ Inside + Len(p) <= MaxFlits
        /\ events' = [events EXCEPT ![lane] = @ \o p]
        /\ scheduled' = TRUE
        /\ UNCHANGED <<queues, clockwise, top_priority>>

\* CacheL2::process_event: a miss of a line whose home is another directory.
AddReq(i, d) == d # i /\ Add(i, "req", Dir(d), FALSE)

\* Directory::add_event_to_UL: an order or an answer to a remote L2.
AddCrq(i, k, data) == k # i /\ Add(i, "crq", L2(k), data)

\* Directory::add_event_to_ULpp: to a remote L2.
AddRepL2(i, k, data) == k # i /\ Add(i, "rep", L2(k), data)

\* CacheL2::add_event_to_LL: to a remote directory, and to the local one when an
\* L1 has evicted a line that its L2 no longer holds: the element has the L2 on
\* top of its stack, not the directory, and goes out with its data.
AddRepDir(i, d, data) == (d # i \/ data) /\ Add(i, "rep", Dir(d), data)

-----------------------------------------------------------------------------
(* Crossbar::process_event.                                                *)

\* The elements of s that are in S, in their order.
Keep(s, S) ==
    LET f[k \in 0 .. Len(s)] == IF k = 0 THEN <<>>
                                ELSE IF s[k] \in S THEN Append(f[k - 1], s[k]) ELSE f[k - 1]
    IN  f[Len(s)]

\* The elements of port i on lane l.
Own(i, l) == {e \in Elements : e.from = i /\ e.lane = l}

FilledNewestFirst(i) ==             \* a faulty variant: inserts before equals
    Keep(events["rep"] \o queues[i], Own(i, "rep")) \o
    Keep(events["crq"] \o queues[i], Own(i, "crq")) \o
    Keep(events["req"] \o queues[i], Own(i, "req"))
\* multimap::insert keeps the order of insertion among equal priorities.
Filled(i) ==
    Keep(queues[i] \o events["rep"], Own(i, "rep")) \o
    Keep(queues[i] \o events["crq"], Own(i, "crq")) \o
    Keep(queues[i] \o events["req"], Own(i, "req"))

\* The ports in the order of this cycle.
Order == [n \in 1 .. NumPorts |->
            (IF clockwise THEN top_priority + NumPorts + (n - 1)
                          ELSE top_priority + NumPorts - (n - 1)) % NumPorts]

\* The element at position pos of port i leaves unless its destination has
\* been served: x.q are the queues, x.sent is already_sent.
Attempt(x, i, pos) ==
    IF pos \in DOMAIN x.q[i] /\ x.q[i][pos].to.num \notin x.sent
    THEN [q    |-> [x.q EXCEPT ![i] = RemoveAt(@, pos)],
          sent |-> x.sent \cup {x.q[i][pos].to.num}]
    ELSE x

\* Two looks per port: the first element, then the one behind it (or the new
\* first one).
ServePort(x, i) ==
    LET y == Attempt(x, i, 1) IN Attempt(y, i, IF y = x THEN 2 ELSE 1)

\* The queues after the cycle.
Dispatched ==
    LET x[n \in 0 .. NumPorts] ==
            IF n = 0 THEN [q |-> [i \in Ports |-> Filled(i)], sent |-> {}]
                     ELSE ServePort(x[n - 1], Order[n])
    IN  x[NumPorts].q

TokenStuck ==                       \* a faulty variant: the token stays
    /\ clockwise' = ~clockwise
    /\ UNCHANGED top_priority
MoveToken ==
    /\ clockwise' = ~clockwise
    /\ top_priority' = IF clockwise THEN top_priority ELSE (top_priority + 1) % NumPorts

ProcessEvent ==
    /\ scheduled
    /\ queues' = Dispatched
    /\ events' = [l \in LanesOf |-> <<>>]
    /\ MoveToken
    /\ scheduled' = \E i \in Ports : queues'[i] # <<>>

Next ==
    \/ ProcessEvent
    \/ \E i \in Ports :
        \/ \E d \in Homes : AddReq(i, d)
        \/ \E d \in Homes, data \in BOOLEAN : AddRepDir(i, d, data)
        \/ i \in Homes /\ \E k \in Ports, data \in BOOLEAN :
              AddCrq(i, k, data) \/ AddRepL2(i, k, data)

Spec == Init /\ [][Next]_vars
\* The event queue runs every event it holds: weak fairness of ProcessEvent,
\* written out because ProcessEvent is enabled exactly when scheduled is TRUE.
\* Nothing is assumed of the senders.
Fairness == []<>~scheduled \/ []<><<ProcessEvent>>_vars
FairSpec == Spec /\ Fairness

-----------------------------------------------------------------------------
(* The refinement.                                                         *)

\* L2s send to directories, their own included; directories to the other L2s.
Routes == {p \in Ports \X Components : p[2].c = "l2" => p[1] \in Homes /\ p[2].num # p[1]}

\* The elements that are a message of port i for destination to on lane l.
Real(i, to, l) == {e \in Own(i, l) : e.to = to /\ ~e.dummy}

DataOf(s) == [n \in DOMAIN s |-> s[n].data]

\* What port i holds for destination to on lane l, arrived or queued, without
\* the dummies.
Held(i, to, l) == DataOf(Keep(queues[i] \o events[l], Real(i, to, l)))

Pipe == [p \in Routes |-> [l \in LanesOf |-> Held(p[1], p[2], l)]]

Pipes == INSTANCE Lanes WITH
            Pairs <- Routes,
            Payloads <- BOOLEAN,
            pipe <- Pipe

\* The crossbar implements Lanes: no message is lost, duplicated or misdirected
\* and none overtakes another of its lane, whatever arrives in whatever order,
\* and a destination gets one message per cycle (process_event's priority
\* multimaps, its two looks per port and already_sent).
ImplementsLanes == Pipes!Spec

\* The rotating token is fair: under unending traffic a message leaves, unless
\* more urgent traffic of its own port never ends; and process_event schedules
\* itself as long as something is queued.
NoStarvation == Pipes!Live

=============================================================================
