-------------------------------- MODULE Lanes --------------------------------
(***************************************************************************)
(* What the network on chip promises to caches and directories: for every  *)
(* pair of a port and a destination three lanes, each first in first out,  *)
(* served by urgency (replies before coherence requests before requests).  *)
(* In one cycle a destination takes one message.                           *)
(*                                                                         *)
(* Coherence is written against it: a pair there uses two lanes, so that   *)
(* the message that leaves is the oldest reply or, if there is none, the   *)
(* oldest message, which is what Coherence calls Servable.                 *)
(***************************************************************************)
EXTENDS Naturals, Sequences

CONSTANTS
    Pairs,      \* pairs <<port, destination>>
    Payloads

VARIABLE pipe   \* pipe[p][l]: the messages on lane l of p, oldest first

LaneNames == {"rep", "crq", "req"}
MoreUrgent(l) == IF l = "rep" THEN {} ELSE IF l = "crq" THEN {"rep"} ELSE {"rep", "crq"}

Init == pipe = [p \in Pairs |-> [l \in LaneNames |-> <<>>]]

Send(p, l, x) ==
    /\ pipe'[p] = [pipe[p] EXCEPT ![l] = Append(@, x)]
    /\ \A r \in Pairs \ {p} : pipe'[r] = pipe[r]

\* The lane that a pair serves next.
Servable(p, l) == pipe[p][l] # <<>> /\ \A u \in MoreUrgent(l) : pipe[p][u] = <<>>

\* The oldest message of lane l leaves pair p.
Taken(p, l) == Servable(p, l) /\ pipe'[p] = [pipe[p] EXCEPT ![l] = Tail(@)]

\* One cycle: some pairs lose a message, no two of them to one destination.
Deliver ==
    /\ \A p \in Pairs : pipe'[p] = pipe[p] \/ \E l \in LaneNames : Taken(p, l)
    /\ \A p, r \in Pairs :
          p # r /\ p[2].num = r[2].num => pipe'[p] = pipe[p] \/ pipe'[r] = pipe[r]

Next == /\ DOMAIN pipe' = Pairs
        /\ Deliver \/ \E p \in Pairs, l \in LaneNames, x \in Payloads : Send(p, l, x)

\* A message waits on lane l of p, and nothing more urgent at the same port.
Waiting(p, l) ==
    /\ pipe[p][l] # <<>>
    /\ \A r \in Pairs : r[1] = p[1] => \A u \in MoreUrgent(l) : pipe[r][u] = <<>>

\* No message waits forever, except behind more urgent traffic of its own port
\* that never ends.
Live == \A p \in Pairs, l \in LaneNames :
            []<>~Waiting(p, l) \/ []<><<Taken(p, l)>>_(pipe[p])

Spec == Init /\ [][Next]_pipe
=============================================================================
