----------------------------- MODULE RemoteCall -----------------------------
(***************************************************************************)
(* What a frontend's handlers take the channel for: a procedure call.  A   *)
(* request that is posted is served exactly once and then returns; the     *)
(* caller makes no second request before that, and its process may end.    *)
(***************************************************************************)
VARIABLE stage      \* "free", "asked", "served" or "over"

Init == stage = "free"

Ask    == stage = "free"   /\ stage' = "asked"
Serve  == stage = "asked"  /\ stage' = "served"
Return == stage = "served" /\ stage' = "free"
End    == stage' = "over"

Next == Ask \/ Serve \/ Return \/ End
Spec == Init /\ [][Next]_stage
=============================================================================
