------------------------------ MODULE MCO3Core ------------------------------
(* An instance of O3Core: a small instruction set for TLC.                 *)
EXTENDS O3Core

Ins(kind, line, rr, rw, mem, miss) ==
    [kind |-> kind, line |-> line, rr |-> rr, rw |-> rw, mem |-> mem, miss |-> miss]
Rd(a) == [addr |-> a, isread |-> TRUE]
Wr(a) == [addr |-> a, isread |-> FALSE]

\* An instruction with three accesses, one word twice; what uses its result: a
\* mispredicted branch on another line and an x87 instruction; a wait, whose ip
\* is 0 as that of every synchronisation instruction.
SmallInstrs == {
    Ins("plain", 1, {}, {1}, <<Rd(1), Rd(2), Wr(1)>>, FALSE),
    Ins("plain", 2, {1}, {}, <<>>, TRUE),
    Ins("x87", 1, {1}, {1}, <<>>, FALSE),
    Ins("waitfor", 0, {}, {}, <<>>, FALSE)}
=============================================================================
