---------------------------- MODULE O3CoreProofs ----------------------------
(***************************************************************************)
(* Proofs about the out-of-order core: its types, the match of slots and   *)
(* requests, execution in the order of dependence, and no lost wakeup, for *)
(* every buffer size, width, latency and instruction mix.                  *)
(*                                                                         *)
(* The loops of process_event are recursive functions; the first part      *)
(* turns each of them into an induction over its rounds.  The second part  *)
(* states the inductive invariant on the record process_event works on,    *)
(* the third follows the five loops through it, the last the actions.      *)
(***************************************************************************)
EXTENDS O3Core, FiniteSetTheorems, WellFoundedInduction, TLAPS

\* A set of numbers that is not empty has a least element.
LEMMA NatMin ==
    ASSUME NEW S, S \subseteq Nat, S # {}
    PROVE  \E x \in S : \A y \in S : x <= y
<1>1. PICK x \in S : \A y \in S : ~ (<<y, x>> \in OpToRel(<, Nat))
  BY NatLessThanWellFounded, WFMin
<1>2. \A y \in S : x <= y
  <2> TAKE y \in S
  <2>1. x \in Nat /\ y \in Nat
    BY <1>1
  <2>2. y < x => <<y, x>> \in OpToRel(<, Nat)
    BY <2>1 DEF OpToRel
  <2>3. ~(y < x)
    BY <1>1, <2>2, Zenon
  <2> QED
    BY <2>1, <2>3
<1> QED
  BY <1>2

\* Induction over the rounds of a loop of n rounds.
LEMMA Rounds ==
    ASSUME NEW n \in Nat, NEW K, 0 \in K, \A k \in 0 .. n - 1 : k \in K => k + 1 \in K
    PROVE  0 .. n \subseteq K
<1> DEFINE B == {k \in 0 .. n : k \notin K}
<1>1. SUFFICES B = {}
  OBVIOUS
<1>2. SUFFICES ASSUME B # {} PROVE FALSE
  OBVIOUS
<1>3. PICK b \in B : \A c \in B : b <= c
  <2>1. B \subseteq Nat
    OBVIOUS
  <2> HIDE DEF B
  <2> QED
    BY <1>2, <2>1, NatMin
<1>4. b \in 0 .. n /\ b \notin K /\ b # 0
  BY <1>3
<1>5. b - 1 \in 0 .. n - 1 /\ b - 1 \notin B
  BY <1>3, <1>4
<1>6. b - 1 \in K /\ b = (b - 1) + 1
  BY <1>4, <1>5
<1> QED
  BY <1>4, <1>5, <1>6

\* A function of k rounds of a loop with state x, whose round of index i makes
\* g[<<y, i>>] of y.
Run(f, x, g, k) == f = [i \in 0 .. k |-> IF i = 0 THEN x ELSE g[<<f[i - 1], i - 1>>]]

\* There is such a function, whatever the rounds do.
LEMMA RunExists ==
    ASSUME NEW n \in Nat, NEW x, NEW g
    PROVE  \E f : Run(f, x, g, n)
<1> DEFINE K == {k \in 0 .. n : \E f : Run(f, x, g, k)}
<1>1. 0 \in K
  <2> DEFINE f0 == [i \in 0 .. 0 |-> x]
  <2>1. f0 = [i \in 0 .. 0 |-> IF i = 0 THEN x ELSE g[<<f0[i - 1], i - 1>>]]
    OBVIOUS
  <2>2. Run(f0, x, g, 0)
    BY <2>1 DEF Run
  <2> HIDE DEF f0
  <2> QED
    BY <2>2
<1>2. \A k \in 0 .. n - 1 : k \in K => k + 1 \in K
  <2> SUFFICES ASSUME NEW k \in 0 .. n - 1, k \in K PROVE \E h : Run(h, x, g, k + 1)
    OBVIOUS
  <2>1. PICK f : Run(f, x, g, k)
    OBVIOUS
  <2> DEFINE h == [i \in 0 .. k + 1 |-> IF i = k + 1 THEN g[<<f[k], k>>] ELSE f[i]]
  <2>2. \A i \in 0 .. k : h[i] = f[i]
    OBVIOUS
  <2>3. \A i \in 0 .. k : f[i] = IF i = 0 THEN x ELSE g[<<f[i - 1], i - 1>>]
    BY <2>1 DEF Run
  <2>4. \A i \in 0 .. k + 1 : h[i] = IF i = 0 THEN x ELSE g[<<h[i - 1], i - 1>>]
    <3> TAKE i \in 0 .. k + 1
    <3>1. CASE i = 0
      <4>1. 0 \in 0 .. k
        OBVIOUS
      <4>2. f[0] = x
        BY <4>1, <2>3
      <4>3. h[0] = f[0]
        BY <4>1, <2>2
      <4> HIDE DEF h
      <4> QED
        BY <3>1, <4>2, <4>3
    <3>2. CASE i = k + 1
      <4>1. h[i] = g[<<f[k], k>>] /\ h[i - 1] = f[k] /\ i - 1 = k /\ i # 0
        BY <3>2
      <4> QED
        BY <4>1
    <3>3. CASE i \in 1 .. k
      <4>1. h[i] = f[i] /\ h[i - 1] = f[i - 1] /\ i # 0
        <5>1. i \in 0 .. k /\ i - 1 \in 0 .. k /\ i # 0
          BY <3>3
        <5> QED
          BY <5>1, <2>2
      <4>2. f[i] = g[<<f[i - 1], i - 1>>]
        BY <3>3, <2>3
      <4> HIDE DEF h
      <4> QED
        BY <4>1, <4>2
    <3> QED
      BY <3>1, <3>2, <3>3
  <2>5. h = [i \in 0 .. k + 1 |-> h[i]]
    OBVIOUS
  <2> HIDE DEF h
  <2>6. h = [i \in 0 .. k + 1 |-> IF i = 0 THEN x ELSE g[<<h[i - 1], i - 1>>]]
    BY <2>4, <2>5
  <2> QED
    BY <2>6 DEF Run
<1> HIDE DEF K
<1>3. 0 .. n \subseteq K
  BY <1>1, <1>2, Rounds
<1> QED
  BY <1>3 DEF K

\* What is in T before a loop and is kept in T by its rounds is in T throughout.
LEMMA RunStays ==
    ASSUME NEW n \in Nat, NEW x, NEW T, NEW h, <<x, 0>> \in T, h[0] = x,
           \A k \in 0 .. n - 1 : <<h[k], k>> \in T => <<h[k + 1], k + 1>> \in T
    PROVE  \A k \in 0 .. n : <<h[k], k>> \in T
<1> DEFINE K == {k \in 0 .. n : <<h[k], k>> \in T}
<1>1. 0 \in K
  OBVIOUS
<1>2. \A k \in 0 .. n - 1 : k \in K => k + 1 \in K
  OBVIOUS
<1>3. 0 .. n \subseteq K
  <2> HIDE DEF K
  <2> QED
    BY <1>1, <1>2, Rounds
<1> QED
  BY <1>3

\* The loops of process_event: what their rounds keep in T is in T at their end.
LEMMA IssueLoop ==
    ASSUME NEW x, NEW T, <<x, 0>> \in T, IssueWidth \in Nat,
           \A y : \A k \in 0 .. IssueWidth - 1 : <<y, k>> \in T => <<IssueOne(y, k), k + 1>> \in T
    PROVE  <<Issue(x), IssueWidth>> \in T
<1> DEFINE n == IssueWidth
           g == [p \in T |-> IssueOne(p[1], p[2])]
           Step(f) == f = [k \in 0 .. n |-> IF k = 0 THEN x ELSE IssueOne(f[k - 1], k - 1)]
<1>1. PICK f : Run(f, x, g, n)
  BY RunExists
<1>2. \A k \in 0 .. n : f[k] = IF k = 0 THEN x ELSE g[<<f[k - 1], k - 1>>]
  BY <1>1 DEF Run
<1>3. f[0] = x
  <2>1. 0 \in 0 .. n
    OBVIOUS
  <2> HIDE DEF g
  <2> QED
    BY <2>1, <1>2
<1>4. \A k \in 0 .. n - 1 : f[k + 1] = g[<<f[k], k>>]
  <2> SUFFICES ASSUME NEW k \in 0 .. n - 1 PROVE f[k + 1] = g[<<f[k], k>>]
    OBVIOUS
  <2>1. k + 1 \in 0 .. n /\ k + 1 # 0 /\ (k + 1) - 1 = k
    OBVIOUS
  <2> HIDE DEF g
  <2> QED
    BY <2>1, <1>2
<1>5. \A k \in 0 .. n - 1 : <<f[k], k>> \in T => <<f[k + 1], k + 1>> \in T
  <2> SUFFICES ASSUME NEW k \in 0 .. n - 1, <<f[k], k>> \in T PROVE <<f[k + 1], k + 1>> \in T
    OBVIOUS
  <2>1. g[<<f[k], k>>] = IssueOne(f[k], k)
    OBVIOUS
  <2> QED
    BY <2>1, <1>4
<1>6. \A k \in 0 .. n : <<f[k], k>> \in T
  BY <1>3, <1>5, RunStays
<1>7. \A k \in 0 .. n : f[k] = IF k = 0 THEN x ELSE IssueOne(f[k - 1], k - 1)
  <2> SUFFICES ASSUME NEW k \in 0 .. n, k # 0 PROVE f[k] = IssueOne(f[k - 1], k - 1)
    BY <1>3
  <2>1. k - 1 \in 0 .. n - 1 /\ k - 1 \in 0 .. n /\ (k - 1) + 1 = k
    OBVIOUS
  <2>2. g[<<f[k - 1], k - 1>>] = IssueOne(f[k - 1], k - 1)
    BY <2>1, <1>6
  <2> QED
    BY <2>1, <2>2, <1>4
<1>8. f = [k \in 0 .. n |-> f[k]]
  BY <1>1 DEF Run
<1>9. Step(f)
  BY <1>7, <1>8
<1> DEFINE h == CHOOSE h : Step(h)
<1>10. Issue(x) = h[n]
  BY DEF Issue, Repeat
<1> HIDE DEF Step
<1>11. Step(h)
  BY <1>9
<1> HIDE DEF h
<1>12. \A k \in 0 .. n : h[k] = IF k = 0 THEN x ELSE IssueOne(h[k - 1], k - 1)
  BY <1>11 DEF Step
<1>13. h[0] = x
  <2>1. 0 \in 0 .. n
    OBVIOUS
  <2> QED
    BY <2>1, <1>12
<1>14. \A k \in 0 .. n - 1 : h[k + 1] = IssueOne(h[k], k)
  <2> SUFFICES ASSUME NEW k \in 0 .. n - 1 PROVE h[k + 1] = IssueOne(h[k], k)
    OBVIOUS
  <2>1. k + 1 \in 0 .. n /\ k + 1 # 0 /\ (k + 1) - 1 = k
    OBVIOUS
  <2> QED
    BY <2>1, <1>12
<1>15. \A k \in 0 .. n - 1 : <<h[k], k>> \in T => <<h[k + 1], k + 1>> \in T
  BY <1>14
<1>16. \A k \in 0 .. n : <<h[k], k>> \in T
  BY <1>13, <1>15, RunStays
<1> QED
  BY <1>10, <1>16

\* The accesses of one instruction.
LEMMA FillLoop ==
    ASSUME NEW ins, NEW deps, NEW x, NEW T, <<x, 0>> \in T, Len(ins.mem) \in Nat,
           \A y : \A k \in 0 .. Len(ins.mem) - 1 : <<y, k>> \in T => <<Fill(y, ins, k + 1, deps), k + 1>> \in T
    PROVE  <<FillAll(x, ins, deps), Len(ins.mem)>> \in T
<1> DEFINE n == Len(ins.mem)
           g == [p \in T |-> Fill(p[1], ins, (p[2]) + 1, deps)]
           Step(f) == f = [k \in 0 .. n |-> IF k = 0 THEN x ELSE Fill(f[k - 1], ins, (k - 1) + 1, deps)]
<1>1. PICK f : Run(f, x, g, n)
  BY RunExists
<1>2. \A k \in 0 .. n : f[k] = IF k = 0 THEN x ELSE g[<<f[k - 1], k - 1>>]
  BY <1>1 DEF Run
<1>3. f[0] = x
  <2>1. 0 \in 0 .. n
    OBVIOUS
  <2> HIDE DEF g
  <2> QED
    BY <2>1, <1>2
<1>4. \A k \in 0 .. n - 1 : f[k + 1] = g[<<f[k], k>>]
  <2> SUFFICES ASSUME NEW k \in 0 .. n - 1 PROVE f[k + 1] = g[<<f[k], k>>]
    OBVIOUS
  <2>1. k + 1 \in 0 .. n /\ k + 1 # 0 /\ (k + 1) - 1 = k
    OBVIOUS
  <2> HIDE DEF g
  <2> QED
    BY <2>1, <1>2
<1>5. \A k \in 0 .. n - 1 : <<f[k], k>> \in T => <<f[k + 1], k + 1>> \in T
  <2> SUFFICES ASSUME NEW k \in 0 .. n - 1, <<f[k], k>> \in T PROVE <<f[k + 1], k + 1>> \in T
    OBVIOUS
  <2>1. g[<<f[k], k>>] = Fill(f[k], ins, k + 1, deps)
    OBVIOUS
  <2> QED
    BY <2>1, <1>4
<1>6. \A k \in 0 .. n : <<f[k], k>> \in T
  BY <1>3, <1>5, RunStays
<1>7. \A k \in 0 .. n : f[k] = IF k = 0 THEN x ELSE Fill(f[k - 1], ins, (k - 1) + 1, deps)
  <2> SUFFICES ASSUME NEW k \in 0 .. n, k # 0 PROVE f[k] = Fill(f[k - 1], ins, (k - 1) + 1, deps)
    BY <1>3
  <2>1. k - 1 \in 0 .. n - 1 /\ k - 1 \in 0 .. n /\ (k - 1) + 1 = k
    OBVIOUS
  <2>2. g[<<f[k - 1], k - 1>>] = Fill(f[k - 1], ins, (k - 1) + 1, deps)
    BY <2>1, <1>6
  <2> QED
    BY <2>1, <2>2, <1>4
<1>8. f = [k \in 0 .. n |-> f[k]]
  BY <1>1 DEF Run
<1>9. Step(f)
  BY <1>7, <1>8
<1> DEFINE h == CHOOSE h : Step(h)
<1>10. FillAll(x, ins, deps) = h[n]
  BY DEF FillAll, Repeat
<1> HIDE DEF Step
<1>11. Step(h)
  BY <1>9
<1> HIDE DEF h
<1>12. \A k \in 0 .. n : h[k] = IF k = 0 THEN x ELSE Fill(h[k - 1], ins, (k - 1) + 1, deps)
  BY <1>11 DEF Step
<1>13. h[0] = x
  <2>1. 0 \in 0 .. n
    OBVIOUS
  <2> QED
    BY <2>1, <1>12
<1>14. \A k \in 0 .. n - 1 : h[k + 1] = Fill(h[k], ins, k + 1, deps)
  <2> SUFFICES ASSUME NEW k \in 0 .. n - 1 PROVE h[k + 1] = Fill(h[k], ins, k + 1, deps)
    OBVIOUS
  <2>1. k + 1 \in 0 .. n /\ k + 1 # 0 /\ (k + 1) - 1 = k
    OBVIOUS
  <2> QED
    BY <2>1, <1>12
<1>15. \A k \in 0 .. n - 1 : <<h[k], k>> \in T => <<h[k + 1], k + 1>> \in T
  BY <1>14
<1>16. \A k \in 0 .. n : <<h[k], k>> \in T
  BY <1>13, <1>15, RunStays
<1> QED
  BY <1>10, <1>16

\* The entries of the reorder buffer, from the oldest.
LEMMA ExecuteLoop ==
    ASSUME NEW m, NEW x, NEW T, <<x, 0>> \in T, m \in Nat,
           \A y : \A k \in 0 .. m - 1 : <<y, k>> \in T => <<StartEntry(y, k), k + 1>> \in T
    PROVE  <<Repeat(StartEntry, x, m), m>> \in T
<1> DEFINE n == m
           g == [p \in T |-> StartEntry(p[1], p[2])]
           Step(f) == f = [k \in 0 .. n |-> IF k = 0 THEN x ELSE StartEntry(f[k - 1], k - 1)]
<1>1. PICK f : Run(f, x, g, n)
  BY RunExists
<1>2. \A k \in 0 .. n : f[k] = IF k = 0 THEN x ELSE g[<<f[k - 1], k - 1>>]
  BY <1>1 DEF Run
<1>3. f[0] = x
  <2>1. 0 \in 0 .. n
    OBVIOUS
  <2> HIDE DEF g
  <2> QED
    BY <2>1, <1>2
<1>4. \A k \in 0 .. n - 1 : f[k + 1] = g[<<f[k], k>>]
  <2> SUFFICES ASSUME NEW k \in 0 .. n - 1 PROVE f[k + 1] = g[<<f[k], k>>]
    OBVIOUS
  <2>1. k + 1 \in 0 .. n /\ k + 1 # 0 /\ (k + 1) - 1 = k
    OBVIOUS
  <2> HIDE DEF g
  <2> QED
    BY <2>1, <1>2
<1>5. \A k \in 0 .. n - 1 : <<f[k], k>> \in T => <<f[k + 1], k + 1>> \in T
  <2> SUFFICES ASSUME NEW k \in 0 .. n - 1, <<f[k], k>> \in T PROVE <<f[k + 1], k + 1>> \in T
    OBVIOUS
  <2>1. g[<<f[k], k>>] = StartEntry(f[k], k)
    OBVIOUS
  <2> QED
    BY <2>1, <1>4
<1>6. \A k \in 0 .. n : <<f[k], k>> \in T
  BY <1>3, <1>5, RunStays
<1>7. \A k \in 0 .. n : f[k] = IF k = 0 THEN x ELSE StartEntry(f[k - 1], k - 1)
  <2> SUFFICES ASSUME NEW k \in 0 .. n, k # 0 PROVE f[k] = StartEntry(f[k - 1], k - 1)
    BY <1>3
  <2>1. k - 1 \in 0 .. n - 1 /\ k - 1 \in 0 .. n /\ (k - 1) + 1 = k
    OBVIOUS
  <2>2. g[<<f[k - 1], k - 1>>] = StartEntry(f[k - 1], k - 1)
    BY <2>1, <1>6
  <2> QED
    BY <2>1, <2>2, <1>4
<1>8. f = [k \in 0 .. n |-> f[k]]
  BY <1>1 DEF Run
<1>9. Step(f)
  BY <1>7, <1>8
<1> DEFINE h == CHOOSE h : Step(h)
<1>10. Repeat(StartEntry, x, m) = h[n]
  BY DEF Repeat
<1> HIDE DEF Step
<1>11. Step(h)
  BY <1>9
<1> HIDE DEF h
<1>12. \A k \in 0 .. n : h[k] = IF k = 0 THEN x ELSE StartEntry(h[k - 1], k - 1)
  BY <1>11 DEF Step
<1>13. h[0] = x
  <2>1. 0 \in 0 .. n
    OBVIOUS
  <2> QED
    BY <2>1, <1>12
<1>14. \A k \in 0 .. n - 1 : h[k + 1] = StartEntry(h[k], k)
  <2> SUFFICES ASSUME NEW k \in 0 .. n - 1 PROVE h[k + 1] = StartEntry(h[k], k)
    OBVIOUS
  <2>1. k + 1 \in 0 .. n /\ k + 1 # 0 /\ (k + 1) - 1 = k
    OBVIOUS
  <2> QED
    BY <2>1, <1>12
<1>15. \A k \in 0 .. n - 1 : <<h[k], k>> \in T => <<h[k + 1], k + 1>> \in T
  BY <1>14
<1>16. \A k \in 0 .. n : <<h[k], k>> \in T
  BY <1>13, <1>15, RunStays
<1> QED
  BY <1>10, <1>16

\* The oldest entries.
LEMMA CommitLoop ==
    ASSUME NEW x, NEW T, <<x, 0>> \in T, CommitWidth \in Nat,
           \A y : \A k \in 0 .. CommitWidth - 1 : <<y, k>> \in T => <<CommitOne(y, k), k + 1>> \in T
    PROVE  <<Repeat(CommitOne, x, CommitWidth), CommitWidth>> \in T
<1> DEFINE n == CommitWidth
           g == [p \in T |-> CommitOne(p[1], p[2])]
           Step(f) == f = [k \in 0 .. n |-> IF k = 0 THEN x ELSE CommitOne(f[k - 1], k - 1)]
<1>1. PICK f : Run(f, x, g, n)
  BY RunExists
<1>2. \A k \in 0 .. n : f[k] = IF k = 0 THEN x ELSE g[<<f[k - 1], k - 1>>]
  BY <1>1 DEF Run
<1>3. f[0] = x
  <2>1. 0 \in 0 .. n
    OBVIOUS
  <2> HIDE DEF g
  <2> QED
    BY <2>1, <1>2
<1>4. \A k \in 0 .. n - 1 : f[k + 1] = g[<<f[k], k>>]
  <2> SUFFICES ASSUME NEW k \in 0 .. n - 1 PROVE f[k + 1] = g[<<f[k], k>>]
    OBVIOUS
  <2>1. k + 1 \in 0 .. n /\ k + 1 # 0 /\ (k + 1) - 1 = k
    OBVIOUS
  <2> HIDE DEF g
  <2> QED
    BY <2>1, <1>2
<1>5. \A k \in 0 .. n - 1 : <<f[k], k>> \in T => <<f[k + 1], k + 1>> \in T
  <2> SUFFICES ASSUME NEW k \in 0 .. n - 1, <<f[k], k>> \in T PROVE <<f[k + 1], k + 1>> \in T
    OBVIOUS
  <2>1. g[<<f[k], k>>] = CommitOne(f[k], k)
    OBVIOUS
  <2> QED
    BY <2>1, <1>4
<1>6. \A k \in 0 .. n : <<f[k], k>> \in T
  BY <1>3, <1>5, RunStays
<1>7. \A k \in 0 .. n : f[k] = IF k = 0 THEN x ELSE CommitOne(f[k - 1], k - 1)
  <2> SUFFICES ASSUME NEW k \in 0 .. n, k # 0 PROVE f[k] = CommitOne(f[k - 1], k - 1)
    BY <1>3
  <2>1. k - 1 \in 0 .. n - 1 /\ k - 1 \in 0 .. n /\ (k - 1) + 1 = k
    OBVIOUS
  <2>2. g[<<f[k - 1], k - 1>>] = CommitOne(f[k - 1], k - 1)
    BY <2>1, <1>6
  <2> QED
    BY <2>1, <2>2, <1>4
<1>8. f = [k \in 0 .. n |-> f[k]]
  BY <1>1 DEF Run
<1>9. Step(f)
  BY <1>7, <1>8
<1> DEFINE h == CHOOSE h : Step(h)
<1>10. Repeat(CommitOne, x, CommitWidth) = h[n]
  BY DEF Repeat
<1> HIDE DEF Step
<1>11. Step(h)
  BY <1>9
<1> HIDE DEF h
<1>12. \A k \in 0 .. n : h[k] = IF k = 0 THEN x ELSE CommitOne(h[k - 1], k - 1)
  BY <1>11 DEF Step
<1>13. h[0] = x
  <2>1. 0 \in 0 .. n
    OBVIOUS
  <2> QED
    BY <2>1, <1>12
<1>14. \A k \in 0 .. n - 1 : h[k + 1] = CommitOne(h[k], k)
  <2> SUFFICES ASSUME NEW k \in 0 .. n - 1 PROVE h[k + 1] = CommitOne(h[k], k)
    OBVIOUS
  <2>1. k + 1 \in 0 .. n /\ k + 1 # 0 /\ (k + 1) - 1 = k
    OBVIOUS
  <2> QED
    BY <2>1, <1>12
<1>15. \A k \in 0 .. n - 1 : <<h[k], k>> \in T => <<h[k + 1], k + 1>> \in T
  BY <1>14
<1>16. \A k \in 0 .. n : <<h[k], k>> \in T
  BY <1>13, <1>15, RunStays
<1> QED
  BY <1>10, <1>16

-----------------------------------------------------------------------------
(* The ring.                                                               *)

\* The states process_event works on.
CoreStates ==
    [q : Seq(QEntries), rob : [Slots -> Entries], head : Slots, size : 0 .. RobMax,
     events : SUBSET (Times \ {Past}), reqs : SUBSET Requests, migrate : BOOLEAN]

\* A remainder below twice the divisor, without the division.
LEMMA ModWraps ==
    ASSUME NEW n \in Nat, n > 0, NEW a \in 0 .. 2 * n - 1
    PROVE  a % n = IF a < n THEN a ELSE a - n
OBVIOUS

\* What CoreAssumption says of each constant.
LEMMA Constants ==
    /\ RobMax \in Nat /\ RobMax >= 4
    /\ QueueMax \in Nat \ {0} /\ IssueWidth \in Nat \ {0} /\ CommitWidth \in Nat \ {0}
    /\ MaxAlu \in Nat \ {0} /\ MaxLdst \in Nat \ {0} /\ MaxLd \in Nat \ {0}
    /\ MaxSt \in Nat \ {0} /\ MaxSse \in Nat \ {0}
    /\ LongT \in Nat \ {0} /\ MissPenalty \in Nat /\ MaxNacks \in Nat
    /\ MaxInstrs \in Nat /\ MaxLat \in Nat /\ InOrder \in BOOLEAN
BY CoreAssumption

\* The slot of a position, without the remainder.
LEMMA RingWraps ==
    ASSUME NEW h \in Slots, NEW i \in 0 .. RobMax - 1
    PROVE  (h + i) % RobMax = IF h + i < RobMax THEN h + i ELSE (h + i) - RobMax
<1>1. RobMax \in Nat /\ RobMax > 0
  BY Constants
<1>2. h + i \in 0 .. 2 * RobMax - 1
  BY <1>1 DEF Slots
<1>3. \A a \in 0 .. 2 * RobMax - 1 :
         (a < RobMax => a % RobMax = a) /\ (a >= RobMax => a % RobMax = a - RobMax)
  BY <1>1, ModWraps
<1>4. h + i < RobMax => (h + i) % RobMax = h + i
  BY <1>2, <1>3, Zenon
<1>5. h + i >= RobMax => (h + i) % RobMax = (h + i) - RobMax
  BY <1>2, <1>3, Zenon
<1>6. h + i \in Int /\ (h + i < RobMax \/ h + i >= RobMax)
      /\ ~(h + i < RobMax /\ h + i >= RobMax)
  BY <1>1 DEF Slots
<1> QED
  BY <1>4, <1>5, <1>6, Zenon

\* Two positions of a ring have different slots.
LEMMA RingInjective ==
    ASSUME NEW h \in Slots, NEW i \in 0 .. RobMax - 1, NEW j \in 0 .. RobMax - 1,
           (h + i) % RobMax = (h + j) % RobMax
    PROVE  i = j
<1>1. RobMax \in Nat /\ RobMax > 0
  BY Constants
<1>2. (h + i) % RobMax = IF h + i < RobMax THEN h + i ELSE (h + i) - RobMax
  BY RingWraps
<1>3. (h + j) % RobMax = IF h + j < RobMax THEN h + j ELSE (h + j) - RobMax
  BY RingWraps
<1>4. h \in Int /\ i \in Int /\ j \in Int /\ h >= 0 /\ h < RobMax
      /\ i >= 0 /\ i < RobMax /\ j >= 0 /\ j < RobMax
  BY <1>1 DEF Slots
<1>5. (IF h + i < RobMax THEN h + i ELSE (h + i) - RobMax)
      = (IF h + j < RobMax THEN h + j ELSE (h + j) - RobMax)
  BY <1>2, <1>3
<1> QED
  BY <1>1, <1>4, <1>5

\* The slot of a position of the buffer.
LEMMA SlotWraps ==
    ASSUME NEW x, x.head \in Slots, NEW i \in 0 .. RobMax - 1
    PROVE  /\ Slot(x, i) = IF x.head + i < RobMax THEN x.head + i ELSE (x.head + i) - RobMax
           /\ Slot(x, i) \in Slots
<1>1. RobMax \in Nat /\ RobMax > 0
  BY Constants
<1>2. Slot(x, i) = IF x.head + i < RobMax THEN x.head + i ELSE (x.head + i) - RobMax
  BY RingWraps DEF Slot
<1> QED
  BY <1>1, <1>2 DEF Slots

\* Two positions have two slots.
LEMMA SlotInjective ==
    ASSUME NEW x, x.head \in Slots, NEW i \in 0 .. RobMax - 1, NEW j \in 0 .. RobMax - 1,
           Slot(x, i) = Slot(x, j)
    PROVE  i = j
BY RingInjective DEF Slot

\* When the oldest entry leaves, every other one is a position nearer to the head.
LEMMA SlotShifts ==
    ASSUME NEW x, NEW y, x.head \in Slots, y.head = (x.head + 1) % RobMax,
           NEW i \in 0 .. RobMax - 2
    PROVE  Slot(y, i) = Slot(x, i + 1) /\ y.head \in Slots
<1>1. RobMax \in Nat /\ RobMax > 1
  BY Constants
<1>2. 1 \in 0 .. RobMax - 1
  BY <1>1
<1>3. (x.head + 1) % RobMax = IF x.head + 1 < RobMax THEN x.head + 1 ELSE (x.head + 1) - RobMax
  BY <1>2, RingWraps
<1>4. y.head \in Slots
  BY <1>1, <1>3 DEF Slots
<1>5. i \in 0 .. RobMax - 1 /\ i + 1 \in 0 .. RobMax - 1
  BY <1>1
<1>6. Slot(y, i) = IF y.head + i < RobMax THEN y.head + i ELSE (y.head + i) - RobMax
  BY <1>4, <1>5, SlotWraps
<1>7. Slot(x, i + 1) = IF x.head + (i + 1) < RobMax THEN x.head + (i + 1)
                       ELSE (x.head + (i + 1)) - RobMax
  BY <1>5, SlotWraps
<1> QED
  BY <1>1, <1>3, <1>4, <1>6, <1>7 DEF Slots

-----------------------------------------------------------------------------
(* The inductive invariant.                                                *)

\* An entry that completed before now.
Late(e) == e.state = "completed" /\ e.ready < 0

\* A place of the reorder buffer in use is not invalid.
Live(x) ==
    \A i \in 0 .. x.size - 1 : Entry(x, i).state \in {"issued", "executing", "completed"}

\* An issued entry waits only for older ones, and for none that completed before
\* now: nobody would release it.
Waits(x) ==
    \A j \in 0 .. x.size - 1 : Entry(x, j).state = "issued" =>
        \A s \in Entry(x, j).deps : \E i \in 0 .. j - 1 : s = Slot(x, i) /\ ~Late(Entry(x, i))

\* An entry that needs an unfinished one has not started, and waits for that one
\* or for one in between that needs it too.
Order(x) ==
    \A j \in 0 .. x.size - 1 : \A i \in 0 .. j - 1 :
        Needs(x, j, i) /\ ~Finished(Entry(x, i)) =>
            /\ Entry(x, j).state = "issued"
            /\ \E m \in i .. j - 1 : /\ Slot(x, m) \in Entry(x, j).deps
                                     /\ m = i \/ Needs(x, m, i)

Ring(x) == Live(x) /\ Waits(x) /\ Order(x)

\* A time to come at which something gets ready is scheduled.
QueueScheduled(x) ==
    \A i \in 1 .. Len(x.q) : x.q[i].state = "ready" /\ x.q[i].ready > 0 => x.q[i].ready \in x.events
RobScheduled(x) ==
    \A i \in 0 .. x.size - 1 :
        Entry(x, i).state # "executing" /\ Entry(x, i).ready > 0 => Entry(x, i).ready \in x.events

\* Requests and executing entries name each other; a line waited for is fetched.
Matched(x) ==
    /\ \A r \in x.reqs : r.rob # -1 =>
          \E i \in 0 .. x.size - 1 : r.rob = Slot(x, i) /\ Entry(x, i).state = "executing"
    /\ \A i \in 0 .. x.size - 1 : Entry(x, i).state = "executing" =>
          \E r \in x.reqs : r.rob = Slot(x, i)
    /\ \A r1, r2 \in x.reqs : r1.rob = r2.rob /\ r1.rob # -1 => r1 = r2
Fetched(x) ==
    \A i \in 1 .. Len(x.q) : x.q[i].state = "being_loaded" =>
        \E r \in x.reqs : r.rob = -1 /\ r.line = x.q[i].ins.line

Inv(x) ==
    /\ x \in CoreStates
    /\ Ring(x) /\ QueueScheduled(x) /\ RobScheduled(x) /\ Matched(x) /\ Fetched(x)

-----------------------------------------------------------------------------
(* Steps that leave head and size alone.                                   *)

\* The entries of y are those of x, some of them started, completed or released.
Evolves(x, y) ==
    /\ y.size = x.size
    /\ \A i \in 0 .. x.size - 1 :
          /\ Slot(y, i) = Slot(x, i)
          /\ Entry(y, i).ins = Entry(x, i).ins /\ Entry(y, i).addr = Entry(x, i).addr
          /\ Entry(y, i).state \in {"issued", "executing", "completed"}
          /\ Finished(Entry(x, i)) => Finished(Entry(y, i))
          /\ Entry(y, i).state = "issued" =>
                /\ Entry(x, i).state = "issued"
                /\ Entry(y, i).deps \subseteq Entry(x, i).deps
                /\ \A m \in 0 .. i - 1 :
                      Slot(x, m) \in Entry(x, i).deps /\ Slot(x, m) \notin Entry(y, i).deps
                      => Finished(Entry(x, m))
                /\ \A m \in 0 .. i - 1 :
                      Slot(x, m) \in Entry(y, i).deps /\ Late(Entry(y, m)) => Late(Entry(x, m))
          /\ Entry(x, i).state = "issued" /\ Entry(y, i).state # "issued" =>
                Entry(x, i).deps = {} \/ i = 0

\* What needs what depends on the instructions and words only.
LEMMA NeedsSame ==
    ASSUME NEW x, NEW y, NEW n \in Nat,
           \A i \in 0 .. n - 1 : /\ Entry(y, i).ins = Entry(x, i).ins
                                 /\ Entry(y, i).addr = Entry(x, i).addr,
           NEW j \in 0 .. n - 1, NEW i \in 0 .. j - 1
    PROVE  Needs(y, j, i) <=> Needs(x, j, i)
<1>1. \A k \in i + 1 .. j - 1 : Entry(y, k).ins = Entry(x, k).ins
  OBVIOUS
<1>2. i \in 0 .. n - 1
  OBVIOUS
<1> QED
  BY <1>1, <1>2 DEF Needs

\* An evolution keeps the order of dependence.
LEMMA EvolvesKeepsOrder ==
    ASSUME NEW x, NEW y, x.size \in Nat, Evolves(x, y), Order(x)
    PROVE  Order(y)
<1> SUFFICES ASSUME NEW j \in 0 .. x.size - 1, NEW i \in 0 .. j - 1,
                    Needs(y, j, i), ~Finished(Entry(y, i))
             PROVE  /\ Entry(y, j).state = "issued"
                    /\ \E m \in i .. j - 1 : /\ Slot(y, m) \in Entry(y, j).deps
                                             /\ m = i \/ Needs(y, m, i)
  BY DEF Order, Evolves
<1>0. i \in 0 .. x.size - 1
  OBVIOUS
<1>1. \A b \in 0 .. x.size - 1 : \A a \in 0 .. b - 1 : Needs(y, b, a) <=> Needs(x, b, a)
  BY NeedsSame DEF Evolves
<1>2. Needs(x, j, i) /\ ~Finished(Entry(x, i))
  BY <1>0, <1>1 DEF Evolves
<1>3. Entry(x, j).state = "issued"
  BY <1>2 DEF Order
<1>4. PICK m \in i .. j - 1 : /\ Slot(x, m) \in Entry(x, j).deps
                              /\ m = i \/ Needs(x, m, i)
  BY <1>2 DEF Order
<1>5. m \in 0 .. x.size - 1 /\ m \in 0 .. j - 1 /\ (m # i => i \in 0 .. m - 1)
  OBVIOUS
<1>6. Entry(y, j).state = "issued"
  BY <1>3, <1>4 DEF Evolves
<1>7. ~Finished(Entry(x, m))
  <2>1. CASE m = i
    BY <2>1, <1>2
  <2>2. CASE m # i
    <3>1. Entry(x, m).state = "issued"
      BY <2>2, <1>2, <1>4, <1>5 DEF Order
    <3> QED
      BY <3>1 DEF Finished
  <2> QED
    BY <2>1, <2>2
<1>8. Slot(x, m) \in Entry(y, j).deps
  BY <1>4, <1>5, <1>6, <1>7 DEF Evolves
<1>9. Slot(y, m) \in Entry(y, j).deps
  BY <1>5, <1>8 DEF Evolves
<1>10. m = i \/ Needs(y, m, i)
  BY <1>1, <1>4, <1>5
<1> QED
  BY <1>6, <1>9, <1>10

\* An evolution keeps what the invariant says of the ring.
LEMMA EvolvesKeepsRing ==
    ASSUME NEW x, NEW y, x.size \in Nat, Evolves(x, y), Ring(x)
    PROVE  Ring(y)
<1>1. Live(y)
  BY DEF Live, Evolves
<1>2. Waits(y)
  <2> SUFFICES ASSUME NEW j \in 0 .. x.size - 1, Entry(y, j).state = "issued",
                      NEW s \in Entry(y, j).deps
               PROVE  \E i \in 0 .. j - 1 : s = Slot(y, i) /\ ~Late(Entry(y, i))
    BY DEF Waits, Evolves
  <2>1. Entry(x, j).state = "issued" /\ s \in Entry(x, j).deps
    BY DEF Evolves
  <2>2. PICK i \in 0 .. j - 1 : s = Slot(x, i) /\ ~Late(Entry(x, i))
    BY <2>1 DEF Ring, Waits
  <2>3. i \in 0 .. x.size - 1
    OBVIOUS
  <2>4. ~Late(Entry(y, i))
    BY <2>2, <2>3 DEF Evolves
  <2>5. s = Slot(y, i)
    BY <2>2, <2>3 DEF Evolves
  <2> QED
    BY <2>4, <2>5
<1> QED
  BY <1>1, <1>2, EvolvesKeepsOrder DEF Ring

\* One entry changes.
LEMMA OneChanges ==
    ASSUME NEW x \in CoreStates, NEW i \in 0 .. x.size - 1, NEW e, NEW y,
           y.head = x.head, y.size = x.size, y.rob = [x.rob EXCEPT ![Slot(x, i)] = e]
    PROVE  \A k \in 0 .. x.size - 1 :
              Slot(y, k) = Slot(x, k) /\ Entry(y, k) = IF k = i THEN e ELSE Entry(x, k)
<1>1. x.head \in Slots /\ x.size \in 0 .. RobMax /\ x.rob \in [Slots -> Entries]
  BY DEF CoreStates
<1>2. RobMax \in Nat
  BY Constants
<1> SUFFICES ASSUME NEW k \in 0 .. x.size - 1
             PROVE  Slot(y, k) = Slot(x, k) /\ Entry(y, k) = IF k = i THEN e ELSE Entry(x, k)
  OBVIOUS
<1>3. k \in 0 .. RobMax - 1 /\ i \in 0 .. RobMax - 1
  BY <1>1, <1>2
<1>4. Slot(y, k) = Slot(x, k)
  BY DEF Slot
<1>5. Slot(x, k) \in Slots /\ Slot(x, i) \in Slots
  BY <1>1, <1>3, SlotWraps
<1>6. Slot(x, k) = Slot(x, i) => k = i
  BY <1>1, <1>3, SlotInjective
<1>7. DOMAIN x.rob = Slots
  BY <1>1
<1> QED
  BY <1>4, <1>5, <1>6, <1>7 DEF Entry

\* A position in use holds an entry.
LEMMA EntryTyped ==
    ASSUME NEW x \in CoreStates, NEW i \in 0 .. x.size - 1
    PROVE  /\ i \in 0 .. RobMax - 1 /\ Slot(x, i) \in Slots
           /\ Entry(x, i) \in Entries /\ Entry(x, i) = x.rob[Slot(x, i)]
<1>1. x.head \in Slots /\ x.size \in 0 .. RobMax /\ x.rob \in [Slots -> Entries]
  BY DEF CoreStates
<1>2. RobMax \in Nat
  BY Constants
<1>3. i \in 0 .. RobMax - 1
  BY <1>1, <1>2
<1>4. Slot(x, i) \in Slots
  BY <1>1, <1>3, SlotWraps
<1> QED
  BY <1>1, <1>3, <1>4 DEF Entry

\* An entry that starts or completes.
LEMMA OneEvolves ==
    ASSUME NEW x, NEW y, x.size \in Nat, NEW i \in 0 .. x.size - 1, NEW e, y.size = x.size, Live(x),
           \A k \in 0 .. x.size - 1 :
              Slot(y, k) = Slot(x, k) /\ Entry(y, k) = IF k = i THEN e ELSE Entry(x, k),
           e.state \in {"executing", "completed"}, ~Late(e), ~Finished(Entry(x, i)),
           e.ins = Entry(x, i).ins, e.addr = Entry(x, i).addr,
           Entry(x, i).state = "issued" => Entry(x, i).deps = {} \/ i = 0
    PROVE  Evolves(x, y)
<1> DEFINE Ok(k) ==
          /\ Slot(y, k) = Slot(x, k)
          /\ Entry(y, k).ins = Entry(x, k).ins /\ Entry(y, k).addr = Entry(x, k).addr
          /\ Entry(y, k).state \in {"issued", "executing", "completed"}
          /\ Finished(Entry(x, k)) => Finished(Entry(y, k))
          /\ Entry(y, k).state = "issued" =>
                /\ Entry(x, k).state = "issued"
                /\ Entry(y, k).deps \subseteq Entry(x, k).deps
                /\ \A m \in 0 .. k - 1 :
                      Slot(x, m) \in Entry(x, k).deps /\ Slot(x, m) \notin Entry(y, k).deps
                      => Finished(Entry(x, m))
                /\ \A m \in 0 .. k - 1 :
                      Slot(x, m) \in Entry(y, k).deps /\ Late(Entry(y, m)) => Late(Entry(x, m))
          /\ Entry(x, k).state = "issued" /\ Entry(y, k).state # "issued" =>
                Entry(x, k).deps = {} \/ k = 0
<1>1. Ok(i)
  <2>1. Entry(y, i) = e /\ Slot(y, i) = Slot(x, i)
    OBVIOUS
  <2> QED
    BY <2>1
<1>2. ASSUME NEW k \in 0 .. x.size - 1, k # i PROVE Ok(k)
  <2>1. Entry(y, k) = Entry(x, k) /\ Slot(y, k) = Slot(x, k)
    BY <1>2
  <2>2. Entry(x, k).state \in {"issued", "executing", "completed"}
    BY DEF Live
  <2>3. \A m \in 0 .. k - 1 : Late(Entry(y, m)) => Late(Entry(x, m))
    OBVIOUS
  <2> QED
    BY <2>1, <2>2, <2>3
<1>3. \A k \in 0 .. x.size - 1 : Ok(k)
  <2> HIDE DEF Ok
  <2> QED
    BY <1>1, <1>2
<1> QED
  BY <1>3 DEF Evolves

\* Position i completes at now + t; its request, if it has one, is answered.
Completes(x, y, i, t) ==
    /\ y \in CoreStates /\ y.q = x.q /\ y.head = x.head /\ y.size = x.size
    /\ y.rob = [x.rob EXCEPT ![Slot(x, i)] =
                  [x.rob[Slot(x, i)] EXCEPT !.state = "completed", !.ready = t]]
    /\ x.events \cup {t} \subseteq y.events
    /\ y.reqs = {r \in x.reqs : r.rob # Slot(x, i)}

\* Completing an entry that executes, or that may start, keeps the invariant.
LEMMA CompletesKeepsInv ==
    ASSUME NEW x, NEW y, NEW t \in Times, t >= 0, Inv(x), NEW i \in 0 .. x.size - 1,
           Completes(x, y, i, t),
           \/ Entry(x, i).state = "executing"
           \/ Entry(x, i).state = "issued" /\ (Entry(x, i).deps = {} \/ i = 0)
    PROVE  Inv(y)
<1> DEFINE e == [x.rob[Slot(x, i)] EXCEPT !.state = "completed", !.ready = t]
<1>1. x \in CoreStates /\ x.size \in Nat
  BY Constants DEF Inv, CoreStates
<1>2. \A k \in 0 .. x.size - 1 : Slot(x, k) \in Slots /\ Entry(x, k) \in Entries
  BY <1>1, EntryTyped
<1>3. /\ e.state = "completed" /\ e.ready = t /\ e.ins = Entry(x, i).ins
      /\ e.addr = Entry(x, i).addr /\ e.deps = Entry(x, i).deps
  BY <1>1, <1>2, EntryTyped DEF Entries
<1> HIDE DEF e
<1>4. \A k \in 0 .. x.size - 1 :
         Slot(y, k) = Slot(x, k) /\ Entry(y, k) = IF k = i THEN e ELSE Entry(x, k)
  <2>1. /\ y.head = x.head /\ y.size = x.size
        /\ y.rob = [x.rob EXCEPT ![Slot(x, i)] = e]
    BY DEF Completes, e
  <2> QED
    BY ONLY <1>1, <2>1, i \in 0 .. x.size - 1, OneChanges, SMTT(30)
<1>5. \A k \in 0 .. x.size - 1 : Slot(x, k) = Slot(x, i) => k = i
  <2>1. x.head \in Slots /\ \A k \in 0 .. x.size - 1 : k \in 0 .. RobMax - 1
    BY <1>1, EntryTyped DEF CoreStates
  <2> QED
    BY <2>1, SlotInjective
<1>6. t \in Int /\ ~Late(e)
  BY <1>3, Constants DEF Late, Times, Past
<1>7. y.size = x.size /\ y.q = x.q
  BY DEF Completes
<1>8. ~Finished(Entry(x, i))
  BY DEF Finished
<1>9. Live(x)
  BY DEF Inv, Ring
<1>10. Evolves(x, y)
  BY <1>1, <1>3, <1>4, <1>6, <1>7, <1>8, <1>9, OneEvolves
<1>11. Ring(y)
  BY <1>1, <1>10, EvolvesKeepsRing DEF Inv
<1>12. QueueScheduled(y)
  BY <1>7 DEF Inv, QueueScheduled, Completes
<1>13. RobScheduled(y)
  BY <1>3, <1>4, <1>7 DEF Inv, RobScheduled, Completes
<1>14. Matched(y)
  <2>1. \A r \in y.reqs : r \in x.reqs /\ r.rob # Slot(x, i)
    BY DEF Completes
  <2>2. ASSUME NEW r \in y.reqs, r.rob # -1
        PROVE  \E k \in 0 .. y.size - 1 : r.rob = Slot(y, k) /\ Entry(y, k).state = "executing"
    <3>1. PICK k \in 0 .. x.size - 1 : r.rob = Slot(x, k) /\ Entry(x, k).state = "executing"
      BY <2>1, <2>2 DEF Inv, Matched
    <3>2. k # i
      BY <2>1, <3>1
    <3> QED
      BY <3>1, <3>2, <1>4, <1>7
  <2>3. ASSUME NEW k \in 0 .. y.size - 1, Entry(y, k).state = "executing"
        PROVE  \E r \in y.reqs : r.rob = Slot(y, k)
    <3>1. k # i /\ Entry(x, k).state = "executing" /\ Slot(y, k) = Slot(x, k)
      BY <2>3, <1>3, <1>4, <1>7
    <3>2. PICK r \in x.reqs : r.rob = Slot(x, k)
      BY <3>1, <1>7 DEF Inv, Matched
    <3>3. r \in y.reqs
      BY <3>1, <3>2, <1>5, <1>7 DEF Completes
    <3> QED
      BY <3>1, <3>2, <3>3
  <2>4. \A r1, r2 \in y.reqs : r1.rob = r2.rob /\ r1.rob # -1 => r1 = r2
    BY <2>1 DEF Inv, Matched
  <2> QED
    BY <2>2, <2>3, <2>4 DEF Matched
<1>15. Fetched(y)
  <2>1. Slot(x, i) # -1
    BY <1>2, Constants DEF Slots
  <2>2. \A r \in x.reqs : r.rob = -1 => r \in y.reqs
    BY <2>1 DEF Completes
  <2> QED
    BY <1>7, <2>2 DEF Inv, Fetched
<1> QED
  BY <1>11, <1>12, <1>13, <1>14, <1>15 DEF Inv, Completes

\* Position i sends its access.
Sends(x, y, i) ==
    /\ y \in CoreStates /\ y.q = x.q /\ y.head = x.head /\ y.size = x.size
    /\ y.rob = [x.rob EXCEPT ![Slot(x, i)] =
                  [x.rob[Slot(x, i)] EXCEPT !.state = "executing", !.ready = Past]]
    /\ y.events = x.events
    /\ y.reqs = x.reqs \cup {[rob |-> Slot(x, i), line |-> 0, phase |-> "tlb", at |-> 0]}

\* Sending the access of an entry that waits for nobody keeps the invariant.
LEMMA SendsKeepsInv ==
    ASSUME NEW x, NEW y, Inv(x), NEW i \in 0 .. x.size - 1, Sends(x, y, i),
           Entry(x, i).state = "issued", Entry(x, i).deps = {}
    PROVE  Inv(y)
<1> DEFINE e == [x.rob[Slot(x, i)] EXCEPT !.state = "executing", !.ready = Past]
           new == [rob |-> Slot(x, i), line |-> 0, phase |-> "tlb", at |-> 0]
<1>1. x \in CoreStates /\ x.size \in Nat
  BY Constants DEF Inv, CoreStates
<1>2. \A k \in 0 .. x.size - 1 : Slot(x, k) \in Slots /\ Entry(x, k) \in Entries
  BY <1>1, EntryTyped
<1>3. /\ e.state = "executing" /\ e.ins = Entry(x, i).ins
      /\ e.addr = Entry(x, i).addr /\ e.deps = Entry(x, i).deps
  BY <1>1, <1>2, EntryTyped DEF Entries
<1>0. new.rob = Slot(x, i)
  OBVIOUS
<1> HIDE DEF e, new
<1>4. \A k \in 0 .. x.size - 1 :
         Slot(y, k) = Slot(x, k) /\ Entry(y, k) = IF k = i THEN e ELSE Entry(x, k)
  BY <1>1, OneChanges DEF Sends, e
<1>5. \A k \in 0 .. x.size - 1 : Slot(x, k) = Slot(x, i) => k = i
  <2>1. x.head \in Slots /\ \A k \in 0 .. x.size - 1 : k \in 0 .. RobMax - 1
    BY <1>1, EntryTyped DEF CoreStates
  <2> QED
    BY <2>1, SlotInjective
<1>6. ~Late(e)
  BY <1>3 DEF Late
<1>7. y.size = x.size /\ y.q = x.q /\ y.events = x.events /\ y.reqs = x.reqs \cup {new}
  BY DEF Sends, new
<1>8. ~Finished(Entry(x, i))
  BY DEF Finished
<1>9. Live(x)
  BY DEF Inv, Ring
<1>10. Evolves(x, y)
  BY <1>1, <1>3, <1>4, <1>6, <1>7, <1>8, <1>9, OneEvolves
<1>11. Ring(y)
  BY <1>1, <1>10, EvolvesKeepsRing DEF Inv
<1>12. QueueScheduled(y)
  BY <1>7 DEF Inv, QueueScheduled
<1>13. RobScheduled(y)
  BY <1>3, <1>4, <1>7 DEF Inv, RobScheduled
<1>14. Matched(y)
  <2>1. \A r \in x.reqs : r.rob # Slot(x, i)
    <3> SUFFICES ASSUME NEW r \in x.reqs, r.rob = Slot(x, i) PROVE FALSE
      OBVIOUS
    <3>1. r.rob # -1
      BY <1>2, Constants DEF Slots
    <3>2. PICK k \in 0 .. x.size - 1 : r.rob = Slot(x, k) /\ Entry(x, k).state = "executing"
      BY <3>1 DEF Inv, Matched
    <3>3. k = i
      BY <3>2, <1>5
    <3> QED
      BY <3>2, <3>3
  <2>2. ASSUME NEW r \in y.reqs, r.rob # -1
        PROVE  \E k \in 0 .. y.size - 1 : r.rob = Slot(y, k) /\ Entry(y, k).state = "executing"
    <3>1. CASE r = new
      BY <3>1, <1>0, <1>3, <1>4, <1>7
    <3>2. CASE r \in x.reqs
      <4>1. PICK k \in 0 .. x.size - 1 : r.rob = Slot(x, k) /\ Entry(x, k).state = "executing"
        BY <3>2, <2>2 DEF Inv, Matched
      <4>2. k # i
        BY <4>1
      <4> QED
        BY <4>1, <4>2, <1>4, <1>7
    <3> QED
      BY <3>1, <3>2, <1>7
  <2>3. ASSUME NEW k \in 0 .. y.size - 1, Entry(y, k).state = "executing"
        PROVE  \E r \in y.reqs : r.rob = Slot(y, k)
    <3>1. CASE k = i
      BY <3>1, <1>0, <1>4, <1>7
    <3>2. CASE k # i
      <4>1. Entry(x, k).state = "executing" /\ Slot(y, k) = Slot(x, k)
        BY <2>3, <3>2, <1>4, <1>7
      <4>2. PICK r \in x.reqs : r.rob = Slot(x, k)
        BY <4>1, <1>7 DEF Inv, Matched
      <4> QED
        BY <4>1, <4>2, <1>7
    <3> QED
      BY <3>1, <3>2
  <2>4. \A r1, r2 \in y.reqs : r1.rob = r2.rob /\ r1.rob # -1 => r1 = r2
    BY <2>1, <1>0, <1>7 DEF Inv, Matched
  <2> QED
    BY <2>2, <2>3, <2>4 DEF Matched
<1>15. Fetched(y)
  BY <1>7 DEF Inv, Fetched
<1> QED
  BY <1>11, <1>12, <1>13, <1>14, <1>15 DEF Inv, Sends

-----------------------------------------------------------------------------
(* Execution.                                                              *)

\* The times the proofs use.
LEMMA TimesFacts ==
    /\ 1 \in Times \ {Past} /\ LongT \in Times \ {Past} /\ LongT >= 1
    /\ Past \in Times /\ Past = -1 /\ 0 \in Times
    /\ Times \subseteq Int /\ \A t \in Times : t >= -1
    /\ \A t \in Times : t >= 0 <=> t # Past
BY Constants DEF Times, Past

\* Every latency is a time to come.
LEMMA LatencyTyped ==
    ASSUME NEW ins
    PROVE  Latency(ins) \in Times \ {Past} /\ Latency(ins) >= 1
<1>1. Latency(ins) \in {LongT, MissPenalty + 1, 1}
  BY DEF Latency
<1> QED
  BY <1>1, Constants DEF Times, Past

\* geq->add_event.
LEMMA AtParts ==
    ASSUME NEW x \in CoreStates, NEW t \in Times \ {Past}
    PROVE  /\ At(x, t) \in CoreStates
           /\ At(x, t).events = x.events \cup {t}
           /\ At(x, t).q = x.q /\ At(x, t).rob = x.rob /\ At(x, t).head = x.head
           /\ At(x, t).size = x.size /\ At(x, t).reqs = x.reqs /\ At(x, t).migrate = x.migrate
BY DEF At, CoreStates

\* An entry with a new state and time is an entry.
LEMMA EntryMoves ==
    ASSUME NEW e \in Entries, NEW st \in {"invalid", "issued", "executing", "completed"},
           NEW t \in Times
    PROVE  [e EXCEPT !.state = st, !.ready = t] \in Entries
BY DEF Entries

\* y is x after slot s completed at now + t.
CompletedAs(x, y, s, t) ==
    /\ y \in CoreStates /\ y.events = x.events \cup {t}
    /\ y.rob = [x.rob EXCEPT ![s] = [x.rob[s] EXCEPT !.state = "completed", !.ready = t]]
    /\ y.q = x.q /\ y.head = x.head /\ y.size = x.size /\ y.reqs = x.reqs

\* Complete, field by field.
LEMMA CompleteParts ==
    ASSUME NEW x \in CoreStates, NEW s \in Slots, NEW t \in Times \ {Past}
    PROVE  CompletedAs(x, Complete(x, s, t), s, t)
<1> DEFINE e == [x.rob[s] EXCEPT !.state = "completed", !.ready = t]
           y == [x EXCEPT !.rob[s] = e]
<1>1. x.rob \in [Slots -> Entries]
  BY DEF CoreStates
<1>2. e \in Entries
  BY <1>1, EntryMoves
<1> HIDE DEF e
<1>3. /\ y \in CoreStates /\ y.rob = [x.rob EXCEPT ![s] = e] /\ y.events = x.events
      /\ y.q = x.q /\ y.head = x.head /\ y.size = x.size /\ y.reqs = x.reqs
  BY <1>1, <1>2 DEF CoreStates
<1>4. Complete(x, s, t) = At(y, t)
  BY DEF Complete, e
<1> HIDE DEF y
<1>5. /\ At(y, t) \in CoreStates /\ At(y, t).events = y.events \cup {t}
      /\ At(y, t).q = y.q /\ At(y, t).rob = y.rob /\ At(y, t).head = y.head
      /\ At(y, t).size = y.size /\ At(y, t).reqs = y.reqs
  BY <1>3, AtParts
<1> QED
  BY <1>3, <1>4, <1>5 DEF e, CompletedAs

\* Send, field by field.
LEMMA SendParts ==
    ASSUME NEW x \in CoreStates, NEW s \in Slots
    PROVE  /\ Send(x, s) \in CoreStates
           /\ Send(x, s).rob = [x.rob EXCEPT ![s] =
                 [x.rob[s] EXCEPT !.state = "executing", !.ready = Past]]
           /\ Send(x, s).q = x.q /\ Send(x, s).head = x.head
           /\ Send(x, s).size = x.size /\ Send(x, s).events = x.events
           /\ Send(x, s).reqs = x.reqs \cup {[rob |-> s, line |-> 0, phase |-> "tlb", at |-> 0]}
<1> DEFINE e == [x.rob[s] EXCEPT !.state = "executing", !.ready = Past]
           new == [rob |-> s, line |-> 0, phase |-> "tlb", at |-> 0]
<1>1. x.rob \in [Slots -> Entries]
  BY DEF CoreStates
<1>2. e \in Entries
  BY <1>1, TimesFacts, EntryMoves
<1>3. new \in Requests
  BY Constants DEF Requests
<1> DEFINE rob == [x.rob EXCEPT ![s] = e]
           reqs == x.reqs \cup {new}
<1>4. Send(x, s) = [x EXCEPT !.rob = rob, !.reqs = reqs]
  BY DEF Send
<1> HIDE DEF e, new
<1>6. rob \in [Slots -> Entries] /\ reqs \in SUBSET Requests
  BY <1>1, <1>2, <1>3 DEF CoreStates
<1> HIDE DEF rob, reqs
<1>5. /\ Send(x, s) \in CoreStates /\ Send(x, s).rob = rob
      /\ Send(x, s).q = x.q /\ Send(x, s).head = x.head
      /\ Send(x, s).size = x.size /\ Send(x, s).events = x.events
      /\ Send(x, s).reqs = reqs
  BY <1>4, <1>6 DEF CoreStates
<1> QED
  BY <1>5 DEF e, new, rob, reqs

\* The states of the loop that starts entries.
LoopStates == [x : CoreStates, stop : BOOLEAN, n : [Units -> Nat]]

\* An issued entry has no request.
LEMMA IssuedHasNoRequest ==
    ASSUME NEW x, Inv(x), NEW i \in 0 .. x.size - 1, Entry(x, i).state = "issued"
    PROVE  x.reqs = {r \in x.reqs : r.rob # Slot(x, i)}
<1> SUFFICES ASSUME NEW r \in x.reqs, r.rob = Slot(x, i) PROVE FALSE
  OBVIOUS
<1>1. x \in CoreStates
  BY DEF Inv
<1>2. Slot(x, i) \in Slots
  BY <1>1, EntryTyped
<1>3. r.rob # -1
  BY <1>2, Constants DEF Slots
<1>4. PICK k \in 0 .. x.size - 1 : r.rob = Slot(x, k) /\ Entry(x, k).state = "executing"
  BY <1>3 DEF Inv, Matched
<1>5. x.head \in Slots /\ k \in 0 .. RobMax - 1 /\ i \in 0 .. RobMax - 1
  BY <1>1, EntryTyped DEF CoreStates
<1>6. k = i
  BY <1>4, <1>5, SlotInjective
<1> QED
  BY <1>4, <1>6

\* What a round of the loop does to the core: it schedules the next cycle, or the
\* entry completes later than now or sends its access.
Starts(x, y, i) ==
    /\ Entry(x, i).state = "issued"
    /\ \/ /\ Entry(x, i).deps = {} \/ i = 0
          /\ \E t \in Times : t >= 1 /\ Completes(x, y, i, t)
       \/ Entry(x, i).deps = {} /\ Sends(x, y, i)

\* Counting units.
LEMMA CountParts ==
    ASSUME NEW z \in LoopStates, NEW y \in CoreStates, NEW us
    PROVE  /\ Count([z EXCEPT !.x = y], us) \in LoopStates
           /\ Count([z EXCEPT !.x = y], us).x = y
<1> DEFINE w == [z EXCEPT !.x = y]
           n == [u \in Units |-> IF u \in us THEN w.n[u] + 1 ELSE w.n[u]]
<1>1. w \in LoopStates /\ w.x = y /\ w.n \in [Units -> Nat]
  BY DEF LoopStates
<1>2. Count(w, us) = [w EXCEPT !.n = n]
  BY DEF Count
<1> HIDE DEF w
<1>3. n \in [Units -> Nat]
  BY <1>1
<1> HIDE DEF n
<1>4. Count(w, us) \in LoopStates /\ Count(w, us).x = y
  BY <1>1, <1>2, <1>3 DEF LoopStates
<1> QED
  BY <1>4 DEF w

\* StartAlu starts the entry unless a unit is already in use.
LEMMA StartAluCases ==
    ASSUME NEW z \in LoopStates, Inv(z.x), NEW i \in 0 .. z.x.size - 1,
           Entry(z.x, i).state = "issued", Entry(z.x, i).deps = {}
    PROVE  \/ StartAlu(z, Slot(z.x, i)) = z /\ \E u \in Units : z.n[u] > 0
           \/ /\ StartAlu(z, Slot(z.x, i)) \in LoopStates
              /\ Starts(z.x, StartAlu(z, Slot(z.x, i)).x, i)
<1> DEFINE s == Slot(z.x, i)
           ins == z.x.rob[s].ins
           us == IF ins.kind = "x87" THEN {"alu", "sse"} ELSE {"alu"}
           y == Complete(z.x, s, Latency(ins))
<1>1. z.x \in CoreStates /\ s \in Slots /\ z.n \in [Units -> Nat]
  BY EntryTyped DEF LoopStates
<1>2. CASE z.n["alu"] < MaxAlu /\ (ins.kind = "x87" => z.n["sse"] < MaxSse)
  <2>1. StartAlu(z, s) = Count([z EXCEPT !.x = y], us)
    BY <1>2 DEF StartAlu
  <2>2. Latency(ins) \in Times \ {Past} /\ Latency(ins) >= 1
    BY LatencyTyped
  <2> HIDE DEF ins
  <2>3. CompletedAs(z.x, y, s, Latency(ins))
    BY <1>1, <2>2, CompleteParts
  <2>4. z.x.reqs = {r \in z.x.reqs : r.rob # s}
    BY IssuedHasNoRequest
  <2> HIDE DEF y
  <2>5. Completes(z.x, y, i, Latency(ins))
    BY <2>2, <2>3, <2>4 DEF Completes, CompletedAs
  <2>6. Starts(z.x, y, i)
    BY <2>2, <2>5 DEF Starts
  <2>7. StartAlu(z, s) \in LoopStates /\ StartAlu(z, s).x = y
    BY <2>1, <2>3, CountParts DEF CompletedAs
  <2> QED
    BY <2>6, <2>7
<1>3. CASE ~(z.n["alu"] < MaxAlu /\ (ins.kind = "x87" => z.n["sse"] < MaxSse))
  <2>1. StartAlu(z, s) = z
    BY <1>3 DEF StartAlu
  <2>2. z.n["alu"] \in Nat /\ z.n["sse"] \in Nat /\ "alu" \in Units /\ "sse" \in Units
    BY <1>1 DEF Units
  <2>3. z.n["alu"] > 0 \/ z.n["sse"] > 0
    BY <1>3, <2>2, Constants
  <2> QED
    BY <2>1, <2>2, <2>3
<1> QED
  BY <1>2, <1>3

\* StartMem sends the access unless a unit is already in use.
LEMMA StartMemCases ==
    ASSUME NEW z \in LoopStates, Inv(z.x), NEW i \in 0 .. z.x.size - 1,
           Entry(z.x, i).state = "issued", Entry(z.x, i).deps = {}
    PROVE  \/ StartMem(z, Slot(z.x, i)) = z /\ \E u \in Units : z.n[u] > 0
           \/ /\ StartMem(z, Slot(z.x, i)) \in LoopStates
              /\ Starts(z.x, StartMem(z, Slot(z.x, i)).x, i)
<1> DEFINE s == Slot(z.x, i)
           u == IF z.x.rob[s].isread THEN "ld" ELSE "st"
           y == Send(z.x, s)
           max == IF u = "ld" THEN MaxLd ELSE MaxSt
<1>1. z.x \in CoreStates /\ s \in Slots /\ z.n \in [Units -> Nat]
  BY EntryTyped DEF LoopStates
<1>2. CASE z.n["ldst"] < MaxLdst /\ z.n[u] < max
  <2>1. StartMem(z, s) = Count([z EXCEPT !.x = y], {"ldst", u})
    BY <1>2 DEF StartMem
  <2> HIDE DEF u
  <2>2. /\ y \in CoreStates /\ y.events = z.x.events
        /\ y.rob = [z.x.rob EXCEPT ![s] =
              [z.x.rob[s] EXCEPT !.state = "executing", !.ready = Past]]
        /\ y.q = z.x.q /\ y.head = z.x.head /\ y.size = z.x.size
        /\ y.reqs = z.x.reqs \cup {[rob |-> s, line |-> 0, phase |-> "tlb", at |-> 0]}
    BY <1>1, SendParts
  <2> HIDE DEF y
  <2>3. Sends(z.x, y, i)
    BY <2>2 DEF Sends
  <2>4. Starts(z.x, y, i)
    BY <2>3 DEF Starts
  <2>5. StartMem(z, s) \in LoopStates /\ StartMem(z, s).x = y
    BY <2>1, <2>2, CountParts
  <2> QED
    BY <2>4, <2>5
<1>3. CASE ~(z.n["ldst"] < MaxLdst /\ z.n[u] < max)
  <2>1. StartMem(z, s) = z
    BY <1>3 DEF StartMem
  <2>2. u \in Units /\ "ldst" \in Units /\ max \in Nat \ {0}
    BY Constants DEF Units
  <2> HIDE DEF u, max
  <2>3. z.n["ldst"] \in Nat /\ z.n[u] \in Nat
    BY <1>1, <2>2
  <2>4. z.n["ldst"] > 0 \/ z.n[u] > 0
    BY <1>3, <2>2, <2>3, Constants
  <2> QED
    BY <2>1, <2>2, <2>4
<1> QED
  BY <1>2, <1>3

\* A round of the loop.
LEMMA StartEntryCases ==
    ASSUME NEW z \in LoopStates, Inv(z.x), NEW i \in 0 .. z.x.size - 1
    PROVE  \/ /\ StartEntry(z, i) = z
              /\ \/ z.stop
                 \/ \E u \in Units : z.n[u] > 0
                 \/ Entry(z.x, i).state = "issued" /\ Entry(z.x, i).ready <= 0
                    => Entry(z.x, i).deps # {}
           \/ StartEntry(z, i) \in LoopStates /\ StartEntry(z, i).x = At(z.x, 1)
           \/ StartEntry(z, i) \in LoopStates /\ Starts(z.x, StartEntry(z, i).x, i)
<1> DEFINE s == Slot(z.x, i)
           e == z.x.rob[s]
           due == e.state = "issued" /\ e.ready <= 0
           serial == e.ins.kind \in {"notify", "waitfor"}
<1>1. /\ z.x \in CoreStates /\ s \in Slots /\ z.n \in [Units -> Nat] /\ z.stop \in BOOLEAN
      /\ e = Entry(z.x, i)
  BY EntryTyped DEF LoopStates
<1>2. ASSUME NEW t \in Times \ {Past}, t >= 1, NEW b \in BOOLEAN, due, i = 0
      PROVE  LET w == [z EXCEPT !.x = [Complete(z.x, s, t) EXCEPT !.migrate = b]]
             IN  w \in LoopStates /\ Starts(z.x, w.x, i)
  <2> DEFINE c == Complete(z.x, s, t)
             y == [c EXCEPT !.migrate = b]
             w == [z EXCEPT !.x = y]
  <2>1. CompletedAs(z.x, c, s, t)
    BY <1>1, CompleteParts
  <2> HIDE DEF c
  <2>2. /\ y \in CoreStates /\ y.events = c.events /\ y.rob = c.rob /\ y.q = c.q
        /\ y.head = c.head /\ y.size = c.size /\ y.reqs = c.reqs
    <3>1. c \in CoreStates
      BY <2>1 DEF CompletedAs
    <3> QED
      BY <3>1 DEF CoreStates
  <2>3. z.x.reqs = {r \in z.x.reqs : r.rob # s}
    BY <1>1, <1>2, IssuedHasNoRequest
  <2> HIDE DEF y
  <2>4. Completes(z.x, y, i, t)
    BY <2>1, <2>2, <2>3 DEF Completes, CompletedAs
  <2>5. w \in LoopStates /\ w.x = y
    BY <2>2 DEF LoopStates
  <2>6. Starts(z.x, y, i)
    BY <2>4, <1>1, <1>2 DEF Starts
  <2> QED
    BY <2>5, <2>6 DEF y, c
<1>3. LongT \in Times \ {Past} /\ LongT >= 1 /\ 1 \in Times \ {Past} /\ 1 >= 1
  BY TimesFacts
<1>4. Stop(z) \in LoopStates /\ Stop(z).x = At(z.x, 1)
  <2>1. At(z.x, 1) \in CoreStates
    BY <1>1, <1>3, AtParts
  <2> QED
    BY <2>1 DEF Stop, LoopStates
<1>5. CASE z.stop
  <2>1. StartEntry(z, i) = z
    BY <1>5 DEF StartEntry
  <2> QED
    BY <2>1, <1>5
<1>6. CASE ~z.stop /\ due /\ e.ins.kind = "notify" /\ i = 0
  <2>1. StartEntry(z, i) = [z EXCEPT !.x = [Complete(z.x, s, LongT) EXCEPT !.migrate = TRUE]]
    BY <1>6 DEF StartEntry
  <2> QED
    BY <2>1, <1>2, <1>3, <1>6
<1>7. CASE /\ ~z.stop /\ due /\ e.ins.kind = "waitfor" /\ i = 0 /\ z.x.migrate
  <2>1. StartEntry(z, i) = [z EXCEPT !.x = [Complete(z.x, s, 1) EXCEPT !.migrate = FALSE]]
    BY <1>7 DEF StartEntry
  <2> QED
    BY <2>1, <1>2, <1>3, <1>7
<1>8. CASE ~z.stop /\ due /\ ~serial /\ e.deps = {}
  <2>1. StartEntry(z, i) = IF e.addr = 0 THEN StartAlu(z, s) ELSE StartMem(z, s)
    BY <1>8 DEF StartEntry
  <2> HIDE DEF s
  <2>2. Entry(z.x, i).state = "issued" /\ Entry(z.x, i).deps = {}
    BY <1>1, <1>8
  <2>3. CASE e.addr = 0
    <3>1. StartEntry(z, i) = StartAlu(z, s)
      BY <2>1, <2>3
    <3> QED
      BY <3>1, <2>2, StartAluCases DEF s
  <2>4. CASE e.addr # 0
    <3>1. StartEntry(z, i) = StartMem(z, s)
      BY <2>1, <2>4
    <3> QED
      BY <3>1, <2>2, StartMemCases DEF s
  <2> QED
    BY <2>3, <2>4
<1>9. CASE /\ ~z.stop
           /\ ~(due /\ e.ins.kind = "notify" /\ i = 0)
           /\ ~(due /\ e.ins.kind = "waitfor" /\ i = 0 /\ z.x.migrate)
           /\ ~(due /\ ~serial /\ e.deps = {})
  <2>1. StartEntry(z, i) = IF InOrder \/ (due /\ serial) THEN Stop(z) ELSE z
    BY <1>9 DEF StartEntry
  <2>2. CASE InOrder \/ (due /\ serial)
    BY <2>1, <2>2, <1>4
  <2>3. CASE ~(InOrder \/ (due /\ serial))
    <3>1. StartEntry(z, i) = z
      BY <2>1, <2>3
    <3>2. due => e.deps # {}
      BY <2>3, <1>9
    <3> QED
      BY <3>1, <3>2, <1>1
  <2> QED
    BY <2>2, <2>3
<1> QED
  BY <1>1, <1>5, <1>6, <1>7, <1>8, <1>9

\* Nothing happens to the reorder buffer.
LEMMA SameRing ==
    ASSUME NEW x, NEW y, y.rob = x.rob, y.head = x.head, y.size = x.size
    PROVE  /\ \A i : Slot(y, i) = Slot(x, i) /\ Entry(y, i) = Entry(x, i)
           /\ Ring(x) => Ring(y)
<1>1. \A i : Slot(y, i) = Slot(x, i)
  BY DEF Slot
<1>2. \A i : Entry(y, i) = Entry(x, i)
  BY <1>1 DEF Entry
<1>3. \A j, i : Needs(y, j, i) <=> Needs(x, j, i)
  BY <1>2 DEF Needs
<1>4. Live(x) => Live(y)
  BY <1>2 DEF Live
<1>5. Waits(x) => Waits(y)
  BY <1>1, <1>2 DEF Waits
<1>6. Order(x) => Order(y)
  BY <1>1, <1>2, <1>3 DEF Order
<1> QED
  BY <1>1, <1>2, <1>4, <1>5, <1>6 DEF Ring

\* An event more does no harm.
LEMMA AtKeepsInv ==
    ASSUME NEW x, Inv(x), NEW t \in Times \ {Past}
    PROVE  Inv(At(x, t))
<1> DEFINE y == At(x, t)
<1>1. x \in CoreStates
  BY DEF Inv
<1>2. /\ y \in CoreStates /\ y.events = x.events \cup {t}
      /\ y.q = x.q /\ y.rob = x.rob /\ y.head = x.head
      /\ y.size = x.size /\ y.reqs = x.reqs
  BY <1>1, AtParts
<1> HIDE DEF y
<1>3. /\ \A i : Slot(y, i) = Slot(x, i) /\ Entry(y, i) = Entry(x, i)
      /\ Ring(y)
  BY <1>2, SameRing DEF Inv
<1>4. QueueScheduled(y)
  BY <1>2 DEF Inv, QueueScheduled
<1>5. RobScheduled(y)
  BY <1>2, <1>3 DEF Inv, RobScheduled
<1>6. Matched(y)
  BY <1>2, <1>3 DEF Inv, Matched
<1>7. Fetched(y)
  BY <1>2 DEF Inv, Fetched
<1>8. Inv(y)
  BY <1>2, <1>3, <1>4, <1>5, <1>6, <1>7 DEF Inv
<1> QED
  BY <1>8 DEF y

\* Starting an entry keeps the invariant, and an event or a request follows.
LEMMA StartsKeepsInv ==
    ASSUME NEW x, NEW y, Inv(x), NEW i \in 0 .. x.size - 1, Starts(x, y, i)
    PROVE  /\ Inv(y) /\ y.size = x.size /\ y.q = x.q /\ x.reqs \subseteq y.reqs
           /\ y.events # {} \/ y.reqs # {}
<1>1. CASE /\ Entry(x, i).state = "issued"
           /\ Entry(x, i).deps = {} \/ i = 0
           /\ \E t \in Times : t >= 1 /\ Completes(x, y, i, t)
  <2>1. PICK t \in Times : t >= 1 /\ Completes(x, y, i, t)
    BY <1>1
  <2>2. t >= 0
    BY <2>1, TimesFacts
  <2>3. Inv(y)
    BY <1>1, <2>1, <2>2, CompletesKeepsInv
  <2>4. x.reqs = {r \in x.reqs : r.rob # Slot(x, i)}
    BY <1>1, IssuedHasNoRequest
  <2>5. y.reqs = x.reqs
    BY <2>1, <2>4 DEF Completes
  <2> QED
    BY <2>1, <2>3, <2>5 DEF Completes
<1>2. CASE Entry(x, i).state = "issued" /\ Entry(x, i).deps = {} /\ Sends(x, y, i)
  <2>1. Inv(y)
    BY <1>2, SendsKeepsInv
  <2> QED
    BY <1>2, <2>1 DEF Sends
<1> QED
  BY <1>1, <1>2 DEF Starts

\* No entry that could start is among the first k.
NoneReady(x, k) ==
    \A i \in 0 .. k - 1 : Entry(x, i).state = "issued" /\ Entry(x, i).ready <= 0
                          => Entry(x, i).deps # {}

\* Execution keeps the invariant; and if nothing is scheduled or under way after
\* it, it did nothing, for no entry was ready.
LEMMA ExecuteKeepsInv ==
    ASSUME NEW x, Inv(x)
    PROVE  /\ Inv(Execute(x)) /\ Execute(x).size = x.size /\ Execute(x).q = x.q
           /\ x.reqs \subseteq Execute(x).reqs
           /\ \/ Execute(x).events # {} \/ Execute(x).reqs # {}
              \/ Execute(x) = x /\ NoneReady(x, x.size)
<1> DEFINE z0 == [x |-> x, stop |-> FALSE, n |-> [u \in Units |-> 0]]
           Good(z, k) ==
               /\ z \in LoopStates /\ Inv(z.x) /\ z.x.size = x.size /\ z.x.q = x.q
               /\ x.reqs \subseteq z.x.reqs
               /\ z.x.events # {} \/ z.x.reqs # {} \/ (z = z0 /\ NoneReady(x, k))
           T == {p \in LoopStates \X Nat : Good(p[1], p[2])}
<1>1. x \in CoreStates /\ x.size \in Nat
  BY Constants DEF Inv, CoreStates
<1>2. z0 \in LoopStates /\ z0.x = x /\ z0.stop = FALSE /\ \A u \in Units : z0.n[u] = 0
  BY <1>1 DEF LoopStates
<1> HIDE DEF z0
<1>3. NoneReady(x, 0)
  BY DEF NoneReady
<1>4. Good(z0, 0)
  BY <1>2, <1>3
<1>5. ASSUME NEW z, NEW k \in 0 .. x.size - 1, Good(z, k)
      PROVE  Good(StartEntry(z, k), k + 1)
  <2> DEFINE w == StartEntry(z, k)
  <2>1. z \in LoopStates /\ Inv(z.x) /\ z.x.size = x.size /\ z.x.q = x.q /\ x.reqs \subseteq z.x.reqs
    BY <1>5
  <2>2. k \in 0 .. z.x.size - 1 /\ k \in Nat
    BY <2>1, <1>1
  <2>3. \/ /\ w = z
           /\ \/ z.stop
              \/ \E u \in Units : z.n[u] > 0
              \/ Entry(z.x, k).state = "issued" /\ Entry(z.x, k).ready <= 0
                 => Entry(z.x, k).deps # {}
        \/ w \in LoopStates /\ w.x = At(z.x, 1)
        \/ w \in LoopStates /\ Starts(z.x, w.x, k)
    BY <2>1, <2>2, StartEntryCases
  <2> HIDE DEF w
  <2>4. CASE w \in LoopStates /\ w.x = At(z.x, 1)
    <3>1. Inv(w.x)
      BY <2>1, <2>4, AtKeepsInv, TimesFacts
    <3>2. w.x.events # {} /\ w.x.size = z.x.size /\ w.x.q = z.x.q /\ w.x.reqs = z.x.reqs
      <4>1. z.x \in CoreStates
        BY <2>1 DEF LoopStates
      <4>2. 1 \in Times \ {Past}
        BY TimesFacts
      <4>3. /\ At(z.x, 1).events = z.x.events \cup {1} /\ At(z.x, 1).size = z.x.size
            /\ At(z.x, 1).q = z.x.q /\ At(z.x, 1).reqs = z.x.reqs
        BY <4>1, <4>2, AtParts
      <4> QED
        BY <4>3, <2>4
    <3> QED
      BY <2>1, <2>4, <3>1, <3>2 DEF w
  <2>5. CASE w \in LoopStates /\ Starts(z.x, w.x, k)
    <3>1. /\ Inv(w.x) /\ w.x.size = z.x.size /\ w.x.q = z.x.q /\ z.x.reqs \subseteq w.x.reqs
          /\ w.x.events # {} \/ w.x.reqs # {}
      BY <2>1, <2>2, <2>5, StartsKeepsInv
    <3> QED
      BY <2>1, <2>5, <3>1 DEF w
  <2>6. CASE w = z /\ (z.x.events # {} \/ z.x.reqs # {})
    BY <2>1, <2>6 DEF w
  <2>7. CASE w = z /\ z = z0 /\ NoneReady(x, k)
    <3>1. ~z.stop /\ ~(\E u \in Units : z.n[u] > 0)
      BY <2>7, <1>2
    <3>3. \/ Entry(z.x, k).state = "issued" /\ Entry(z.x, k).ready <= 0
             => Entry(z.x, k).deps # {}
          \/ w \in LoopStates /\ w.x = At(z.x, 1)
          \/ w \in LoopStates /\ Starts(z.x, w.x, k)
      BY <2>3, <3>1
    <3>4. CASE Entry(x, k).state = "issued" /\ Entry(x, k).ready <= 0 => Entry(x, k).deps # {}
      <4>1. NoneReady(x, k + 1)
        BY <2>7, <3>4 DEF NoneReady
      <4> QED
        BY <2>1, <2>7, <4>1 DEF w
    <3> QED
      BY <2>4, <2>5, <2>7, <3>3, <3>4, <1>2
  <2> QED
    BY <2>3, <2>4, <2>5, <2>6, <2>7, <1>5
<1>6. <<z0, 0>> \in T
  BY <1>2, <1>4
<1> HIDE DEF Good
<1>7. \A z : \A k \in 0 .. x.size - 1 : <<z, k>> \in T => <<StartEntry(z, k), k + 1>> \in T
  <2> SUFFICES ASSUME NEW z, NEW k \in 0 .. x.size - 1, <<z, k>> \in T
               PROVE  <<StartEntry(z, k), k + 1>> \in T
    OBVIOUS
  <2>1. Good(StartEntry(z, k), k + 1)
    BY <1>5
  <2>2. StartEntry(z, k) \in LoopStates /\ k + 1 \in Nat
    BY <2>1 DEF Good
  <2> QED
    BY <2>1, <2>2
<1>8. <<Repeat(StartEntry, z0, x.size), x.size>> \in T
  <2> HIDE DEF T
  <2> QED
    BY <1>1, <1>6, <1>7, ExecuteLoop
<1> DEFINE z == Repeat(StartEntry, z0, x.size)
<1>9. Good(z, x.size)
  BY <1>8
<1>10. Execute(x) = z.x
  BY DEF Execute, z0
<1> HIDE DEF z
<1> QED
  BY <1>2, <1>9, <1>10 DEF Good

-----------------------------------------------------------------------------
(* Issue.                                                                  *)

\* A nonempty set of positions has a greatest one.
LEMMA MaxOfNats ==
    ASSUME NEW n \in Nat, NEW S, S \subseteq 0 .. n - 1, S # {}
    PROVE  Max(S) \in S /\ \A i \in S : i <= Max(S)
<1> DEFINE D == {(n - i) : i \in S}
<1>1. D \subseteq Nat /\ D # {}
  <2>1. \A i \in S : n - i \in Nat
    OBVIOUS
  <2> QED
    BY <2>1
<1>2. PICK d \in D : \A c \in D : d <= c
  <2> HIDE DEF D
  <2> QED
    BY <1>1, NatMin
<1>3. PICK m \in S : d = n - m
  BY <1>2
<1>4. \A i \in S : m >= i
  <2> TAKE i \in S
  <2>1. n - i \in D
    OBVIOUS
  <2>2. n - m <= n - i
    BY <2>1, <1>2, <1>3
  <2> QED
    BY <2>2
<1>5. \E a \in S : \A b \in S : a >= b
  BY <1>4
<1>6. Max(S) \in S /\ \A b \in S : Max(S) >= b
  BY <1>5 DEF Max
<1> QED
  BY <1>6

\* The youngest of some positions is one of them and none is younger.
LEMMA YoungestParts ==
    ASSUME NEW x, NEW n \in Nat, NEW is, is \subseteq 0 .. n - 1
    PROVE  /\ \A s \in Youngest(x, is) : \E i \in is : s = Slot(x, i)
           /\ \A i \in is : \E m \in is : m >= i /\ Slot(x, m) \in Youngest(x, is)
<1>1. CASE is = {}
  BY <1>1 DEF Youngest
<1>2. CASE is # {}
  <2>1. Max(is) \in is /\ \A i \in is : i <= Max(is)
    BY <1>2, MaxOfNats
  <2>2. Youngest(x, is) = {Slot(x, Max(is))}
    BY <1>2 DEF Youngest
  <2>3. \A i \in is : Max(is) >= i
    BY <2>1
  <2> QED
    BY <2>1, <2>2, <2>3
<1> QED
  BY <1>1, <1>2

\* The entries in use stay as they are.
LEMMA SameView ==
    ASSUME NEW x, NEW y, y \in CoreStates, Inv(x),
           y.size = x.size, y.q = x.q, y.events = x.events, y.reqs = x.reqs,
           \A i \in 0 .. x.size - 1 : Slot(y, i) = Slot(x, i) /\ Entry(y, i) = Entry(x, i)
    PROVE  Inv(y)
<1>1. x.size \in Nat
  BY Constants DEF Inv, CoreStates
<1>2. Live(x)
  BY DEF Inv, Ring
<1>3. \A i \in 0 .. x.size - 1 : \A m \in 0 .. i - 1 : m \in 0 .. x.size - 1
  BY <1>1
<1>4. Evolves(x, y)
  BY <1>2, <1>3 DEF Evolves, Live
<1>5. Ring(y)
  BY <1>1, <1>4, EvolvesKeepsRing DEF Inv
<1>6. QueueScheduled(y)
  BY DEF Inv, QueueScheduled
<1>7. RobScheduled(y)
  BY DEF Inv, RobScheduled
<1>8. Matched(y)
  BY DEF Inv, Matched
<1>9. Fetched(y)
  BY DEF Inv, Fetched
<1> QED
  BY <1>5, <1>6, <1>7, <1>8, <1>9 DEF Inv

\* The entries of y are those of x, and e comes behind them.
Behind(x, y, e) ==
    /\ \A k \in 0 .. x.size - 1 : Slot(y, k) = Slot(x, k) /\ Entry(y, k) = Entry(x, k)
    /\ Slot(y, x.size) = Slot(x, x.size) /\ Entry(y, x.size) = e

\* Writing the slot behind the last entry changes no position in use.
LEMMA BehindChanges ==
    ASSUME NEW x \in CoreStates, x.size < RobMax, NEW e, NEW y,
           y.head = x.head, y.rob = [x.rob EXCEPT ![Slot(x, x.size)] = e]
    PROVE  Behind(x, y, e)
<1>1. x.head \in Slots /\ x.size \in 0 .. RobMax /\ x.rob \in [Slots -> Entries]
  BY DEF CoreStates
<1>2. RobMax \in Nat
  BY Constants
<1>3. x.size \in 0 .. RobMax - 1
  BY <1>1, <1>2
<1>4. \A k : Slot(y, k) = Slot(x, k)
  BY DEF Slot
<1>5. Slot(x, x.size) \in Slots
  BY <1>1, <1>3, SlotWraps
<1>6. DOMAIN x.rob = Slots
  BY <1>1
<1>7. Entry(y, x.size) = e
  BY <1>4, <1>5, <1>6 DEF Entry
<1>8. ASSUME NEW k \in 0 .. x.size - 1 PROVE Entry(y, k) = Entry(x, k)
  <2>1. k \in 0 .. RobMax - 1 /\ k # x.size
    BY <1>1, <1>2
  <2>2. Slot(x, k) \in Slots
    BY <1>1, <2>1, SlotWraps
  <2>3. Slot(x, k) # Slot(x, x.size)
    BY <1>1, <1>3, <2>1, SlotInjective
  <2> QED
    BY <1>4, <1>5, <1>6, <2>2, <2>3 DEF Entry
<1> QED
  BY <1>4, <1>7, <1>8 DEF Behind

\* A new entry that waits for what it needs, and only for unfinished ones.
LEMMA AppendKeepsInv ==
    ASSUME NEW x, Inv(x), x.size < RobMax, NEW e \in Entries, NEW y \in CoreStates,
           y.head = x.head, y.size = x.size + 1, y.rob = [x.rob EXCEPT ![Slot(x, x.size)] = e],
           y.q = x.q, y.events = x.events, y.reqs = x.reqs,
           e.state = "issued", e.ready = 1, 1 \in x.events,
           \A s \in e.deps : \E i \in 0 .. x.size - 1 :
              s = Slot(x, i) /\ ~Finished(Entry(x, i)),
           \A i \in 0 .. x.size - 1 : Needs(y, x.size, i) /\ ~Finished(Entry(x, i)) =>
              \E m \in i .. x.size - 1 : Slot(x, m) \in e.deps /\ (m = i \/ Needs(x, m, i))
    PROVE  Inv(y)
<1> DEFINE n == x.size
<1>1. x \in CoreStates /\ n \in Nat
  BY Constants DEF Inv, CoreStates
<1>2. /\ \A k \in 0 .. n - 1 : Slot(y, k) = Slot(x, k) /\ Entry(y, k) = Entry(x, k)
      /\ Slot(y, n) = Slot(x, n) /\ Entry(y, n) = e
  BY <1>1, BehindChanges DEF Behind
<1>3. y.size - 1 = n /\ (\A k \in 0 .. n : k = n \/ k \in 0 .. n - 1)
      /\ (\A k \in 0 .. n - 1 : k \in 0 .. n)
  BY <1>1
<1>4. \A k \in 0 .. n - 1 : ~Finished(Entry(x, k)) => ~Late(Entry(x, k))
  <2> SUFFICES ASSUME NEW k \in 0 .. n - 1, Late(Entry(x, k)) PROVE Finished(Entry(x, k))
    OBVIOUS
  <2>1. Entry(x, k).ready \in Int
    BY <1>1, EntryTyped, TimesFacts DEF Entries
  <2> QED
    BY <2>1 DEF Late, Finished
<1>5. Live(y)
  BY <1>2, <1>3 DEF Inv, Ring, Live
<1>6. Waits(y)
  <2> SUFFICES ASSUME NEW j \in 0 .. n, Entry(y, j).state = "issued", NEW s \in Entry(y, j).deps
               PROVE  \E i \in 0 .. j - 1 : s = Slot(y, i) /\ ~Late(Entry(y, i))
    BY <1>3 DEF Waits
  <2>1. CASE j = n
    <3>1. PICK i \in 0 .. n - 1 : s = Slot(x, i) /\ ~Finished(Entry(x, i))
      BY <2>1, <1>2
    <3> QED
      BY <2>1, <3>1, <1>2, <1>4
  <2>2. CASE j \in 0 .. n - 1
    <3>1. PICK i \in 0 .. j - 1 : s = Slot(x, i) /\ ~Late(Entry(x, i))
      BY <2>2, <1>2 DEF Inv, Ring, Waits
    <3>2. i \in 0 .. n - 1
      BY <1>1, <2>2
    <3> QED
      BY <3>1, <3>2, <1>2
  <2> QED
    BY <2>1, <2>2, <1>3
<1>7. Order(y)
  <2> SUFFICES ASSUME NEW j \in 0 .. n, NEW i \in 0 .. j - 1,
                      Needs(y, j, i), ~Finished(Entry(y, i))
               PROVE  /\ Entry(y, j).state = "issued"
                      /\ \E m \in i .. j - 1 : /\ Slot(y, m) \in Entry(y, j).deps
                                               /\ m = i \/ Needs(y, m, i)
    BY <1>3 DEF Order
  <2>1. i \in 0 .. n - 1
    BY <1>1
  <2>2. \A b \in 0 .. n - 1 : \A a \in 0 .. b - 1 : Needs(y, b, a) <=> Needs(x, b, a)
    BY <1>1, <1>2, NeedsSame
  <2>3. CASE j = n
    <3>1. PICK m \in i .. n - 1 : Slot(x, m) \in e.deps /\ (m = i \/ Needs(x, m, i))
      BY <2>1, <2>3, <1>2
    <3>2. m \in 0 .. n - 1 /\ (m # i => i \in 0 .. m - 1)
      OBVIOUS
    <3> QED
      BY <2>2, <2>3, <3>1, <3>2, <1>2
  <2>4. CASE j \in 0 .. n - 1
    <3>1. Entry(x, j).state = "issued"
      BY <2>1, <2>2, <2>4, <1>2 DEF Inv, Ring, Order
    <3>2. PICK m \in i .. j - 1 : /\ Slot(x, m) \in Entry(x, j).deps
                                  /\ m = i \/ Needs(x, m, i)
      BY <2>1, <2>2, <2>4, <1>2 DEF Inv, Ring, Order
    <3>3. m \in 0 .. n - 1 /\ (m # i => i \in 0 .. m - 1)
      BY <1>1, <2>4
    <3> QED
      BY <2>2, <2>4, <3>1, <3>2, <3>3, <1>2
  <2> QED
    BY <2>3, <2>4, <1>3
<1>8. QueueScheduled(y)
  BY DEF Inv, QueueScheduled
<1>9. RobScheduled(y)
  BY <1>2, <1>3 DEF Inv, RobScheduled
<1>10. Matched(y)
  <2>1. ASSUME NEW r \in y.reqs, r.rob # -1
        PROVE  \E k \in 0 .. y.size - 1 : r.rob = Slot(y, k) /\ Entry(y, k).state = "executing"
    <3>1. PICK k \in 0 .. n - 1 : r.rob = Slot(x, k) /\ Entry(x, k).state = "executing"
      BY <2>1 DEF Inv, Matched
    <3> QED
      BY <3>1, <1>2, <1>3
  <2>2. ASSUME NEW k \in 0 .. y.size - 1, Entry(y, k).state = "executing"
        PROVE  \E r \in y.reqs : r.rob = Slot(y, k)
    <3>1. k \in 0 .. n - 1
      BY <2>2, <1>2, <1>3
    <3> QED
      BY <2>2, <3>1, <1>2 DEF Inv, Matched
  <2>3. \A r1, r2 \in y.reqs : r1.rob = r2.rob /\ r1.rob # -1 => r1 = r2
    BY DEF Inv, Matched
  <2> QED
    BY <2>1, <2>2, <2>3 DEF Matched
<1>11. Fetched(y)
  BY DEF Inv, Fetched
<1> QED
  BY <1>5, <1>6, <1>7, <1>8, <1>9, <1>10, <1>11 DEF Inv, Ring

\* z is the state after k accesses of ins were given their slots, x the one before.
Filling(x, z, ins, k) ==
    /\ Inv(z) /\ z.head = x.head /\ z.size = x.size + k /\ 1 \in z.events /\ z.q = Tail(x.q)
    /\ z.reqs = x.reqs
    /\ \A i \in 0 .. x.size - 1 : Entry(z, i) = Entry(x, i)
    /\ \A i \in x.size .. z.size - 1 : Entry(z, i).ins = ins /\ Entry(z, i).state = "issued"

\* What InstrsAssumption says of an instruction.
LEMMA InstrTyped ==
    ASSUME NEW ins \in Instrs
    PROVE  /\ ins.line \in Nat /\ ins.miss \in BOOLEAN /\ ins.kind \in Kinds
           /\ Len(ins.mem) \in 0 .. 3
           /\ ins.mem = <<>> <=> Len(ins.mem) = 0
           /\ \A k \in 1 .. Len(ins.mem) : ins.mem[k].addr \in Nat \ {0} /\ ins.mem[k].isread \in BOOLEAN
<1>1. ins \in [kind : Kinds, line : Nat, rr : SUBSET Nat, rw : SUBSET Nat,
               mem : Seq([addr : Nat \ {0}, isread : BOOLEAN]), miss : BOOLEAN]
  BY InstrsAssumption
<1>2. Len(ins.mem) <= 3
  BY InstrsAssumption
<1>3. ins.mem \in Seq([addr : Nat \ {0}, isread : BOOLEAN])
  BY <1>1
<1>4. ins.line \in Nat /\ ins.miss \in BOOLEAN /\ ins.kind \in Kinds
  BY <1>1
<1>5. \A k \in 1 .. Len(ins.mem) : ins.mem[k] \in [addr : Nat \ {0}, isread : BOOLEAN]
  <2> DEFINE A == [addr : Nat \ {0}, isread : BOOLEAN]
             m == ins.mem
  <2>1. m \in Seq(A)
    BY <1>3
  <2> HIDE DEF A, m
  <2>2. \A k \in 1 .. Len(m) : m[k] \in A
    BY <2>1
  <2> QED
    BY <2>2 DEF A, m
<1>6. Len(ins.mem) \in Nat /\ (ins.mem = <<>> <=> Len(ins.mem) = 0)
  BY <1>3
<1>7. \A k \in 1 .. Len(ins.mem) : ins.mem[k].addr \in Nat \ {0} /\ ins.mem[k].isread \in BOOLEAN
  <2> TAKE k \in 1 .. Len(ins.mem)
  <2>1. ins.mem[k] \in [addr : Nat \ {0}, isread : BOOLEAN]
    BY <1>5
  <2> QED
    BY <2>1
<1>8. Len(ins.mem) \in 0 .. 3
  <2>1. \A l \in Nat : l <= 3 => l \in 0 .. 3
    OBVIOUS
  <2> QED
    BY <2>1, <1>2, <1>6, Zenon
<1> QED
  BY <1>4, <1>6, <1>7, <1>8

\* Membership in Unfinished.
LEMMA UnfinishedParts ==
    ASSUME NEW x, NEW i
    PROVE  i \in Unfinished(x) <=> i \in 0 .. x.size - 1 /\ ~Finished(Entry(x, i))
BY DEF Unfinished

\* What the register and branch dependences of an instruction cover.
LEMMA RegDepParts ==
    ASSUME NEW x \in CoreStates, NEW ins
    PROVE  /\ \A s \in RegDep(x, ins) : \E i \in Unfinished(x) : s = Slot(x, i)
           /\ \A i \in Unfinished(x) : Entry(x, i).ins.miss =>
                 \E m \in Unfinished(x) : /\ m >= i /\ Entry(x, m).ins.miss
                                          /\ Slot(x, m) \in RegDep(x, ins)
           /\ \A i \in Unfinished(x), r \in ins.rr : r \in Entry(x, i).ins.rw =>
                 \E m \in Unfinished(x) : /\ m >= i /\ r \in Entry(x, m).ins.rw
                                          /\ Slot(x, m) \in RegDep(x, ins)
<1> DEFINE W(r) == {i \in Unfinished(x) : r \in Entry(x, i).ins.rw}
           M == {i \in Unfinished(x) : Entry(x, i).ins.miss}
<1>1. x.size \in Nat
  BY Constants DEF CoreStates
<1>2. Unfinished(x) \subseteq 0 .. x.size - 1
  BY DEF Unfinished
<1>3. RegDep(x, ins) = (UNION {Youngest(x, W(r)) : r \in ins.rr}) \cup Youngest(x, M)
  BY DEF RegDep
<1>4. M \subseteq Unfinished(x) /\ M \subseteq 0 .. x.size - 1
  BY <1>2
<1>5. \A r : W(r) \subseteq Unfinished(x) /\ W(r) \subseteq 0 .. x.size - 1
  BY <1>2
<1>6. /\ \A s \in Youngest(x, M) : \E i \in M : s = Slot(x, i)
      /\ \A i \in M : \E m \in M : m >= i /\ Slot(x, m) \in Youngest(x, M)
  <2> HIDE DEF M
  <2> QED
    BY <1>1, <1>4, YoungestParts
<1>7. \A r : /\ \A s \in Youngest(x, W(r)) : \E i \in W(r) : s = Slot(x, i)
             /\ \A i \in W(r) : \E m \in W(r) : m >= i /\ Slot(x, m) \in Youngest(x, W(r))
  <2> HIDE DEF W
  <2> QED
    BY <1>1, <1>5, YoungestParts
<1>8. \A s \in RegDep(x, ins) : \E i \in Unfinished(x) : s = Slot(x, i)
  <2> HIDE DEF W, M
  <2> TAKE s \in RegDep(x, ins)
  <2>1. s \in Youngest(x, M) \/ \E r \in ins.rr : s \in Youngest(x, W(r))
    BY <1>3
  <2>2. CASE s \in Youngest(x, M)
    BY <2>2, <1>4, <1>6
  <2>3. ASSUME NEW r \in ins.rr, s \in Youngest(x, W(r))
        PROVE  \E i \in Unfinished(x) : s = Slot(x, i)
    BY <2>3, <1>5, <1>7
  <2> QED
    BY <2>1, <2>2, <2>3
<1>9. \A i \in Unfinished(x) : Entry(x, i).ins.miss =>
         \E m \in Unfinished(x) : /\ m >= i /\ Entry(x, m).ins.miss
                                  /\ Slot(x, m) \in RegDep(x, ins)
  <2> SUFFICES ASSUME NEW i \in Unfinished(x), Entry(x, i).ins.miss
               PROVE  \E m \in Unfinished(x) : /\ m >= i /\ Entry(x, m).ins.miss
                                               /\ Slot(x, m) \in RegDep(x, ins)
    OBVIOUS
  <2>1. PICK m \in M : m >= i /\ Slot(x, m) \in Youngest(x, M)
    BY <1>6
  <2>2. Slot(x, m) \in RegDep(x, ins)
    <3> HIDE DEF W, M
    <3> QED
      BY <1>3, <2>1
  <2> QED
    BY <2>1, <2>2
<1>10. \A i \in Unfinished(x), r \in ins.rr : r \in Entry(x, i).ins.rw =>
          \E m \in Unfinished(x) : /\ m >= i /\ r \in Entry(x, m).ins.rw
                                   /\ Slot(x, m) \in RegDep(x, ins)
  <2> SUFFICES ASSUME NEW i \in Unfinished(x), NEW r \in ins.rr, r \in Entry(x, i).ins.rw
               PROVE  \E m \in Unfinished(x) : /\ m >= i /\ r \in Entry(x, m).ins.rw
                                               /\ Slot(x, m) \in RegDep(x, ins)
    OBVIOUS
  <2>1. PICK m \in W(r) : m >= i /\ Slot(x, m) \in Youngest(x, W(r))
    BY <1>7
  <2>2. Slot(x, m) \in RegDep(x, ins)
    <3> HIDE DEF W, M
    <3> QED
      BY <1>3, <2>1
  <2> QED
    BY <2>1, <2>2
<1> QED
  BY <1>8, <1>9, <1>10

\* An access takes its slot.
LEMMA FillStep ==
    ASSUME NEW x, NEW z, NEW ins \in Instrs, NEW k \in Nat, NEW a \in Nat,
           Inv(x), Filling(x, z, ins, k), z.size < RobMax,
           \/ a = 0 /\ k = 0
           \/ a = k + 1 /\ a \in 1 .. Len(ins.mem)
    PROVE  Filling(x, Fill(z, ins, a, RegDep(x, ins)), ins, k + 1)
<1> DEFINE n == z.size
           D == RegDep(x, ins) \cup InstrDep(z, a) \cup MemDep(z, ins, a)
           e == Filled(ins, a, D)
           y == Fill(z, ins, a, RegDep(x, ins))
<1>1. z \in CoreStates /\ n \in Nat /\ x \in CoreStates /\ x.size \in Nat /\ Inv(z)
      /\ n = x.size + k /\ z.head = x.head /\ n < RobMax /\ RobMax \in Nat
  BY Constants DEF Inv, CoreStates, Filling
<1>2. \A i \in 0 .. x.size - 1 : Entry(z, i) = Entry(x, i) /\ Slot(z, i) = Slot(x, i) /\ i \in 0 .. n - 1
  BY <1>1 DEF Filling, Slot
<1>3. \A i \in x.size .. n - 1 : Entry(z, i).ins = ins /\ Entry(z, i).state = "issued"
  BY DEF Filling
<1>4. \A i \in x.size .. n - 1 : ~Finished(Entry(z, i))
  BY <1>3 DEF Finished
<1>5. \A i \in Unfinished(x) : i \in 0 .. x.size - 1 /\ i \in 0 .. n - 1 /\ ~Finished(Entry(z, i))
  BY <1>2, UnfinishedParts
<1>6. InstrDep(z, a) = IF k > 0 THEN {Slot(z, n - 1)} ELSE {}
  BY DEF InstrDep
<1>7. /\ \A s \in MemDep(z, ins, a) : \E i \in Unfinished(z) : s = Slot(z, i)
      /\ a # 0 => \A i \in Unfinished(z) : Entry(z, i).addr = ins.mem[a].addr =>
            \E m \in Unfinished(z) : /\ m >= i /\ Entry(z, m).addr = ins.mem[a].addr
                                     /\ Slot(z, m) \in MemDep(z, ins, a)
  <2> DEFINE A == {i \in Unfinished(z) : Entry(z, i).addr = ins.mem[a].addr}
  <2>1. CASE a = 0
    BY <2>1 DEF MemDep
  <2>2. CASE a # 0
    <3>1. MemDep(z, ins, a) = Youngest(z, A)
      BY <2>2 DEF MemDep
    <3>2. A \subseteq 0 .. n - 1 /\ A \subseteq Unfinished(z)
      BY UnfinishedParts
    <3>3. /\ \A s \in Youngest(z, A) : \E i \in A : s = Slot(z, i)
          /\ \A i \in A : \E m \in A : m >= i /\ Slot(z, m) \in Youngest(z, A)
      <4> HIDE DEF A
      <4> QED
        BY <1>1, <3>2, YoungestParts
    <3> QED
      BY <3>1, <3>2, <3>3
  <2> QED
    BY <2>1, <2>2
<1>8. /\ \A s \in RegDep(x, ins) : \E i \in Unfinished(x) : s = Slot(x, i)
      /\ \A i \in Unfinished(x) : Entry(x, i).ins.miss =>
            \E m \in Unfinished(x) : /\ m >= i /\ Entry(x, m).ins.miss
                                     /\ Slot(x, m) \in RegDep(x, ins)
      /\ \A i \in Unfinished(x), r \in ins.rr : r \in Entry(x, i).ins.rw =>
            \E m \in Unfinished(x) : /\ m >= i /\ r \in Entry(x, m).ins.rw
                                     /\ Slot(x, m) \in RegDep(x, ins)
  BY <1>1, RegDepParts
<1>9. \A s \in D : \E i \in 0 .. n - 1 : s = Slot(z, i) /\ ~Finished(Entry(z, i))
  <2> TAKE s \in D
  <2>1. CASE s \in RegDep(x, ins)
    <3>1. PICK i \in Unfinished(x) : s = Slot(x, i)
      BY <2>1, <1>8
    <3> QED
      BY <3>1, <1>2, <1>5
  <2>2. CASE s \in InstrDep(z, a)
    <3>1. k > 0 /\ s = Slot(z, n - 1)
      BY <2>2, <1>6
    <3>2. n - 1 \in x.size .. n - 1 /\ n - 1 \in 0 .. n - 1
      BY <3>1, <1>1
    <3> QED
      BY <3>1, <3>2, <1>4
  <2>3. CASE s \in MemDep(z, ins, a)
    BY <2>3, <1>7, UnfinishedParts
  <2> QED
    BY <2>1, <2>2, <2>3
<1>10. D \subseteq Slots
  <2>1. \A i \in 0 .. n - 1 : Slot(z, i) \in Slots
    BY <1>1, EntryTyped
  <2> HIDE DEF D
  <2> QED
    BY <2>1, <1>9
<1>11. /\ e \in Entries /\ e.state = "issued" /\ e.ready = 1 /\ e.deps = D /\ e.ins = ins
       /\ e.addr = IF a = 0 THEN 0 ELSE ins.mem[a].addr
  <2> DEFINE ad == IF a = 0 THEN 0 ELSE ins.mem[a].addr
             rd == a # 0 /\ ins.mem[a].isread
  <2>1. ad \in Nat /\ rd \in BOOLEAN
    BY InstrTyped
  <2>2. e = [state |-> "issued", ready |-> 1, addr |-> ad, isread |-> rd, deps |-> D, ins |-> ins]
    BY DEF Filled
  <2> HIDE DEF ad, rd, D, e
  <2>3. e \in Entries
    BY <2>1, <2>2, <1>10, TimesFacts DEF Entries
  <2> QED
    BY <2>2, <2>3 DEF ad
<1> HIDE DEF e
<1>12. Slot(z, n) \in Slots
  BY <1>1, SlotWraps DEF CoreStates
<1>13. /\ y \in CoreStates /\ y.rob = [z.rob EXCEPT ![Slot(z, n)] = e]
       /\ y.head = z.head /\ y.size = n + 1 /\ y.q = z.q /\ y.events = z.events /\ y.reqs = z.reqs
  <2> DEFINE rob == [z.rob EXCEPT ![Slot(z, n)] = e]
  <2>1. y = [z EXCEPT !.size = n + 1, !.rob = rob]
    BY DEF Fill, e
  <2>2. rob \in [Slots -> Entries]
    BY <1>1, <1>11, <1>12 DEF CoreStates
  <2>3. n + 1 \in 0 .. RobMax
    BY <1>1
  <2> HIDE DEF rob, y, D
  <2> QED
    BY <2>1, <2>2, <2>3, <1>1 DEF rob, CoreStates
<1> HIDE DEF y
<1>14. /\ \A i \in 0 .. n - 1 : Slot(y, i) = Slot(z, i) /\ Entry(y, i) = Entry(z, i)
       /\ Entry(y, n) = e
  <2>1. Behind(z, y, e)
    BY <1>1, <1>13, BehindChanges
  <2> QED
    BY <2>1 DEF Behind
<1>15. ASSUME NEW i \in 0 .. n - 1, Needs(y, n, i), ~Finished(Entry(z, i))
       PROVE  \E m \in i .. n - 1 : Slot(z, m) \in D /\ (m = i \/ Needs(z, m, i))
  <2> HIDE DEF D
  <2>0. RegDep(x, ins) \subseteq D /\ InstrDep(z, a) \subseteq D /\ MemDep(z, ins, a) \subseteq D
    BY DEF D
  <2>1. Entry(y, i) = Entry(z, i) /\ Entry(y, n) = e /\ i \in Unfinished(z)
    BY <1>14, <1>15, UnfinishedParts
  <2>2. i < x.size => i \in Unfinished(x) /\ Entry(z, i) = Entry(x, i)
    <3>1. i < x.size => i \in 0 .. x.size - 1
      BY <1>1
    <3> QED
      BY <3>1, <1>2, <1>15, UnfinishedParts
  <2>3. i >= x.size => /\ k > 0 /\ i \in x.size .. n - 1 /\ n - 1 \in x.size .. n - 1
                       /\ n - 1 \in i .. n - 1
                       /\ Slot(z, n - 1) \in D /\ Entry(z, n - 1).ins = ins /\ Entry(z, i).ins = ins
    <3>1. i >= x.size => k > 0 /\ i \in x.size .. n - 1 /\ n - 1 \in x.size .. n - 1
                         /\ n - 1 \in i .. n - 1
      BY <1>1
    <3> QED
      BY <3>1, <1>3, <1>6, <2>0
  <2>4. CASE Entry(z, i).ins.miss
    <3>1. CASE i < x.size
      <4>1. PICK m \in Unfinished(x) : m >= i /\ Entry(x, m).ins.miss
                                       /\ Slot(x, m) \in RegDep(x, ins)
        BY <2>2, <2>4, <3>1, <1>8
      <4>2. m \in i .. n - 1 /\ Slot(z, m) \in D
        BY <4>1, <1>1, <1>2, <1>5, <2>0
      <4>3. Needs(z, m, i)
        BY <2>4 DEF Needs
      <4> QED
        BY <4>2, <4>3
    <3>2. CASE i >= x.size
      <4>1. Needs(z, n - 1, i)
        BY <2>4 DEF Needs
      <4> QED
        BY <4>1, <3>2, <2>3
    <3> QED
      BY <3>1, <3>2, <1>1
  <2>5. CASE Entry(z, i).addr # 0 /\ Entry(z, i).addr = e.addr
    <3>1. a # 0 /\ Entry(z, i).addr = ins.mem[a].addr
      BY <2>5, <1>11
    <3>2. PICK m \in Unfinished(z) : m >= i /\ Entry(z, m).addr = ins.mem[a].addr
                                     /\ Slot(z, m) \in MemDep(z, ins, a)
      BY <2>1, <3>1, <1>7
    <3>3. m \in i .. n - 1 /\ Slot(z, m) \in D
      BY <3>2, <1>1, <2>0, UnfinishedParts
    <3>4. Needs(z, m, i)
      BY <2>5, <3>1, <3>2 DEF Needs
    <3> QED
      BY <3>3, <3>4
  <2>6. CASE \E r \in e.ins.rr \cap Entry(z, i).ins.rw :
                \A b \in i + 1 .. n - 1 : r \notin Entry(y, b).ins.rw
    <3>1. PICK r \in ins.rr \cap Entry(z, i).ins.rw :
                \A b \in i + 1 .. n - 1 : r \notin Entry(y, b).ins.rw
      BY <2>6, <1>11
    <3>2. \A b \in i + 1 .. n - 1 : r \notin Entry(z, b).ins.rw
      BY <3>1, <1>1, <1>14
    <3>3. CASE i < x.size
      <4>1. PICK m \in Unfinished(x) : m >= i /\ r \in Entry(x, m).ins.rw
                                       /\ Slot(x, m) \in RegDep(x, ins)
        BY <2>2, <3>1, <3>3, <1>8
      <4>2. m \in i .. n - 1 /\ Slot(z, m) \in D /\ r \in Entry(z, m).ins.rw
        BY <4>1, <1>1, <1>2, <1>5, <2>0
      <4>3. m = i
        BY <4>2, <3>2, <1>1
      <4> QED
        BY <4>2, <4>3
    <3>4. CASE i >= x.size
      <4>1. r \in Entry(z, n - 1).ins.rw
        BY <3>1, <3>4, <2>3
      <4>2. n - 1 = i
        BY <4>1, <3>2, <3>4, <1>1
      <4> QED
        BY <4>2, <3>4, <2>3
    <3> QED
      BY <3>3, <3>4, <1>1
  <2> QED
    BY <2>1, <2>4, <2>5, <2>6, <1>15 DEF Needs
<1>16. 1 \in z.events /\ z.q = Tail(x.q) /\ z.reqs = x.reqs
  BY DEF Filling
<1>17. Inv(y)
  <2> HIDE DEF D, n
  <2>1. \A s \in e.deps : \E i \in 0 .. z.size - 1 : s = Slot(z, i) /\ ~Finished(Entry(z, i))
    BY <1>9, <1>11 DEF n
  <2>2. \A i \in 0 .. z.size - 1 : Needs(y, z.size, i) /\ ~Finished(Entry(z, i)) =>
           \E m \in i .. z.size - 1 : Slot(z, m) \in e.deps /\ (m = i \/ Needs(z, m, i))
    BY <1>11, <1>15 DEF n
  <2> QED
    BY <2>1, <2>2, <1>1, <1>11, <1>13, <1>16, AppendKeepsInv DEF n
<1>18. y.size = x.size + (k + 1) /\ (\A i \in x.size .. y.size - 1 : i = n \/ i \in x.size .. n - 1)
  BY <1>1, <1>13
<1>19. \A i \in x.size .. n - 1 : i \in 0 .. n - 1
  BY <1>1
<1>20. \A i \in x.size .. y.size - 1 : Entry(y, i).ins = ins /\ Entry(y, i).state = "issued"
  BY <1>3, <1>11, <1>14, <1>18, <1>19
<1>21. \A i \in 0 .. x.size - 1 : Entry(y, i) = Entry(x, i)
  BY <1>2, <1>14
<1>22. Filling(x, y, ins, k + 1)
  BY <1>1, <1>13, <1>16, <1>17, <1>18, <1>20, <1>21 DEF Filling
<1> QED
  BY <1>22 DEF y

\* The head of the queue can be issued.
Issuable(x) ==
    x.q # <<>> /\ Room(x) /\ Head(x.q).state = "ready" /\ Head(x.q).ready <= 0

\* A queue without its head.
LEMMA TailParts ==
    ASSUME NEW S, NEW q \in Seq(S), q # <<>>
    PROVE  /\ Tail(q) \in Seq(S) /\ Len(Tail(q)) = Len(q) - 1 /\ Len(q) \in Nat /\ Len(q) > 0
           /\ Head(q) = q[1] /\ Head(q) \in S
           /\ \A i \in 1 .. Len(Tail(q)) : i + 1 \in 1 .. Len(q) /\ Tail(q)[i] = q[i + 1]
OBVIOUS

\* The instruction leaves the queue.
LEMMA DequeueKeepsInv ==
    ASSUME NEW x, Inv(x), x.q # <<>>
    PROVE  LET y == At([x EXCEPT !.q = Tail(x.q)], 1)
           IN  Filling(x, y, Head(x.q).ins, 0) /\ Head(x.q).ins \in Instrs
<1> DEFINE c == [x EXCEPT !.q = Tail(x.q)]
           y == At(c, 1)
<1>1. x \in CoreStates /\ x.q \in Seq(QEntries) /\ x.size \in Nat
  BY Constants DEF Inv, CoreStates
<1>2. /\ Tail(x.q) \in Seq(QEntries) /\ Head(x.q) \in QEntries
      /\ \A i \in 1 .. Len(Tail(x.q)) : i + 1 \in 1 .. Len(x.q) /\ Tail(x.q)[i] = x.q[i + 1]
  BY <1>1, TailParts
<1>3. Head(x.q).ins \in Instrs
  BY <1>2 DEF QEntries
<1>4. /\ c \in CoreStates /\ c.q = Tail(x.q) /\ c.rob = x.rob /\ c.head = x.head
      /\ c.size = x.size /\ c.events = x.events /\ c.reqs = x.reqs
  BY <1>1, <1>2 DEF CoreStates
<1> HIDE DEF c
<1>5. /\ \A i : Slot(c, i) = Slot(x, i) /\ Entry(c, i) = Entry(x, i)
      /\ Ring(c)
  BY <1>4, SameRing DEF Inv
<1>6. QueueScheduled(c)
  BY <1>2, <1>4 DEF Inv, QueueScheduled
<1>7. RobScheduled(c)
  BY <1>4, <1>5 DEF Inv, RobScheduled
<1>8. Matched(c)
  BY <1>4, <1>5 DEF Inv, Matched
<1>9. Fetched(c)
  BY <1>2, <1>4 DEF Inv, Fetched
<1>10. Inv(c)
  BY <1>4, <1>5, <1>6, <1>7, <1>8, <1>9 DEF Inv
<1>11. 1 \in Times \ {Past}
  BY TimesFacts
<1>12. Inv(y)
  BY <1>10, <1>11, AtKeepsInv
<1>13. /\ y.q = c.q /\ y.rob = c.rob /\ y.head = c.head /\ y.size = c.size
       /\ y.events = c.events \cup {1} /\ y.reqs = c.reqs
  BY <1>4, <1>11, AtParts
<1> HIDE DEF y
<1>14. \A i : Entry(y, i) = Entry(x, i)
  BY <1>4, <1>13 DEF Entry, Slot
<1>15. x.size .. y.size - 1 = {} /\ y.size = x.size + 0
  BY <1>1, <1>4, <1>13
<1>16. Filling(x, y, Head(x.q).ins, 0)
  BY <1>4, <1>12, <1>13, <1>14, <1>15 DEF Filling
<1> QED
  BY <1>3, <1>16 DEF y, c

\* The slot behind the last access is written, and is not in use.
LEMMA StrayKeepsInv ==
    ASSUME NEW x, Inv(x), x.size < RobMax
    PROVE  /\ Inv(Stray(x)) /\ Stray(x).q = x.q /\ Stray(x).events = x.events
           /\ Stray(x).reqs = x.reqs
<1> DEFINE s == Slot(x, x.size)
           e == [x.rob[s] EXCEPT !.state = "issued", !.ready = 1]
           rob == [x.rob EXCEPT ![s] = e]
           y == Stray(x)
<1>1. x \in CoreStates /\ x.size \in 0 .. RobMax - 1 /\ x.rob \in [Slots -> Entries]
  BY Constants DEF Inv, CoreStates
<1>2. s \in Slots
  BY <1>1, SlotWraps DEF CoreStates
<1>3. e \in Entries
  BY <1>1, <1>2, TimesFacts, EntryMoves
<1>4. y = [x EXCEPT !.rob = rob]
  BY DEF Stray
<1> HIDE DEF e
<1>5. rob \in [Slots -> Entries]
  BY <1>1, <1>2, <1>3
<1> HIDE DEF y
<1>6. /\ y \in CoreStates /\ y.rob = rob /\ y.head = x.head /\ y.size = x.size
      /\ y.q = x.q /\ y.events = x.events /\ y.reqs = x.reqs
  <2> HIDE DEF rob
  <2> QED
    BY <1>1, <1>4, <1>5 DEF CoreStates
<1>7. Behind(x, y, e)
  BY <1>1, <1>6, BehindChanges
<1>8. Inv(y)
  BY <1>6, <1>7, SameView DEF Behind
<1> QED
  BY <1>6, <1>8 DEF y

\* One instruction is issued, or the state stays as it is.
LEMMA IssueOneKeepsInv ==
    ASSUME NEW x, NEW n, Inv(x)
    PROVE  /\ Inv(IssueOne(x, n)) /\ Len(IssueOne(x, n).q) <= Len(x.q)
           /\ IssueOne(x, n).reqs = x.reqs
           /\ IssueOne(x, n).events # {} \/ (IssueOne(x, n) = x /\ ~Issuable(x))
<1> DEFINE ins == Head(x.q).ins
           deps == RegDep(x, ins)
           y == At([x EXCEPT !.q = Tail(x.q)], 1)
           w == IssueOne(x, n)
<1>1. x \in CoreStates /\ x.q \in Seq(QEntries) /\ x.size \in Nat /\ RobMax \in Nat
  BY Constants DEF Inv, CoreStates
<1>2. CASE ~Issuable(x)
  <2>1. w = x
    BY <1>2 DEF IssueOne, Issuable
  <2> HIDE DEF w
  <2>2. Len(x.q) \in Nat
    BY <1>1
  <2>3. Len(x.q) <= Len(x.q)
    BY <2>2
  <2> QED
    BY <1>2, <2>1, <2>3 DEF w
<1>3. CASE Issuable(x)
  <2>1. w = IF ins.mem = <<>> THEN Fill(y, ins, 0, deps) ELSE Stray(FillAll(y, ins, deps))
    BY <1>3 DEF IssueOne, Issuable
  <2>2. x.q # <<>> /\ x.size < RobMax - 3
    BY <1>3 DEF Issuable, Room
  <2>3. Filling(x, y, ins, 0) /\ ins \in Instrs
    BY <2>2, DequeueKeepsInv
  <2>4. Len(Tail(x.q)) <= Len(x.q)
    <3>1. Len(Tail(x.q)) = Len(x.q) - 1 /\ Len(x.q) \in Nat
      BY <1>1, <2>2, TailParts
    <3> QED
      BY <3>1
  <2> HIDE DEF y, w, ins
  <2>5. /\ Len(ins.mem) \in 0 .. 3 /\ (ins.mem = <<>> <=> Len(ins.mem) = 0)
    BY <2>3, InstrTyped
  <2>6. CASE ins.mem = <<>>
    <3>1. w = Fill(y, ins, 0, deps)
      BY <2>1, <2>6
    <3>2. y.size < RobMax
      BY <2>2, <2>3, <1>1 DEF Filling
    <3>3. Filling(x, Fill(y, ins, 0, deps), ins, 0 + 1)
      BY <2>3, <3>2, FillStep
    <3>4. Inv(w) /\ w.q = Tail(x.q) /\ 1 \in w.events /\ w.reqs = x.reqs
      BY <3>1, <3>3 DEF Filling
    <3> QED
      BY <3>4, <2>4 DEF w
  <2>7. CASE ins.mem # <<>>
    <3> DEFINE T == {p \in CoreStates \X Nat : Filling(x, p[1], ins, p[2])}
               v == FillAll(y, ins, deps)
    <3>1. <<y, 0>> \in T
      BY <2>3 DEF Filling, Inv
    <3>2. ASSUME NEW z, NEW k \in 0 .. Len(ins.mem) - 1, <<z, k>> \in T
          PROVE  <<Fill(z, ins, k + 1, deps), k + 1>> \in T
      <4>1. Filling(x, z, ins, k)
        BY <3>2
      <4>2. k \in Nat /\ k + 1 \in Nat /\ k + 1 \in 1 .. Len(ins.mem) /\ k <= 2
        <5>1. \A l \in 0 .. 3 : \A j \in 0 .. l - 1 :
                 j \in Nat /\ j + 1 \in Nat /\ j + 1 \in 1 .. l /\ j <= 2
          OBVIOUS
        <5> QED
          BY <5>1, <2>5, Zenon
      <4>3. z.size < RobMax
        <5>1. z.size = x.size + k
          BY <4>1 DEF Filling
        <5> QED
          BY <5>1, <4>2, <2>2, <1>1
      <4>4. Filling(x, Fill(z, ins, k + 1, deps), ins, k + 1)
        BY <2>3, <4>1, <4>2, <4>3, FillStep
      <4>5. Fill(z, ins, k + 1, deps) \in CoreStates
        BY <4>4 DEF Filling, Inv
      <4> QED
        BY <4>2, <4>4, <4>5
    <3>3. <<v, Len(ins.mem)>> \in T
      <4> HIDE DEF T, deps
      <4>1. Len(ins.mem) \in Nat
        BY <2>5
      <4> QED
        BY <3>1, <3>2, <4>1, FillLoop
    <3>4. Filling(x, v, ins, Len(ins.mem))
      BY <3>3
    <3> HIDE DEF v
    <3>5. v.size < RobMax
      <4>1. v.size = x.size + Len(ins.mem)
        BY <3>4 DEF Filling
      <4>2. \A l \in 0 .. 3 : x.size + l < RobMax
        BY <2>2, <1>1
      <4> QED
        BY <4>1, <4>2, <2>5, Zenon
    <3>6. Inv(v) /\ v.q = Tail(x.q) /\ 1 \in v.events /\ v.reqs = x.reqs
      BY <3>4 DEF Filling
    <3>7. Inv(Stray(v)) /\ Stray(v).q = v.q /\ Stray(v).events = v.events /\ Stray(v).reqs = v.reqs
      BY <3>5, <3>6, StrayKeepsInv
    <3>8. w = Stray(v)
      BY <2>1, <2>7 DEF v
    <3> QED
      BY <3>6, <3>7, <3>8, <2>4 DEF w
  <2> QED
    BY <2>6, <2>7
<1> QED
  BY <1>2, <1>3

\* Issue keeps the invariant; and if nothing is scheduled after it, it did
\* nothing, for nothing could be issued.
LEMMA IssueKeepsInv ==
    ASSUME NEW x, Inv(x)
    PROVE  /\ Inv(Issue(x)) /\ Len(Issue(x).q) <= Len(x.q) /\ Issue(x).reqs = x.reqs
           /\ Issue(x).events # {} \/ (Issue(x) = x /\ ~Issuable(x))
<1> DEFINE Good(y, k) == /\ Inv(y) /\ Len(y.q) <= Len(x.q) /\ y.reqs = x.reqs
                         /\ y.events # {} \/ (y = x /\ (k > 0 => ~Issuable(x)))
           T == {p \in CoreStates \X Nat : Good(p[1], p[2])}
<1>1. x \in CoreStates /\ Len(x.q) \in Nat
  BY DEF Inv, CoreStates
<1>2. Good(x, 0)
  BY <1>1
<1>3. ASSUME NEW y, NEW k \in Nat, Good(y, k)
      PROVE  Good(IssueOne(y, k), k + 1)
  <2> DEFINE w == IssueOne(y, k)
  <2>1. /\ Inv(w) /\ Len(w.q) <= Len(y.q) /\ w.reqs = y.reqs
        /\ w.events # {} \/ (w = y /\ ~Issuable(y))
    BY <1>3, IssueOneKeepsInv
  <2> HIDE DEF w
  <2>2. Len(w.q) \in Nat /\ Len(y.q) \in Nat
    BY <1>3, <2>1 DEF Inv, CoreStates
  <2>3. Len(w.q) <= Len(x.q)
    BY <1>1, <1>3, <2>1, <2>2
  <2>4. w.events # {} \/ (w = x /\ ~Issuable(x))
    BY <1>3, <2>1
  <2> QED
    BY <1>3, <2>1, <2>3, <2>4 DEF w
<1> HIDE DEF Good
<1>4. <<x, 0>> \in T
  BY <1>1, <1>2
<1>5. \A y : \A k \in 0 .. IssueWidth - 1 : <<y, k>> \in T => <<IssueOne(y, k), k + 1>> \in T
  <2> SUFFICES ASSUME NEW y, NEW k \in 0 .. IssueWidth - 1, <<y, k>> \in T
               PROVE  <<IssueOne(y, k), k + 1>> \in T
    OBVIOUS
  <2>1. k \in Nat /\ k + 1 \in Nat
    BY Constants
  <2>2. Good(IssueOne(y, k), k + 1)
    BY <2>1, <1>3
  <2>3. IssueOne(y, k) \in CoreStates
    BY <2>2 DEF Good, Inv
  <2> QED
    BY <2>1, <2>2, <2>3
<1>6. <<Issue(x), IssueWidth>> \in T
  <2> HIDE DEF T
  <2> QED
    BY <1>4, <1>5, IssueLoop, Constants
<1>7. Good(Issue(x), IssueWidth)
  BY <1>6
<1>8. IssueWidth > 0
  BY Constants
<1> QED
  BY <1>7, <1>8 DEF Good

-----------------------------------------------------------------------------
(* Fetch.                                                                  *)

\* A nonempty set of numbers has a least one.
LEMMA MinOfNats ==
    ASSUME NEW S, S \subseteq Nat, S # {}
    PROVE  Min(S) \in S
<1>1. \E x \in S : \A y \in S : x <= y
  BY NatMin
<1> QED
  BY <1>1 DEF Min

\* Nothing waits to be asked for.
AllAsked(x) == \A i \in 1 .. Len(x.q) : x.q[i].state # "not_in_queue"

\* A function on the places of a queue is a queue as long.
LEMMA MapsQueue ==
    ASSUME NEW S, NEW q \in Seq(S), NEW f, f \in [1 .. Len(q) -> S]
    PROVE  f \in Seq(S) /\ Len(f) = Len(q)
<1>1. Len(q) \in Nat
  OBVIOUS
<1> QED
  BY <1>1

\* Fetch keeps the invariant; and if no request is under way after it, it did
\* nothing, for everything was asked for.
LEMMA FetchKeepsInv ==
    ASSUME NEW x, Inv(x)
    PROVE  /\ Inv(Fetch(x)) /\ Len(Fetch(x).q) = Len(x.q) /\ x.reqs \subseteq Fetch(x).reqs
           /\ Fetch(x).reqs # {} \/ (Fetch(x) = x /\ AllAsked(x))
<1> DEFINE new == {i \in DOMAIN x.q : x.q[i].state = "not_in_queue"}
           far == {i \in new : x.q[i].ins.line # 0}
           asked == {i \in new : IF x.q[i].ins.line = 0 THEN \A j \in far : i < j
                                 ELSE x.q[i].ins.line = x.q[Min(far)].ins.line}
           q == [i \in DOMAIN x.q |-> IF i \in asked
                    THEN [x.q[i] EXCEPT !.state = "being_loaded"] ELSE x.q[i]]
           r(i) == [rob |-> -1, line |-> x.q[i].ins.line, phase |-> "tlb", at |-> 0]
           R == {r(i) : i \in asked}
           y == Fetch(x)
<1>1. x \in CoreStates /\ x.q \in Seq(QEntries) /\ DOMAIN x.q = 1 .. Len(x.q)
  BY DEF Inv, CoreStates
<1>2. Fetch(x) = [x EXCEPT !.q = q, !.reqs = x.reqs \cup R]
  BY DEF Fetch
<1>3. \A i \in 1 .. Len(x.q) : x.q[i] \in QEntries
  BY <1>1
<1>4. asked \subseteq new /\ new \subseteq 1 .. Len(x.q)
  BY <1>1
<1>5. new # {} => asked # {}
  <2>1. SUFFICES ASSUME new # {} PROVE asked # {}
    OBVIOUS
  <2>2. CASE far = {}
    BY <2>1, <2>2
  <2>3. CASE far # {}
    <3>1. far \subseteq Nat
      BY <1>1
    <3>2. Min(far) \in far
      <4> HIDE DEF far
      <4> QED
        BY <2>3, <3>1, MinOfNats
    <3>3. Min(far) \in asked
      BY <3>2
    <3> QED
      BY <3>3
  <2> QED
    BY <2>2, <2>3
<1>6. \A i \in asked : r(i) \in Requests /\ r(i).rob = -1 /\ r(i).line = x.q[i].ins.line
  <2> TAKE i \in asked
  <2>1. x.q[i].ins \in Instrs
    BY <1>3, <1>4 DEF QEntries
  <2>2. x.q[i].ins.line \in Nat
    BY <2>1, InstrTyped
  <2> HIDE DEF asked
  <2> QED
    BY <2>2, Constants DEF Requests
<1>7. \A i \in 1 .. Len(x.q) :
         /\ q[i] \in QEntries
         /\ q[i].ready = x.q[i].ready /\ q[i].ins = x.q[i].ins
         /\ q[i].state = x.q[i].state \/ (q[i].state = "being_loaded" /\ i \in asked)
  <2> TAKE i \in 1 .. Len(x.q)
  <2>1. x.q[i] \in QEntries
    BY <1>3
  <2>2. q[i] = IF i \in asked THEN [x.q[i] EXCEPT !.state = "being_loaded"] ELSE x.q[i]
    BY <1>1
  <2> HIDE DEF q, asked
  <2> QED
    BY <2>1, <2>2 DEF QEntries
<1>8. q \in [1 .. Len(x.q) -> QEntries]
  <2>1. q = [i \in 1 .. Len(x.q) |-> q[i]]
    BY <1>1
  <2> HIDE DEF q
  <2> QED
    BY <1>7, <2>1
<1>9. CASE asked = {}
  <2>1. new = {} /\ R = {}
    BY <1>5, <1>9
  <2>2. q = x.q
    <3>1. q = [i \in DOMAIN x.q |-> x.q[i]]
      BY <1>9
    <3> HIDE DEF q
    <3> QED
      BY <1>1, <3>1
  <2>3. Fetch(x) = x
    <3>1. x.reqs \cup R = x.reqs
      BY <2>1
    <3> HIDE DEF q, R
    <3>2. Fetch(x) = [x EXCEPT !.q = x.q, !.reqs = x.reqs]
      BY ONLY <1>2, <2>2, <3>1
    <3>3. [x EXCEPT !.q = x.q, !.reqs = x.reqs] = x
      BY ONLY <1>1 DEF CoreStates
    <3> QED
      BY ONLY <3>2, <3>3
  <2>4. AllAsked(x)
    BY <1>1, <2>1 DEF AllAsked
  <2> QED
    BY <2>3, <2>4
<1>10. CASE asked # {}
  <2>1. R # {} /\ R \subseteq Requests /\ (\A z \in R : z.rob = -1)
    <3> HIDE DEF asked
    <3> QED
      BY <1>6, <1>10
  <2>2. \A i \in asked : \E z \in R : z.rob = -1 /\ z.line = x.q[i].ins.line
    <3> HIDE DEF asked
    <3> QED
      BY <1>6
  <2> HIDE DEF new, far, asked, q, R, y
  <2>3. q \in Seq(QEntries) /\ Len(q) = Len(x.q)
    BY <1>1, <1>8, MapsQueue
  <2>4. /\ y \in CoreStates /\ y.q = q /\ y.reqs = x.reqs \cup R
        /\ y.rob = x.rob /\ y.head = x.head /\ y.size = x.size /\ y.events = x.events
    <3> DEFINE reqs == x.reqs \cup R
    <3>1. reqs \in SUBSET Requests
      BY <1>1, <2>1 DEF CoreStates
    <3>2. y = [x EXCEPT !.q = q, !.reqs = reqs]
      BY <1>2 DEF y
    <3> HIDE DEF reqs
    <3>3. /\ y \in CoreStates /\ y.q = q /\ y.reqs = reqs
          /\ y.rob = x.rob /\ y.head = x.head /\ y.size = x.size /\ y.events = x.events
      BY <1>1, <2>3, <3>1, <3>2 DEF CoreStates
    <3> QED
      BY <3>3 DEF reqs
  <2>5. /\ \A i : Slot(y, i) = Slot(x, i) /\ Entry(y, i) = Entry(x, i)
        /\ Ring(y)
    BY <2>4, SameRing DEF Inv
  <2>6. QueueScheduled(y)
    BY <1>7, <2>3, <2>4 DEF Inv, QueueScheduled
  <2>7. RobScheduled(y)
    BY <2>4, <2>5 DEF Inv, RobScheduled
  <2>8. Matched(y)
    BY <2>1, <2>4, <2>5 DEF Inv, Matched
  <2>9. Fetched(y)
    BY <1>7, <2>2, <2>3, <2>4 DEF Inv, Fetched
  <2>10. Inv(y)
    BY <2>4, <2>5, <2>6, <2>7, <2>8, <2>9 DEF Inv
  <2> QED
    BY <2>1, <2>3, <2>4, <2>10 DEF y
<1> QED
  BY <1>9, <1>10

-----------------------------------------------------------------------------
(* Release of dependences.                                                 *)

\* Issued entries wait for unfinished ones only.
Clear(x) ==
    \A j \in 0 .. x.size - 1 : Entry(x, j).state = "issued" =>
        \A s \in Entry(x, j).deps : \E i \in 0 .. j - 1 : s = Slot(x, i) /\ ~Finished(Entry(x, i))

\* Released, entry by entry.
LEMMA ReleasedParts ==
    ASSUME NEW x \in CoreStates
    PROVE  /\ Released(x) \in CoreStates
           /\ Released(x).q = x.q /\ Released(x).head = x.head /\ Released(x).size = x.size
           /\ Released(x).events = x.events /\ Released(x).reqs = x.reqs
           /\ \A j \in 0 .. x.size - 1 :
                 /\ Slot(Released(x), j) = Slot(x, j)
                 /\ Entry(Released(x), j) =
                       IF Entry(x, j).state = "issued"
                       THEN [Entry(x, j) EXCEPT !.deps =
                               {d \in Entry(x, j).deps : \A i \in Done(x) : i < j => d # Slot(x, i)}]
                       ELSE Entry(x, j)
<1> DEFINE In(s) == \E j \in 0 .. x.size - 1 : s = Slot(x, j) /\ x.rob[s].state = "issued"
           Left(s) == {d \in x.rob[s].deps : \A i \in Done(x), j \in 0 .. x.size - 1 :
                                                s = Slot(x, j) /\ i < j => d # Slot(x, i)}
           rob == [s \in Slots |-> IF In(s) THEN [x.rob[s] EXCEPT !.deps = Left(s)] ELSE x.rob[s]]
           y == Released(x)
<1>1. x.rob \in [Slots -> Entries] /\ x.head \in Slots
  BY DEF CoreStates
<1>2. y = [x EXCEPT !.rob = rob]
  BY DEF Released
<1>3. rob \in [Slots -> Entries]
  <2>1. ASSUME NEW s \in Slots
        PROVE  (IF In(s) THEN [x.rob[s] EXCEPT !.deps = Left(s)] ELSE x.rob[s]) \in Entries
    <3>1. x.rob[s] \in Entries
      BY <1>1
    <3>2. Left(s) \in SUBSET Slots
      BY <3>1 DEF Entries
    <3> HIDE DEF Left, In
    <3> QED
      BY <3>1, <3>2 DEF Entries
  <2> HIDE DEF Left, In
  <2> QED
    BY <2>1
<1> HIDE DEF y
<1>4. /\ y \in CoreStates /\ y.rob = rob /\ y.q = x.q /\ y.head = x.head /\ y.size = x.size
      /\ y.events = x.events /\ y.reqs = x.reqs
  <2> HIDE DEF rob
  <2> QED
    BY <1>2, <1>3 DEF CoreStates
<1>5. ASSUME NEW j \in 0 .. x.size - 1
      PROVE  /\ Slot(y, j) = Slot(x, j)
             /\ Entry(y, j) =
                   IF Entry(x, j).state = "issued"
                   THEN [Entry(x, j) EXCEPT !.deps =
                           {d \in Entry(x, j).deps : \A i \in Done(x) : i < j => d # Slot(x, i)}]
                   ELSE Entry(x, j)
  <2> DEFINE s == Slot(x, j)
             D == {d \in Entry(x, j).deps : \A i \in Done(x) : i < j => d # Slot(x, i)}
  <2>1. j \in 0 .. RobMax - 1 /\ s \in Slots /\ Entry(x, j) = x.rob[s]
    BY EntryTyped
  <2>2. Slot(y, j) = s
    BY <1>4 DEF Slot
  <2>3. \A k \in 0 .. x.size - 1 : Slot(x, k) = s => k = j
    <3>1. \A k \in 0 .. x.size - 1 : k \in 0 .. RobMax - 1
      BY EntryTyped
    <3> QED
      BY <1>1, <2>1, <3>1, SlotInjective
  <2>4. In(s) <=> Entry(x, j).state = "issued"
    BY <2>1
  <2>5. Left(s) = D
    BY <2>1, <2>3
  <2>6. rob[s] = IF In(s) THEN [x.rob[s] EXCEPT !.deps = Left(s)] ELSE x.rob[s]
    BY <2>1
  <2>7. Entry(y, j) = rob[s]
    BY <2>2, <1>4 DEF Entry
  <2> HIDE DEF rob, Left, In, D
  <2>8. Entry(y, j) = IF Entry(x, j).state = "issued" THEN [Entry(x, j) EXCEPT !.deps = D]
                      ELSE Entry(x, j)
    BY <2>1, <2>4, <2>5, <2>6, <2>7
  <2> QED
    BY <2>2, <2>8 DEF D
<1> QED
  BY <1>4, <1>5 DEF y

\* Releasing dependences keeps the invariant and leaves nobody waiting for a
\* finished entry.
LEMMA ReleasedKeepsInv ==
    ASSUME NEW x, Inv(x)
    PROVE  /\ Inv(Released(x)) /\ Clear(Released(x))
           /\ Released(x).q = x.q /\ Released(x).size = x.size
           /\ Released(x).events = x.events /\ Released(x).reqs = x.reqs
           /\ \A j \in 0 .. x.size - 1 : Entry(x, j).state # "issued" =>
                 Entry(Released(x), j) = Entry(x, j)
<1> DEFINE y == Released(x)
           Left(j) == {d \in Entry(x, j).deps : \A i \in Done(x) : i < j => d # Slot(x, i)}
<1>1. x \in CoreStates /\ x.size \in Nat /\ x.head \in Slots
  BY Constants DEF Inv, CoreStates
<1>2. /\ y \in CoreStates /\ y.q = x.q /\ y.head = x.head /\ y.size = x.size
      /\ y.events = x.events /\ y.reqs = x.reqs
      /\ \A j \in 0 .. x.size - 1 :
            /\ Slot(y, j) = Slot(x, j)
            /\ Entry(y, j) = IF Entry(x, j).state = "issued"
                             THEN [Entry(x, j) EXCEPT !.deps = Left(j)] ELSE Entry(x, j)
  BY <1>1, ReleasedParts
<1> HIDE DEF y
<1>3. \A j \in 0 .. x.size - 1 : Left(j) \subseteq Entry(x, j).deps
  OBVIOUS
<1>4. \A j \in 0 .. x.size - 1 : Entry(x, j) \in Entries /\ j \in 0 .. RobMax - 1
  BY <1>1, EntryTyped
<1>5. \A j \in 0 .. x.size - 1, m \in 0 .. x.size - 1 :
         m < j /\ Slot(x, m) \in Entry(x, j).deps =>
            (Slot(x, m) \notin Left(j) <=> m \in Done(x))
  <2> SUFFICES ASSUME NEW j \in 0 .. x.size - 1, NEW m \in 0 .. x.size - 1, m < j,
                      Slot(x, m) \in Entry(x, j).deps
               PROVE  Slot(x, m) \notin Left(j) <=> m \in Done(x)
    OBVIOUS
  <2>1. \A i \in Done(x) : i \in 0 .. x.size - 1
    BY DEF Done
  <2>2. \A i \in Done(x) : Slot(x, m) = Slot(x, i) => i = m
    BY <2>1, <1>1, <1>4, SlotInjective
  <2> QED
    BY <2>2
<1>6. \A m \in 0 .. x.size - 1 :
         m \in Done(x) <=> Finished(Entry(x, m)) /\ ~Late(Entry(x, m))
  <2> TAKE m \in 0 .. x.size - 1
  <2>1. Entry(x, m).ready \in Int
    BY <1>4, TimesFacts DEF Entries
  <2> QED
    BY <2>1 DEF Done, Finished, Late
<1>7. \A j \in 0 .. x.size - 1 :
         /\ Entry(y, j).state = Entry(x, j).state /\ Entry(y, j).ready = Entry(x, j).ready
         /\ Entry(y, j).ins = Entry(x, j).ins /\ Entry(y, j).addr = Entry(x, j).addr
         /\ Entry(x, j).state = "issued" => Entry(y, j).deps = Left(j)
  <2> TAKE j \in 0 .. x.size - 1
  <2> HIDE DEF Left
  <2>1. Entry(x, j) \in Entries
    BY <1>4
  <2>2. Entry(y, j) = IF Entry(x, j).state = "issued"
                      THEN [Entry(x, j) EXCEPT !.deps = Left(j)] ELSE Entry(x, j)
    BY <1>2
  <2> QED
    BY <2>1, <2>2 DEF Entries
<1>8. \A j \in 0 .. x.size - 1 : /\ Finished(Entry(y, j)) <=> Finished(Entry(x, j))
                                 /\ Late(Entry(y, j)) <=> Late(Entry(x, j))
  BY <1>7 DEF Finished, Late
<1> HIDE DEF Left
<1>9. \A j \in 0 .. x.size - 1 : \A m \in 0 .. j - 1 : m \in 0 .. x.size - 1 /\ m < j
  BY <1>1
<1>10. Evolves(x, y)
  <2>1. Live(x)
    BY DEF Inv, Ring
  <2> QED
    BY <2>1, <1>2, <1>3, <1>5, <1>6, <1>7, <1>8, <1>9 DEF Evolves, Live
<1>11. Ring(y)
  BY <1>1, <1>10, EvolvesKeepsRing DEF Inv
<1>12. QueueScheduled(y)
  BY <1>2 DEF Inv, QueueScheduled
<1>13. RobScheduled(y)
  BY <1>2, <1>7 DEF Inv, RobScheduled
<1>14. Matched(y)
  BY <1>2, <1>7 DEF Inv, Matched
<1>15. Fetched(y)
  BY <1>2 DEF Inv, Fetched
<1>16. Clear(y)
  <2> SUFFICES ASSUME NEW j \in 0 .. x.size - 1, Entry(y, j).state = "issued",
                      NEW s \in Entry(y, j).deps
               PROVE  \E i \in 0 .. j - 1 : s = Slot(y, i) /\ ~Finished(Entry(y, i))
    BY <1>2 DEF Clear
  <2>1. Entry(x, j).state = "issued" /\ s \in Left(j) /\ s \in Entry(x, j).deps
    BY <1>3, <1>7
  <2>2. PICK i \in 0 .. j - 1 : s = Slot(x, i) /\ ~Late(Entry(x, i))
    BY <2>1 DEF Inv, Ring, Waits
  <2>3. i \in 0 .. x.size - 1 /\ i < j
    BY <1>9
  <2>4. i \notin Done(x)
    BY <2>1, <2>2, <2>3, <1>5
  <2>5. ~Finished(Entry(y, i))
    BY <2>2, <2>3, <2>4, <1>6, <1>8
  <2> QED
    BY <2>2, <2>3, <2>5, <1>2
<1>17. Inv(y)
  BY <1>2, <1>11, <1>12, <1>13, <1>14, <1>15 DEF Inv
<1>18. \A j \in 0 .. x.size - 1 : Entry(x, j).state # "issued" => Entry(y, j) = Entry(x, j)
  BY <1>2
<1> QED
  BY <1>2, <1>16, <1>17, <1>18 DEF y

\* Releasing keeps the invariant; and if nothing is scheduled after it, nothing
\* completed at this very moment.
LEMMA WakeUpKeepsInv ==
    ASSUME NEW x, Inv(x)
    PROVE  /\ Inv(WakeUp(x)) /\ Clear(WakeUp(x))
           /\ WakeUp(x).q = x.q /\ WakeUp(x).size = x.size /\ WakeUp(x).reqs = x.reqs
           /\ x.events \subseteq WakeUp(x).events
           /\ \A j \in 0 .. x.size - 1 : Entry(x, j).state # "issued" =>
                 Entry(WakeUp(x), j) = Entry(x, j)
           /\ WakeUp(x).events # {} \/ Done(x) = {}
<1> DEFINE y == Released(x)
           w == WakeUp(x)
<1>1. /\ Inv(y) /\ Clear(y) /\ y.q = x.q /\ y.size = x.size
      /\ y.events = x.events /\ y.reqs = x.reqs
      /\ \A j \in 0 .. x.size - 1 : Entry(x, j).state # "issued" => Entry(y, j) = Entry(x, j)
  BY ReleasedKeepsInv
<1> HIDE DEF y
<1>2. CASE Done(x) = {}
  <2>1. w = y
    BY <1>2 DEF WakeUp, y
  <2> QED
    BY <1>1, <1>2, <2>1
<1>3. CASE Done(x) # {}
  <2>1. w = At(y, 1)
    BY <1>3 DEF WakeUp, y
  <2>2. 1 \in Times \ {Past} /\ y \in CoreStates
    BY <1>1, TimesFacts DEF Inv
  <2>3. Inv(w)
    BY <1>1, <2>1, <2>2, AtKeepsInv
  <2>4. /\ w.events = y.events \cup {1} /\ w.q = y.q /\ w.rob = y.rob /\ w.head = y.head
        /\ w.size = y.size /\ w.reqs = y.reqs
    BY <2>1, <2>2, AtParts
  <2> HIDE DEF w
  <2>5. \A i : Slot(w, i) = Slot(y, i) /\ Entry(w, i) = Entry(y, i)
    BY <2>4 DEF Slot, Entry
  <2>6. Clear(w)
    BY <1>1, <2>4, <2>5 DEF Clear
  <2> QED
    BY <1>1, <2>3, <2>4, <2>5, <2>6 DEF w
<1> QED
  BY <1>2, <1>3

-----------------------------------------------------------------------------
(* Commit.                                                                 *)

\* y is x without its oldest entry.
Shifted(x, y) ==
    /\ y.size = x.size - 1
    /\ \A i \in 0 .. y.size - 1 : Slot(y, i) = Slot(x, i + 1) /\ Entry(y, i) = Entry(x, i + 1)

\* Position 0 is the head.
LEMMA HeadSlot ==
    ASSUME NEW x \in CoreStates
    PROVE  Slot(x, 0) = x.head /\ Entry(x, 0) = x.rob[x.head]
<1>1. x.head \in Slots /\ RobMax \in Nat /\ RobMax >= 4
  BY Constants DEF CoreStates
<1>2. 0 \in 0 .. RobMax - 1
  BY <1>1
<1>3. Slot(x, 0) = IF x.head + 0 < RobMax THEN x.head + 0 ELSE (x.head + 0) - RobMax
  BY <1>1, <1>2, SlotWraps
<1>4. x.head \in Int /\ x.head < RobMax
  BY <1>1 DEF Slots
<1>5. Slot(x, 0) = x.head
  BY <1>3, <1>4
<1> QED
  BY <1>5 DEF Entry

\* A commit removes the oldest entry.
LEMMA CommitOneShifts ==
    ASSUME NEW x \in CoreStates, NEW n, x.size > 0, Finished(x.rob[x.head])
    PROVE  /\ CommitOne(x, n) \in CoreStates /\ Shifted(x, CommitOne(x, n))
           /\ CommitOne(x, n).q = x.q /\ CommitOne(x, n).events = x.events
           /\ CommitOne(x, n).reqs = x.reqs
<1> DEFINE y == CommitOne(x, n)
           rob == [x.rob EXCEPT ![x.head] = NoEntry]
           head == (x.head + 1) % RobMax
           size == x.size - 1
<1>1. /\ x.head \in Slots /\ x.rob \in [Slots -> Entries] /\ x.size \in 0 .. RobMax
      /\ RobMax \in Nat /\ RobMax >= 4
  BY Constants DEF CoreStates
<1>2. y = [x EXCEPT !.rob = rob, !.size = size, !.head = head]
  BY DEF CommitOne
<1>3. NoEntry \in Entries
  BY TimesFacts DEF NoEntry, Entries
<1>4. rob \in [Slots -> Entries]
  BY <1>1, <1>3
<1>5. size \in 0 .. RobMax
  BY <1>1
<1>6. head \in Slots
  <2>1. 1 \in 0 .. RobMax - 1
    BY <1>1
  <2>2. (x.head + 1) % RobMax = IF x.head + 1 < RobMax THEN x.head + 1 ELSE (x.head + 1) - RobMax
    BY <1>1, <2>1, RingWraps
  <2>4. \A h \in 0 .. RobMax - 1 :
           (IF h + 1 < RobMax THEN h + 1 ELSE (h + 1) - RobMax) \in 0 .. RobMax - 1
    BY <1>1
  <2>5. x.head \in 0 .. RobMax - 1
    BY <1>1 DEF Slots
  <2>6. (IF x.head + 1 < RobMax THEN x.head + 1 ELSE (x.head + 1) - RobMax) \in 0 .. RobMax - 1
    BY <2>4, <2>5, Zenon
  <2> QED
    BY <2>2, <2>6, Zenon DEF Slots
<1> HIDE DEF y
<1>7. /\ y \in CoreStates /\ y.rob = rob /\ y.head = head /\ y.size = size
      /\ y.q = x.q /\ y.events = x.events /\ y.reqs = x.reqs
  <2> HIDE DEF rob, head, size
  <2> QED
    BY <1>2, <1>4, <1>5, <1>6 DEF CoreStates
<1>8. ASSUME NEW i \in 0 .. y.size - 1
      PROVE  Slot(y, i) = Slot(x, i + 1) /\ Entry(y, i) = Entry(x, i + 1)
  <2>1. i \in 0 .. RobMax - 2 /\ i + 1 \in 0 .. RobMax - 1 /\ 0 \in 0 .. RobMax - 1 /\ i + 1 # 0
    BY <1>1, <1>7
  <2>2. y.head = (x.head + 1) % RobMax
    BY <1>7
  <2>3. Slot(y, i) = Slot(x, i + 1)
    BY <1>1, <2>1, <2>2, SlotShifts
  <2> DEFINE k == i + 1
  <2> HIDE DEF k
  <2>4. k \in 0 .. RobMax - 1 /\ k # 0
    BY <2>1 DEF k
  <2>5. Slot(x, k) # Slot(x, 0)
    BY <1>1, <2>1, <2>4, SlotInjective
  <2>6. Slot(x, k) # x.head /\ Slot(x, k) \in Slots
    BY <1>1, <2>4, <2>5, HeadSlot, SlotWraps
  <2>7. rob[Slot(x, k)] = x.rob[Slot(x, k)]
    BY <1>1, <2>6
  <2> HIDE DEF rob
  <2>8. Entry(y, i) = Entry(x, k)
    BY <1>7, <2>3, <2>7 DEF Entry, k
  <2> QED
    BY <2>3, <2>8 DEF k
<1>9. Shifted(x, y)
  BY <1>7, <1>8 DEF Shifted
<1> QED
  BY <1>7, <1>9 DEF y

\* What needs what, one position further on.
LEMMA ShiftedNeeds ==
    ASSUME NEW x, NEW y, x.size \in Nat, Shifted(x, y), NEW j \in 0 .. y.size - 1, NEW i \in 0 .. j - 1
    PROVE  Needs(y, j, i) <=> Needs(x, j + 1, i + 1)
<1>1. y.size \in Int
  BY DEF Shifted
<1>2. Entry(y, i) = Entry(x, i + 1) /\ Entry(y, j) = Entry(x, j + 1)
  BY <1>1 DEF Shifted
<1> DEFINE R == Entry(y, j).ins.rr \cap Entry(y, i).ins.rw
<1>3. ASSUME NEW r \in R
      PROVE  (\A k \in i + 1 .. j - 1 : r \notin Entry(y, k).ins.rw)
             <=> (\A k \in (i + 1) + 1 .. (j + 1) - 1 : r \notin Entry(x, k).ins.rw)
  <2>1. \A k \in i + 1 .. j - 1 : /\ k + 1 \in (i + 1) + 1 .. (j + 1) - 1
                                  /\ Entry(y, k) = Entry(x, k + 1)
    BY <1>1 DEF Shifted
  <2>2. \A k \in (i + 1) + 1 .. (j + 1) - 1 : /\ k - 1 \in i + 1 .. j - 1
                                              /\ (k - 1) + 1 = k
    OBVIOUS
  <2> QED
    BY <2>1, <2>2
<1> QED
  BY <1>2, <1>3 DEF Needs

\* Removing a finished oldest entry keeps the invariant: nobody waits for it.
LEMMA ShiftedKeepsInv ==
    ASSUME NEW x, NEW y, Inv(x), Clear(x), x.size > 0, Finished(Entry(x, 0)), Shifted(x, y),
           y \in CoreStates, y.q = x.q, y.events = x.events, y.reqs = x.reqs
    PROVE  Inv(y) /\ Clear(y)
<1>1. x \in CoreStates /\ x.size \in Nat /\ y.size \in Nat /\ y.size = x.size - 1
  BY Constants DEF Inv, CoreStates, Shifted
<1>2. \A i \in 0 .. y.size - 1 : /\ Slot(y, i) = Slot(x, i + 1) /\ Entry(y, i) = Entry(x, i + 1)
                                 /\ i + 1 \in 0 .. x.size - 1
  BY <1>1 DEF Shifted
<1>3. \A i \in 0 .. x.size - 1 : i # 0 => i - 1 \in 0 .. y.size - 1 /\ (i - 1) + 1 = i
  BY <1>1
<1>4. \A j \in 0 .. y.size - 1 : \A i \in 0 .. j - 1 : Needs(y, j, i) <=> Needs(x, j + 1, i + 1)
  BY <1>1, ShiftedNeeds
<1>5. \A i \in 0 .. x.size - 1 : ~Finished(Entry(x, i)) => ~Late(Entry(x, i))
  <2> SUFFICES ASSUME NEW k \in 0 .. x.size - 1, Late(Entry(x, k)) PROVE Finished(Entry(x, k))
    OBVIOUS
  <2>1. Entry(x, k).ready \in Int
    BY <1>1, EntryTyped, TimesFacts DEF Entries
  <2> QED
    BY <2>1 DEF Late, Finished
<1>6. Live(y)
  BY <1>2 DEF Inv, Ring, Live
<1>7. ASSUME NEW j \in 0 .. y.size - 1, Entry(y, j).state = "issued", NEW s \in Entry(y, j).deps
      PROVE  \E i \in 0 .. j - 1 : s = Slot(y, i) /\ ~Finished(Entry(y, i)) /\ ~Late(Entry(y, i))
  <2>1. j + 1 \in 0 .. x.size - 1 /\ Entry(x, j + 1).state = "issued" /\ s \in Entry(x, j + 1).deps
    BY <1>2, <1>7
  <2>2. PICK i \in 0 .. (j + 1) - 1 : s = Slot(x, i) /\ ~Finished(Entry(x, i))
    BY <2>1 DEF Clear
  <2>3. i # 0
    BY <2>2
  <2>4. i - 1 \in 0 .. j - 1 /\ i - 1 \in 0 .. y.size - 1 /\ (i - 1) + 1 = i /\ i \in 0 .. x.size - 1
    BY <2>3, <1>1
  <2>5. Slot(y, i - 1) = Slot(x, i) /\ Entry(y, i - 1) = Entry(x, i)
    BY <2>4, <1>2
  <2> QED
    BY <2>2, <2>4, <2>5, <1>5
<1>8. Waits(y) /\ Clear(y)
  BY <1>7 DEF Waits, Clear
<1>9. Order(y)
  <2> SUFFICES ASSUME NEW j \in 0 .. y.size - 1, NEW i \in 0 .. j - 1,
                      Needs(y, j, i), ~Finished(Entry(y, i))
               PROVE  /\ Entry(y, j).state = "issued"
                      /\ \E m \in i .. j - 1 : /\ Slot(y, m) \in Entry(y, j).deps
                                               /\ m = i \/ Needs(y, m, i)
    BY DEF Order
  <2>1. i \in 0 .. y.size - 1 /\ i + 1 \in 0 .. (j + 1) - 1 /\ j + 1 \in 0 .. x.size - 1
    BY <1>1
  <2>2. Needs(x, j + 1, i + 1) /\ ~Finished(Entry(x, i + 1))
    BY <2>1, <1>2, <1>4
  <2>3. /\ Entry(x, j + 1).state = "issued"
        /\ \E m \in i + 1 .. (j + 1) - 1 : /\ Slot(x, m) \in Entry(x, j + 1).deps
                                           /\ m = i + 1 \/ Needs(x, m, i + 1)
    BY <2>1, <2>2 DEF Inv, Ring, Order
  <2>4. PICK m \in i + 1 .. (j + 1) - 1 : /\ Slot(x, m) \in Entry(x, j + 1).deps
                                          /\ m = i + 1 \/ Needs(x, m, i + 1)
    BY <2>3
  <2>5. /\ m - 1 \in i .. j - 1 /\ m - 1 \in 0 .. y.size - 1 /\ (m - 1) + 1 = m
        /\ m - 1 = i \/ i \in 0 .. (m - 1) - 1
    BY <1>1
  <2>6. Slot(y, m - 1) = Slot(x, m) /\ Entry(y, j) = Entry(x, j + 1)
    BY <2>5, <1>2
  <2>7. m - 1 = i \/ Needs(y, m - 1, i)
    <3>1. CASE m - 1 = i
      BY <3>1
    <3>2. CASE m - 1 # i
      <4>1. m # i + 1
        BY <3>2
      <4>2. Needs(x, m, i + 1)
        BY <2>4, <4>1
      <4>3. Needs(y, m - 1, i) <=> Needs(x, (m - 1) + 1, i + 1)
        BY <1>4, <2>5, <3>2
      <4> QED
        BY <4>2, <4>3, <2>5
    <3> QED
      BY <3>1, <3>2
  <2> QED
    BY <2>3, <2>4, <2>5, <2>6, <2>7
<1>10. QueueScheduled(y)
  BY DEF Inv, QueueScheduled
<1>11. RobScheduled(y)
  BY <1>2 DEF Inv, RobScheduled
<1>12. Matched(y)
  <2>1. ASSUME NEW r \in y.reqs, r.rob # -1
        PROVE  \E k \in 0 .. y.size - 1 : r.rob = Slot(y, k) /\ Entry(y, k).state = "executing"
    <3>1. PICK k \in 0 .. x.size - 1 : r.rob = Slot(x, k) /\ Entry(x, k).state = "executing"
      BY <2>1 DEF Inv, Matched
    <3>2. k # 0
      BY <3>1 DEF Finished
    <3>3. k - 1 \in 0 .. y.size - 1 /\ Slot(y, k - 1) = Slot(x, k) /\ Entry(y, k - 1) = Entry(x, k)
      BY <3>2, <1>2, <1>3
    <3> QED
      BY <3>1, <3>3
  <2>2. \A k \in 0 .. y.size - 1 : Entry(y, k).state = "executing" =>
           \E r \in y.reqs : r.rob = Slot(y, k)
    BY <1>2 DEF Inv, Matched
  <2>3. \A r1, r2 \in y.reqs : r1.rob = r2.rob /\ r1.rob # -1 => r1 = r2
    BY DEF Inv, Matched
  <2> QED
    BY <2>1, <2>2, <2>3 DEF Matched
<1>13. Fetched(y)
  BY DEF Inv, Fetched
<1> QED
  BY <1>6, <1>8, <1>9, <1>10, <1>11, <1>12, <1>13 DEF Inv, Ring

\* The size of the reorder buffer is a number.
LEMMA SizeNat ==
    ASSUME NEW x, Inv(x) PROVE x \in CoreStates /\ x.size \in Nat
  BY Constants DEF Inv, CoreStates

AllFinished(x) == \A i \in 0 .. x.size - 1 : Finished(Entry(x, i))

\* Committing keeps the invariant; and of a buffer in which everything is
\* finished nothing is left, or the next cycle is scheduled.
LEMMA CommitKeepsInv ==
    ASSUME NEW x, Inv(x), Clear(x)
    PROVE  /\ Inv(Commit(x)) /\ Clear(Commit(x))
           /\ Commit(x).q = x.q /\ Commit(x).reqs = x.reqs /\ x.events \subseteq Commit(x).events
           /\ AllFinished(x) /\ Commit(x).events = {} => Commit(x).size = 0 /\ x.size <= CommitWidth
<1> DEFINE Good(y, k) == /\ Inv(y) /\ Clear(y) /\ y.q = x.q /\ y.reqs = x.reqs /\ y.events = x.events
                         /\ x.size <= y.size + k
                         /\ AllFinished(x) => AllFinished(y)
           T == {p \in CoreStates \X Nat : Good(p[1], p[2])}
<1>1. x \in CoreStates /\ x.size \in Nat
  BY SizeNat
<1>2. Good(x, 0)
  BY <1>1
<1>3. ASSUME NEW y, NEW k \in Nat, Good(y, k)
      PROVE  Good(CommitOne(y, k), k + 1)
  <2> DEFINE w == CommitOne(y, k)
  <2>1. y \in CoreStates /\ y.size \in Nat
    BY ONLY <1>3, SizeNat
  <2>2. CASE y.size > 0 /\ Finished(y.rob[y.head])
    <3>1. w \in CoreStates /\ Shifted(y, w) /\ w.q = y.q /\ w.events = y.events /\ w.reqs = y.reqs
      BY <2>1, <2>2, CommitOneShifts
    <3> HIDE DEF w
    <3>2. Finished(Entry(y, 0))
      BY <2>1, <2>2, HeadSlot
    <3>3. Inv(w) /\ Clear(w)
      BY <1>3, <2>2, <3>1, <3>2, ShiftedKeepsInv
    <3>4. w.size = y.size - 1 /\ w.size \in Nat
      BY <2>1, <2>2, <3>1 DEF Shifted
    <3>5. AllFinished(y) => AllFinished(w)
      <4>1. \A i \in 0 .. w.size - 1 : i + 1 \in 0 .. y.size - 1
        BY <2>1, <3>4
      <4> QED
        BY <3>1, <4>1 DEF AllFinished, Shifted
    <3>6. x.size <= w.size + (k + 1)
      BY <1>1, <1>3, <2>1, <3>4
    <3> QED
      BY <1>3, <3>1, <3>3, <3>5, <3>6 DEF w
  <2>3. CASE ~(y.size > 0 /\ Finished(y.rob[y.head]))
    <3>1. w = y
      BY <2>3 DEF CommitOne
    <3> HIDE DEF w
    <3>2. x.size <= y.size + (k + 1)
      BY <1>1, <1>3, <2>1
    <3> QED
      BY <1>3, <3>1, <3>2 DEF w
  <2> QED
    BY <2>2, <2>3
<1> HIDE DEF Good
<1>4. <<x, 0>> \in T
  BY <1>1, <1>2
<1>5. \A y : \A k \in 0 .. CommitWidth - 1 : <<y, k>> \in T => <<CommitOne(y, k), k + 1>> \in T
  <2> SUFFICES ASSUME NEW y, NEW k \in 0 .. CommitWidth - 1, <<y, k>> \in T
               PROVE  <<CommitOne(y, k), k + 1>> \in T
    OBVIOUS
  <2>1. k \in Nat /\ k + 1 \in Nat
    BY Constants
  <2>2. Good(CommitOne(y, k), k + 1)
    BY <2>1, <1>3
  <2>3. CommitOne(y, k) \in CoreStates
    BY <2>2 DEF Good, Inv
  <2> QED
    BY <2>1, <2>2, <2>3
<1> DEFINE y == Repeat(CommitOne, x, CommitWidth)
           w == Commit(x)
<1>6. <<y, CommitWidth>> \in T
  <2> HIDE DEF T
  <2> QED
    BY <1>4, <1>5, CommitLoop, Constants
<1>7. Good(y, CommitWidth)
  BY <1>6
<1>8. w = IF y.size > 0 /\ Finished(y.rob[y.head]) THEN At(y, 1) ELSE y
  BY DEF Commit
<1> HIDE DEF y, w
<1>9. y \in CoreStates /\ y.size \in Nat /\ 1 \in Times \ {Past}
  BY <1>7, Constants, TimesFacts DEF Good, Inv, CoreStates
<1>10. CASE y.size > 0 /\ Finished(y.rob[y.head])
  <2>1. w = At(y, 1)
    BY <1>8, <1>10
  <2>2. Inv(w)
    BY <1>7, <1>9, <2>1, AtKeepsInv DEF Good
  <2>3. /\ w.events = y.events \cup {1} /\ w.q = y.q /\ w.rob = y.rob /\ w.head = y.head
        /\ w.size = y.size /\ w.reqs = y.reqs
    BY <1>9, <2>1, AtParts
  <2>4. \A i : Slot(w, i) = Slot(y, i) /\ Entry(w, i) = Entry(y, i)
    BY <2>3 DEF Slot, Entry
  <2>5. Clear(w)
    BY <1>7, <2>3, <2>4 DEF Clear, Good
  <2> QED
    BY <1>7, <2>2, <2>3, <2>5 DEF Good, w
<1>11. CASE ~(y.size > 0 /\ Finished(y.rob[y.head]))
  <2>1. w = y
    BY <1>8, <1>11
  <2>2. AllFinished(x) => y.size = 0
    <3>1. y.size > 0 => 0 \in 0 .. y.size - 1
      BY <1>9
    <3>2. AllFinished(y) /\ y.size > 0 => Finished(y.rob[y.head])
      BY <1>9, <3>1, HeadSlot DEF AllFinished
    <3> QED
      BY <1>7, <1>9, <1>11, <3>2 DEF Good
  <2>3. y.size = 0 => x.size <= CommitWidth
    <3>1. x.size <= y.size + CommitWidth
      BY <1>7 DEF Good
    <3> QED
      BY <3>1, Constants
  <2> QED
    BY <1>7, <2>1, <2>2, <2>3 DEF Good, w
<1> QED
  BY <1>10, <1>11

-----------------------------------------------------------------------------
(* A whole call of process_event.                                          *)

\* If nothing is scheduled, under way, ready to start or finished just now, then
\* everything is finished: the oldest entry that is not would wait for an older
\* one, which is finished and would have released it.
LEMMA QuietIsFinished ==
    ASSUME NEW x, Inv(x), x.events = {}, x.reqs = {}, NoneReady(x, x.size), Done(x) = {}
    PROVE  \A i \in 0 .. x.size - 1 : Entry(x, i).state = "completed" /\ Finished(Entry(x, i))
<1> DEFINE U == {i \in 0 .. x.size - 1 : Entry(x, i).state = "issued"}
<1>1. x \in CoreStates /\ x.size \in Nat
  BY Constants DEF Inv, CoreStates
<1>2. \A i \in 0 .. x.size - 1 : Entry(x, i).state \in {"issued", "completed"}
  BY DEF Inv, Ring, Live, Matched
<1>3. \A i \in 0 .. x.size - 1 : Entry(x, i).ready \in Int
  BY <1>1, EntryTyped, TimesFacts DEF Entries
<1>4. \A i \in 0 .. x.size - 1 : Entry(x, i).ready <= 0
  BY <1>2, <1>3 DEF Inv, RobScheduled
<1>5. U = {}
  <2> SUFFICES ASSUME U # {} PROVE FALSE
    OBVIOUS
  <2>1. U \subseteq Nat
    BY <1>1
  <2>2. PICK j \in U : \A k \in U : j <= k
    BY <2>1, NatMin
  <2>3. j \in 0 .. x.size - 1 /\ Entry(x, j).state = "issued" /\ Entry(x, j).deps # {}
    BY <1>4 DEF NoneReady
  <2>4. PICK i \in 0 .. j - 1 : ~Late(Entry(x, i))
    BY <2>3 DEF Inv, Ring, Waits
  <2>5. i \in 0 .. x.size - 1 /\ i < j
    BY <2>3, <1>1
  <2>6. Entry(x, i).state = "completed"
    BY <2>2, <2>3, <2>5, <1>1, <1>2
  <2>7. Entry(x, i).ready = 0
    BY <2>4, <2>5, <2>6, <1>3, <1>4 DEF Late
  <2>8. i \in Done(x)
    BY <2>5, <2>6, <2>7 DEF Done
  <2> QED
    BY <2>8
<1> QED
  BY <1>2, <1>4, <1>5 DEF Finished

\* A queue of which everything is asked for, delivered and due is empty if its
\* head may not be issued although there is room.
LEMMA QuietIsEmpty ==
    ASSUME NEW x, Inv(x), x.events = {}, x.reqs = {}, AllAsked(x), ~Issuable(x), Room(x)
    PROVE  x.q = <<>>
<1> SUFFICES ASSUME x.q # <<>> PROVE FALSE
  OBVIOUS
<1>1. x.q \in Seq(QEntries)
  BY DEF Inv, CoreStates
<1>2. Head(x.q) = x.q[1] /\ Head(x.q) \in QEntries /\ 1 \in 1 .. Len(x.q)
  <2>1. Len(x.q) \in Nat /\ Len(x.q) > 0 /\ Head(x.q) = x.q[1] /\ Head(x.q) \in QEntries
    BY <1>1, TailParts
  <2> QED
    BY <2>1
<1>3. x.q[1].state \in {"not_in_queue", "being_loaded", "ready"} /\ x.q[1].ready \in Int
  BY <1>2, TimesFacts DEF QEntries
<1>4. x.q[1].state = "ready"
  BY <1>2, <1>3 DEF Inv, Fetched, AllAsked
<1>5. x.q[1].ready <= 0
  BY <1>2, <1>3, <1>4 DEF Inv, QueueScheduled
<1> QED
  BY <1>2, <1>4, <1>5 DEF Issuable

\* A call keeps the invariant and leaves nobody waiting for a finished entry;
\* and if it schedules nothing, nothing is left to do.
LEMMA ProcessKeepsInv ==
    ASSUME NEW x, Inv(x)
    PROVE  LET y == Commit(WakeUp(Execute(Issue(Fetch(x)))))
           IN  /\ Inv(y) /\ Clear(y) /\ Len(y.q) <= Len(x.q) /\ x.reqs \subseteq y.reqs
               /\ CommitWidth < RobMax - 3 /\ y.events = {} /\ y.reqs = {} =>
                     y.q = <<>> /\ y.size = 0
<1> DEFINE a == Fetch(x)
           b == Issue(a)
           c == Execute(b)
           d == WakeUp(c)
           y == Commit(d)
<1>1. /\ Inv(a) /\ Len(a.q) = Len(x.q) /\ x.reqs \subseteq a.reqs
      /\ a.reqs # {} \/ (a = x /\ AllAsked(x))
  BY FetchKeepsInv
<1> HIDE DEF a
<1>2. Inv(b) /\ Len(b.q) <= Len(a.q) /\ b.reqs = a.reqs /\ (b.events # {} \/ (b = a /\ ~Issuable(a)))
  BY <1>1, IssueKeepsInv
<1> HIDE DEF b
<1>3. /\ Inv(c) /\ c.size = b.size /\ c.q = b.q /\ b.reqs \subseteq c.reqs
      /\ c.events # {} \/ c.reqs # {} \/ (c = b /\ NoneReady(b, b.size))
  BY <1>2, ExecuteKeepsInv
<1> HIDE DEF c
<1>4. /\ Inv(d) /\ Clear(d) /\ d.q = c.q /\ d.size = c.size /\ d.reqs = c.reqs
      /\ c.events \subseteq d.events /\ (d.events # {} \/ Done(c) = {})
      /\ \A j \in 0 .. c.size - 1 : Entry(c, j).state # "issued" => Entry(d, j) = Entry(c, j)
  BY <1>3, WakeUpKeepsInv
<1> HIDE DEF d
<1>5. /\ Inv(y) /\ Clear(y) /\ y.q = d.q /\ y.reqs = d.reqs /\ d.events \subseteq y.events
      /\ AllFinished(d) /\ y.events = {} => y.size = 0 /\ d.size <= CommitWidth
  BY <1>4, CommitKeepsInv
<1> HIDE DEF y
<1>6. Len(y.q) <= Len(x.q) /\ x.reqs \subseteq y.reqs
  <2>1. Len(x.q) \in Nat /\ Len(a.q) \in Nat /\ Len(b.q) \in Nat
    BY <1>1, <1>2 DEF Inv, CoreStates
  <2> QED
    BY <2>1, <1>1, <1>2, <1>3, <1>4, <1>5
<1>7. ASSUME CommitWidth < RobMax - 3, y.events = {}, y.reqs = {}
      PROVE  y.q = <<>> /\ y.size = 0
  <2>1. d.events = {} /\ d.reqs = {} /\ c.events = {} /\ c.reqs = {} /\ Done(c) = {}
    BY <1>7, <1>4, <1>5
  <2>2. c = b /\ NoneReady(c, c.size)
    BY <2>1, <1>3
  <2>3. b = a /\ ~Issuable(a)
    BY <2>1, <2>2, <1>2
  <2>4. a = x /\ AllAsked(x)
    BY <2>1, <2>2, <2>3, <1>1
  <2>5. \A i \in 0 .. c.size - 1 : Entry(c, i).state = "completed" /\ Finished(Entry(c, i))
    BY <1>3, <2>1, <2>2, QuietIsFinished
  <2>6. AllFinished(d)
    BY <2>5, <1>4 DEF AllFinished
  <2>7. y.size = 0 /\ c.size <= CommitWidth
    BY <2>6, <1>4, <1>5, <1>7
  <2>8. Room(c)
    <3>1. c.size \in Nat
      BY <1>3, Constants DEF Inv, CoreStates
    <3> QED
      BY <3>1, <2>7, <1>7, Constants DEF Room
  <2>9. c.q = <<>>
    BY <2>1, <2>2, <2>3, <2>4, <2>8, <1>3, QuietIsEmpty
  <2> QED
    BY <2>7, <2>9, <1>4, <1>5
<1> QED
  BY <1>5, <1>6, <1>7 DEF a, b, c, d, y

-----------------------------------------------------------------------------
(* The actions.                                                            *)

\* The core's state with all its events.
Whole == [q |-> o3queue, rob |-> o3rob, head |-> o3rob_head, size |-> o3rob_size,
          events |-> events, reqs |-> memreqs, migrate |-> migrate]

\* Where an entry waits for one that is finished just now, the core still runs
\* in this cycle.
Due(x) ==
    \A j \in 0 .. x.size - 1 : Entry(x, j).state = "issued" =>
        \A s \in Entry(x, j).deps :
            x.rob[s].state = "completed" /\ x.rob[s].ready = 0 => 0 \in x.events

Good(x) == Inv(x) /\ Due(x)

\* While a TLB's answer holds up add_instruction, that access is under way.
Resumes == resume_time > 0 => \E r \in memreqs : r.phase = "l1" /\ r.at >= resume_time

\* The rest of the type invariant.
Bounds ==
    /\ Len(o3queue) <= QueueMax
    /\ resume_time \in Past .. MaxLat /\ nacks \in 0 .. MaxNacks
    /\ active \in BOOLEAN /\ returned \in BOOLEAN
    /\ supplied \in 0 .. MaxInstrs

IInv == Good(Whole) /\ Resumes /\ Bounds

\* Whole, field by field.
LEMMA WholeParts ==
    /\ Whole.q = o3queue /\ Whole.rob = o3rob /\ Whole.head = o3rob_head
    /\ Whole.size = o3rob_size /\ Whole.events = events /\ Whole.reqs = memreqs
    /\ Whole.migrate = migrate
BY DEF Whole

\* The same entries of the reorder buffer, and no event less in the future.
LEMMA SameRingKeepsInv ==
    ASSUME NEW x, NEW y \in CoreStates, Inv(x), y.rob = x.rob, y.head = x.head, y.size = x.size,
           x.events \ {0} \subseteq y.events, QueueScheduled(y), Matched(y), Fetched(y)
    PROVE  Inv(y)
<1>1. /\ \A i : Slot(y, i) = Slot(x, i) /\ Entry(y, i) = Entry(x, i)
      /\ Ring(y)
  BY SameRing DEF Inv
<1>2. \A i \in 0 .. x.size - 1 : Entry(x, i).ready \in Int
  BY EntryTyped, TimesFacts DEF Inv, Entries
<1>3. RobScheduled(y)
  BY <1>1, <1>2 DEF Inv, RobScheduled
<1> QED
  BY <1>1, <1>3 DEF Inv

\* The same entries of the reorder buffer, and no event less.
LEMMA SameRingKeepsDue ==
    ASSUME NEW x, NEW y, Due(x), y.rob = x.rob, y.head = x.head, y.size = x.size,
           x.events \subseteq y.events
    PROVE  Due(y)
BY DEF Due, Entry, Slot

\* Everything but the events is the same.
LEMMA EventsKeepInv ==
    ASSUME NEW x, NEW y \in CoreStates, Inv(x), y.rob = x.rob, y.head = x.head, y.size = x.size,
           y.q = x.q, y.reqs = x.reqs, x.events \ {0} \subseteq y.events
    PROVE  Inv(y)
<1>1. \A i : Slot(y, i) = Slot(x, i) /\ Entry(y, i) = Entry(x, i)
  BY SameRing
<1>2. QueueScheduled(y)
  <2>1. \A i \in 1 .. Len(x.q) : x.q[i].ready \in Int
    <3>1. x.q \in Seq(QEntries)
      BY DEF Inv, CoreStates
    <3>2. \A i \in 1 .. Len(x.q) : x.q[i] \in QEntries
      BY <3>1
    <3> QED
      BY <3>2, TimesFacts DEF QEntries
  <2> QED
    BY <2>1 DEF Inv, QueueScheduled
<1>3. Matched(y)
  BY <1>1 DEF Inv, Matched
<1>4. Fetched(y)
  BY DEF Inv, Fetched
<1> QED
  BY <1>2, <1>3, <1>4, SameRingKeepsInv

\* add_instruction keeps the invariant.
LEMMA AddInstructionKeepsGood ==
    ASSUME Good(Whole), NEW ins \in Instrs, AddInstruction(ins)
    PROVE  Good(Whole)'
<1> DEFINE x == Whole
           y == Whole'
           n == [state |-> "not_in_queue", ready |-> 0, ins |-> ins]
<1>1. Inv(x) /\ Due(x) /\ x \in CoreStates
  BY DEF Good, Inv
<1>2. /\ y.rob = x.rob /\ y.head = x.head /\ y.size = x.size /\ y.reqs = x.reqs
      /\ y.migrate = x.migrate /\ y.q = Append(x.q, n) /\ x.events \subseteq y.events
      /\ y.events \subseteq x.events \cup {0}
      /\ y = [q |-> y.q, rob |-> y.rob, head |-> y.head, size |-> y.size,
              events |-> y.events, reqs |-> y.reqs, migrate |-> y.migrate]
  BY DEF Whole, AddInstruction
<1>3. n \in QEntries /\ n.state = "not_in_queue"
  BY TimesFacts DEF QEntries
<1> HIDE DEF n
<1>4. /\ x.q \in Seq(QEntries) /\ Append(x.q, n) \in Seq(QEntries)
      /\ \A i \in 1 .. Len(Append(x.q, n)) :
            \/ i \in 1 .. Len(x.q) /\ Append(x.q, n)[i] = x.q[i]
            \/ Append(x.q, n)[i] = n
  BY <1>1, <1>3 DEF CoreStates
<1> HIDE DEF x, y
<1>5. y.events \in SUBSET (Times \ {Past})
  BY <1>1, <1>2, TimesFacts DEF CoreStates
<1>6. y \in CoreStates
  BY <1>1, <1>2, <1>4, <1>5 DEF CoreStates
<1>7. QueueScheduled(y)
  BY <1>1, <1>2, <1>3, <1>4 DEF Inv, QueueScheduled
<1>8. Fetched(y)
  BY <1>1, <1>2, <1>3, <1>4 DEF Inv, Fetched
<1>9. \A i : Slot(y, i) = Slot(x, i) /\ Entry(y, i) = Entry(x, i)
  BY <1>2, SameRing
<1>10. Matched(y)
  BY <1>1, <1>2, <1>9 DEF Inv, Matched
<1>11. Inv(y) /\ Due(y)
  BY <1>1, <1>2, <1>6, <1>7, <1>8, <1>10, SameRingKeepsInv, SameRingKeepsDue
<1> QED
  BY <1>11 DEF y, Good

\* process_event keeps the invariant, and leaves no instruction without an event
\* or a request.
LEMMA ProcessKeepsGood ==
    ASSUME Good(Whole), Process
    PROVE  /\ Good(Whole)' /\ Len(o3queue') <= Len(o3queue) /\ memreqs \subseteq memreqs'
           /\ CommitWidth < RobMax - 3 => NoLostWakeup'
<1> DEFINE y == Commit(WakeUp(Execute(Issue(Fetch(Core)))))
<1>1. Inv(Whole) /\ Whole \in CoreStates
  BY DEF Good, Inv
<1>2. /\ Core.q = o3queue /\ Core.rob = o3rob /\ Core.head = o3rob_head /\ Core.size = o3rob_size
      /\ Core.events = events \ {0} /\ Core.reqs = memreqs
  BY DEF Core
<1>3. Core \in CoreStates
  BY <1>1, WholeParts DEF Core, CoreStates
<1>4. Inv(Core)
  BY <1>1, <1>2, <1>3, WholeParts, EventsKeepInv
<1>5. /\ Inv(y) /\ Clear(y) /\ Len(y.q) <= Len(Core.q) /\ Core.reqs \subseteq y.reqs
      /\ CommitWidth < RobMax - 3 /\ y.events = {} /\ y.reqs = {} => y.q = <<>> /\ y.size = 0
  BY <1>4, ProcessKeepsInv
<1>6. /\ o3queue' = y.q /\ o3rob' = y.rob /\ o3rob_head' = y.head /\ o3rob_size' = y.size
      /\ events' = y.events /\ memreqs' = y.reqs /\ migrate' = y.migrate
  BY DEF Process
<1> HIDE DEF y
<1>7. Whole' = y
  <2>1. Whole' = [q |-> y.q, rob |-> y.rob, head |-> y.head, size |-> y.size,
                  events |-> y.events, reqs |-> y.reqs, migrate |-> y.migrate]
    BY <1>6 DEF Whole
  <2>2. y \in CoreStates
    BY <1>5 DEF Inv
  <2> QED
    BY <2>1, <2>2 DEF CoreStates
<1>8. Due(y)
  <2> SUFFICES ASSUME NEW j \in 0 .. y.size - 1, Entry(y, j).state = "issued",
                      NEW s \in Entry(y, j).deps,
                      y.rob[s].state = "completed", y.rob[s].ready = 0
               PROVE  FALSE
    BY DEF Due
  <2>1. PICK i \in 0 .. j - 1 : s = Slot(y, i) /\ ~Finished(Entry(y, i))
    BY <1>5 DEF Clear
  <2> QED
    BY <2>1 DEF Entry, Finished
<1>9. Good(Whole)'
  BY <1>5, <1>7, <1>8 DEF Good
<1>10. CommitWidth < RobMax - 3 => NoLostWakeup'
  BY <1>5, <1>6 DEF NoLostWakeup
<1> QED
  BY <1>2, <1>5, <1>6, <1>9, <1>10

\* A request goes on to its next stage.
LEMMA RequestMovesKeepsGood ==
    ASSUME Good(Whole), NEW r \in memreqs, NEW m \in Requests, m.rob = r.rob, m.line = r.line,
           memreqs' = (memreqs \ {r}) \cup {m},
           UNCHANGED <<o3queue, o3rob, o3rob_head, o3rob_size, events, migrate>>
    PROVE  Good(Whole)'
<1> DEFINE x == Whole
           y == Whole'
<1>1. Inv(x) /\ Due(x) /\ x \in CoreStates
  BY DEF Good, Inv
<1>2. /\ y.rob = x.rob /\ y.head = x.head /\ y.size = x.size /\ y.events = x.events
      /\ y.migrate = x.migrate /\ y.q = x.q /\ y.reqs = (x.reqs \ {r}) \cup {m} /\ r \in x.reqs
      /\ y = [q |-> y.q, rob |-> y.rob, head |-> y.head, size |-> y.size,
              events |-> y.events, reqs |-> y.reqs, migrate |-> y.migrate]
  BY DEF Whole
<1> HIDE DEF x, y
<1>3. y.reqs \in SUBSET Requests
  BY <1>1, <1>2 DEF CoreStates
<1>4. y \in CoreStates
  BY <1>1, <1>2, <1>3 DEF CoreStates
<1>5. QueueScheduled(y)
  BY <1>1, <1>2 DEF Inv, QueueScheduled
<1>6. Fetched(y)
  BY <1>1, <1>2 DEF Inv, Fetched
<1>7. \A i : Slot(y, i) = Slot(x, i) /\ Entry(y, i) = Entry(x, i)
  BY <1>2, SameRing
<1>8. Matched(y)
  <2>1. \A k \in y.reqs : \E l \in x.reqs : l.rob = k.rob
    BY <1>2
  <2>2. \A l \in x.reqs : \E k \in y.reqs : k.rob = l.rob
    BY <1>2
  <2>3. \A k \in y.reqs : k.rob # -1 =>
           \E i \in 0 .. y.size - 1 : k.rob = Slot(y, i) /\ Entry(y, i).state = "executing"
    BY <1>1, <1>2, <1>7, <2>1 DEF Inv, Matched
  <2>4. \A i \in 0 .. y.size - 1 : Entry(y, i).state = "executing" =>
           \E k \in y.reqs : k.rob = Slot(y, i)
    BY <1>1, <1>2, <1>7, <2>2 DEF Inv, Matched
  <2>5. \A r1, r2 \in y.reqs : r1.rob = r2.rob /\ r1.rob # -1 => r1 = r2
    BY <1>1, <1>2 DEF Inv, Matched
  <2> QED
    BY <2>3, <2>4, <2>5 DEF Matched
<1>9. Inv(y) /\ Due(y)
  BY <1>1, <1>2, <1>4, <1>5, <1>6, <1>8, SameRingKeepsInv, SameRingKeepsDue
<1> QED
  BY <1>9 DEF y, Good

\* The TLB's answer keeps the invariant.
LEMMA TlbReplyKeepsGood ==
    ASSUME Good(Whole), NEW r \in memreqs, NEW t \in 0 .. MaxLat, TlbReply(r, t)
    PROVE  Good(Whole)'
<1> DEFINE m == [r EXCEPT !.phase = "l1", !.at = t]
<1>1. r \in Requests
  BY WholeParts DEF Good, Inv, CoreStates
<1>2. m \in Requests /\ m.rob = r.rob /\ m.line = r.line
  BY <1>1 DEF Requests
<1>3. memreqs' = (memreqs \ {r}) \cup {m}
  BY DEF TlbReply
<1>4. UNCHANGED <<o3queue, o3rob, o3rob_head, o3rob_size, events, migrate>>
  BY DEF TlbReply
<1> HIDE DEF m
<1> QED
  BY <1>2, <1>3, <1>4, RequestMovesKeepsGood

\* A nack keeps the invariant.
LEMMA NackKeepsGood ==
    ASSUME Good(Whole), NEW r \in memreqs, NEW t \in 0 .. MaxLat, Nack(r, t)
    PROVE  Good(Whole)'
<1> DEFINE m == [r EXCEPT !.at = t]
<1>1. r \in Requests
  BY WholeParts DEF Good, Inv, CoreStates
<1>2. m \in Requests /\ m.rob = r.rob /\ m.line = r.line
  BY <1>1 DEF Requests
<1>3. memreqs' = (memreqs \ {r}) \cup {m}
  BY DEF Nack
<1>4. UNCHANGED <<o3queue, o3rob, o3rob_head, o3rob_size, events, migrate>>
  BY DEF Nack
<1> HIDE DEF m
<1> QED
  BY <1>2, <1>3, <1>4, RequestMovesKeepsGood

\* The times at which an answer arrives and completes an entry.
LEMMA AnswerTimes ==
    ASSUME NEW t \in 0 .. MaxLat
    PROVE  /\ t \in Times \ {Past} /\ t \in Int /\ t >= 0
           /\ t + MissPenalty \in Times \ {Past} /\ t + MissPenalty >= 0
           /\ t + 0 = t
BY Constants DEF Times, Past

\* The queue after a line was delivered.
Delivered(q, ln, t) ==
    [i \in DOMAIN q |-> IF q[i].state = "being_loaded" /\ q[i].ins.line = ln
                        THEN [q[i] EXCEPT !.state = "ready", !.ready = t] ELSE q[i]]

\* Delivered, place by place.
LEMMA DeliveredParts ==
    ASSUME NEW q \in Seq(QEntries), NEW ln, NEW t \in Times, NEW p, p = Delivered(q, ln, t)
    PROVE  /\ p \in Seq(QEntries) /\ Len(p) = Len(q)
           /\ \A i \in 1 .. Len(q) :
                 \/ p[i] = q[i] /\ ~(q[i].state = "being_loaded" /\ q[i].ins.line = ln)
                 \/ p[i].state = "ready" /\ p[i].ready = t
<1>1. DOMAIN q = 1 .. Len(q) /\ \A i \in 1 .. Len(q) : q[i] \in QEntries
  BY ONLY q \in Seq(QEntries)
<1>2. \A i \in 1 .. Len(q) :
         /\ p[i] \in QEntries
         /\ \/ p[i] = q[i] /\ ~(q[i].state = "being_loaded" /\ q[i].ins.line = ln)
            \/ p[i].state = "ready" /\ p[i].ready = t
  <2> TAKE i \in 1 .. Len(q)
  <2>1. p[i] = IF q[i].state = "being_loaded" /\ q[i].ins.line = ln
               THEN [q[i] EXCEPT !.state = "ready", !.ready = t] ELSE q[i]
    BY <1>1 DEF Delivered
  <2>2. q[i] \in QEntries
    BY <1>1
  <2> QED
    BY ONLY <2>1, <2>2, t \in Times DEF QEntries
<1>3. p = [i \in 1 .. Len(q) |-> p[i]]
  BY <1>1 DEF Delivered
<1>4. p \in [1 .. Len(q) -> QEntries]
  BY ONLY <1>2, <1>3
<1>5. p \in Seq(QEntries) /\ Len(p) = Len(q)
  BY ONLY q \in Seq(QEntries), <1>4, MapsQueue
<1>6. \A i \in 1 .. Len(q) :
         \/ p[i] = q[i] /\ ~(q[i].state = "being_loaded" /\ q[i].ins.line = ln)
         \/ p[i].state = "ready" /\ p[i].ready = t
  BY <1>2
<1> QED
  BY <1>5, <1>6

\* The instruction cache's answer keeps the invariant.
LEMMA LoadedKeepsGood ==
    ASSUME Good(Whole), NEW r \in memreqs, NEW t \in 0 .. MaxLat, Loaded(r, t)
    PROVE  Good(Whole)' /\ Len(o3queue') = Len(o3queue)
<1> DEFINE x == Whole
           y == Whole'
           p == Delivered(o3queue, r.line, t)
<1>1. Inv(x) /\ Due(x) /\ x \in CoreStates
  BY DEF Good, Inv
<1>2. o3queue \in Seq(QEntries) /\ x.q = o3queue
  BY <1>1, WholeParts DEF CoreStates
<1>3. t \in Times \ {Past} /\ t \in Times
  BY AnswerTimes
<1>4. o3queue' = p
  BY DEF Loaded, Delivered
<1> HIDE DEF p
<1>5. /\ p \in Seq(QEntries) /\ Len(p) = Len(o3queue)
      /\ \A i \in 1 .. Len(o3queue) :
            \/ /\ p[i] = o3queue[i]
               /\ ~(o3queue[i].state = "being_loaded" /\ o3queue[i].ins.line = r.line)
            \/ p[i].state = "ready" /\ p[i].ready = t
  BY <1>2, <1>3, DeliveredParts DEF p
<1>6. /\ y.rob = x.rob /\ y.head = x.head /\ y.size = x.size /\ y.events = x.events \cup {t}
      /\ y.migrate = x.migrate /\ y.q = p /\ y.reqs = x.reqs \ {r} /\ r \in x.reqs /\ r.rob = -1
      /\ y = [q |-> y.q, rob |-> y.rob, head |-> y.head, size |-> y.size,
              events |-> y.events, reqs |-> y.reqs, migrate |-> y.migrate]
  BY <1>4 DEF Whole, Loaded
<1> HIDE DEF x, y
<1>7. y.events \in SUBSET (Times \ {Past}) /\ y.reqs \in SUBSET Requests
  BY <1>1, <1>3, <1>6 DEF CoreStates
<1>8. y \in CoreStates
  BY <1>1, <1>5, <1>6, <1>7 DEF CoreStates
<1>9. QueueScheduled(y)
  BY <1>1, <1>2, <1>5, <1>6 DEF Inv, QueueScheduled
<1>10. Fetched(y)
  BY <1>1, <1>2, <1>5, <1>6 DEF Inv, Fetched
<1>11. \A i : Slot(y, i) = Slot(x, i) /\ Entry(y, i) = Entry(x, i)
  BY <1>6, SameRing
<1>12. Matched(y)
  <2>1. \A i \in 0 .. x.size - 1 : Slot(x, i) # -1
    <3>1. \A i \in 0 .. x.size - 1 : Slot(x, i) \in Slots
      BY <1>1, EntryTyped
    <3>2. -1 \notin Slots
      BY Constants DEF Slots
    <3> QED
      BY <3>1, <3>2
  <2> QED
    BY <1>1, <1>6, <1>11, <2>1 DEF Inv, Matched
<1>13. Inv(y) /\ Due(y)
  BY <1>1, <1>6, <1>8, <1>9, <1>10, <1>12, SameRingKeepsInv, SameRingKeepsDue
<1> QED
  BY <1>4, <1>5, <1>13 DEF y, Good

\* The data cache's answer keeps the invariant: its slot number still names the
\* entry that sent the request.
LEMMA AccessedKeepsGood ==
    ASSUME Good(Whole), NEW r \in memreqs, NEW t \in 0 .. MaxLat, Accessed(r, t)
    PROVE  Good(Whole)'
<1> DEFINE x == Whole
           y == Whole'
           done == t + (IF o3rob[r.rob].ins.miss THEN MissPenalty ELSE 0)
           e == [o3rob[r.rob] EXCEPT !.state = "completed", !.ready = done]
<1>1. Inv(x) /\ Due(x) /\ x \in CoreStates
  BY DEF Good, Inv
<1>2. done \in Times \ {Past} /\ done >= 0 /\ t \in Times \ {Past} /\ done \in Times
  BY AnswerTimes
<1>3. /\ y.rob = [x.rob EXCEPT ![r.rob] = e] /\ x.rob = o3rob
      /\ y.head = x.head /\ y.size = x.size /\ y.events = x.events \cup {t, done}
      /\ y.migrate = x.migrate /\ y.q = x.q /\ y.reqs = x.reqs \ {r} /\ r \in x.reqs /\ r.rob # -1
      /\ y = [q |-> y.q, rob |-> y.rob, head |-> y.head, size |-> y.size,
              events |-> y.events, reqs |-> y.reqs, migrate |-> y.migrate]
  BY DEF Whole, Accessed
<1> HIDE DEF x, y, done
<1>4. PICK i \in 0 .. x.size - 1 : r.rob = Slot(x, i) /\ Entry(x, i).state = "executing"
  BY <1>1, <1>3 DEF Inv, Matched
<1>5. Slot(x, i) \in Slots /\ x.rob[r.rob] \in Entries
  BY <1>1, <1>4, EntryTyped
<1>6. /\ e \in Entries /\ e.state = "completed" /\ e.ready = done
      /\ e = [x.rob[Slot(x, i)] EXCEPT !.state = "completed", !.ready = done]
  BY <1>2, <1>3, <1>4, <1>5 DEF Entries
<1> HIDE DEF e
<1>7. y.rob \in [Slots -> Entries]
  BY <1>1, <1>3, <1>4, <1>5, <1>6 DEF CoreStates
<1>8. y.events \in SUBSET (Times \ {Past}) /\ y.reqs \in SUBSET Requests
  BY <1>1, <1>2, <1>3 DEF CoreStates
<1>9. y \in CoreStates
  BY <1>1, <1>3, <1>7, <1>8 DEF CoreStates
<1>10. x.reqs \ {r} = {k \in x.reqs : k.rob # Slot(x, i)}
  BY <1>1, <1>3, <1>4 DEF Inv, Matched
<1>11. Completes(x, y, i, done)
  BY <1>3, <1>4, <1>6, <1>9, <1>10 DEF Completes
<1>12. Inv(y)
  BY <1>1, <1>2, <1>4, <1>11, CompletesKeepsInv
<1>13. \A k \in 0 .. x.size - 1 :
          Slot(y, k) = Slot(x, k) /\ Entry(y, k) = IF k = i THEN e ELSE Entry(x, k)
  BY <1>1, <1>3, <1>4, OneChanges
<1>14. Due(y)
  <2> SUFFICES ASSUME NEW j \in 0 .. y.size - 1, Entry(y, j).state = "issued",
                      NEW s \in Entry(y, j).deps,
                      y.rob[s].state = "completed", y.rob[s].ready = 0
               PROVE  0 \in y.events
    BY DEF Due
  <2>1. j # i /\ Entry(y, j) = Entry(x, j) /\ j \in 0 .. x.size - 1
    BY <1>3, <1>6, <1>13
  <2>2. s \in Slots
    BY <1>9, EntryTyped DEF Entries
  <2>3. CASE s = r.rob
    <3>1. y.rob[s] = e
      BY <1>3, <2>2, <2>3, <1>1 DEF CoreStates
    <3>2. done = 0
      BY <3>1, <1>6
    <3> QED
      BY <3>2, <1>3
  <2>4. CASE s # r.rob
    <3>1. y.rob[s] = x.rob[s]
      BY <1>3, <2>2, <2>4, <1>1 DEF CoreStates
    <3>2. 0 \in x.events
      BY <1>1, <2>1, <3>1 DEF Due
    <3> QED
      BY <3>2, <1>3
  <2> QED
    BY <2>3, <2>4
<1> QED
  BY <1>12, <1>14 DEF y, Good

\* A time, one cycle later.
LEMMA EarlierTimes ==
    ASSUME NEW t \in Times
    PROVE  /\ Earlier(t) \in Times /\ t \in Int /\ t >= -1
           /\ t = -1 => Earlier(t) = -1
           /\ t # -1 => Earlier(t) = t - 1
           /\ t <= 0 => Earlier(t) = -1
<1>1. Past = -1 /\ t \in Int /\ t >= -1
  BY TimesFacts DEF Times
<1>2. Earlier(t) = IF t = -1 THEN -1 ELSE t - 1
  BY <1>1 DEF Earlier
<1>3. Earlier(t) \in Times
  BY <1>1, <1>2, Constants DEF Times
<1> QED
  BY <1>1, <1>2, <1>3

\* What a tick does to the entries of the queue, of the buffer and to requests.
TickedQueue(q) == [i \in DOMAIN q |-> [q[i] EXCEPT !.ready = Earlier(q[i].ready)]]
TickedRob(rob) == [s \in Slots |-> [rob[s] EXCEPT !.ready = Earlier(rob[s].ready)]]
TickedReq(r)   == [r EXCEPT !.at = IF r.at > 0 THEN r.at - 1 ELSE 0]

\* TickedQueue, place by place.
LEMMA TickedQueueParts ==
    ASSUME NEW q \in Seq(QEntries), NEW p, p = TickedQueue(q)
    PROVE  /\ p \in Seq(QEntries) /\ Len(p) = Len(q)
           /\ \A i \in 1 .. Len(q) : /\ q[i] \in QEntries
                                     /\ p[i].state = q[i].state /\ p[i].ins = q[i].ins
                                     /\ p[i].ready = Earlier(q[i].ready)
<1>1. DOMAIN q = 1 .. Len(q) /\ \A i \in 1 .. Len(q) : q[i] \in QEntries
  BY ONLY q \in Seq(QEntries)
<1>2. \A i \in 1 .. Len(q) : /\ p[i] \in QEntries
                             /\ p[i].state = q[i].state /\ p[i].ins = q[i].ins
                             /\ p[i].ready = Earlier(q[i].ready)
  <2> TAKE i \in 1 .. Len(q)
  <2>1. p[i] = [q[i] EXCEPT !.ready = Earlier(q[i].ready)]
    BY <1>1 DEF TickedQueue
  <2>2. q[i] \in QEntries
    BY <1>1
  <2>3. Earlier(q[i].ready) \in Times
    BY <2>2, EarlierTimes DEF QEntries
  <2> QED
    BY ONLY <2>1, <2>2, <2>3 DEF QEntries
<1>3. p = [i \in 1 .. Len(q) |-> p[i]]
  BY <1>1 DEF TickedQueue
<1>4. p \in [1 .. Len(q) -> QEntries]
  BY ONLY <1>2, <1>3
<1>5. p \in Seq(QEntries) /\ Len(p) = Len(q)
  BY ONLY q \in Seq(QEntries), <1>4, MapsQueue
<1> QED
  BY ONLY <1>1, <1>2, <1>5

\* TickedRob, slot by slot.
LEMMA TickedRobParts ==
    ASSUME NEW rob \in [Slots -> Entries], NEW p, p = TickedRob(rob)
    PROVE  /\ p \in [Slots -> Entries]
           /\ \A s \in Slots : /\ rob[s] \in Entries
                               /\ p[s].state = rob[s].state /\ p[s].ins = rob[s].ins
                               /\ p[s].addr = rob[s].addr /\ p[s].deps = rob[s].deps
                               /\ p[s].ready = Earlier(rob[s].ready)
<1>1. \A s \in Slots : /\ p[s] \in Entries /\ rob[s] \in Entries
                       /\ p[s].state = rob[s].state /\ p[s].ins = rob[s].ins
                       /\ p[s].addr = rob[s].addr /\ p[s].deps = rob[s].deps
                       /\ p[s].ready = Earlier(rob[s].ready)
  <2> TAKE s \in Slots
  <2>1. p[s] = [rob[s] EXCEPT !.ready = Earlier(rob[s].ready)]
    BY DEF TickedRob
  <2>2. rob[s] \in Entries
    OBVIOUS
  <2>3. Earlier(rob[s].ready) \in Times
    BY <2>2, EarlierTimes DEF Entries
  <2> QED
    BY ONLY <2>1, <2>2, <2>3 DEF Entries
<1>2. p = [s \in Slots |-> p[s]]
  BY DEF TickedRob
<1>3. p \in [Slots -> Entries]
  BY ONLY <1>1, <1>2
<1> QED
  BY ONLY <1>1, <1>3

\* TickedReq, field by field.
LEMMA TickedReqParts ==
    ASSUME NEW r \in Requests
    PROVE  /\ TickedReq(r) \in Requests /\ TickedReq(r).rob = r.rob /\ TickedReq(r).line = r.line
           /\ TickedReq(r).phase = r.phase /\ TickedReq(r).at \in Int /\ r.at \in Int
           /\ r.at > 0 => TickedReq(r).at = r.at - 1
<1> DEFINE a == IF r.at > 0 THEN r.at - 1 ELSE 0
<1>1. r.at \in 0 .. MaxLat /\ r.at \in Int
  BY Constants DEF Requests
<1>2. a \in 0 .. MaxLat /\ a \in Int /\ (r.at > 0 => a = r.at - 1)
  BY <1>1, Constants
<1>3. TickedReq(r) = [r EXCEPT !.at = a]
  BY DEF TickedReq
<1> HIDE DEF a
<1> QED
  BY <1>1, <1>2, <1>3 DEF Requests

\* y is x one cycle later.
Ticks(x, y) ==
    /\ 0 \notin x.events /\ y.events = {t - 1 : t \in x.events}
    /\ y.q = TickedQueue(x.q) /\ y.rob = TickedRob(x.rob)
    /\ y.reqs = {TickedReq(r) : r \in x.reqs}
    /\ y.head = x.head /\ y.size = x.size

\* A tick evolves the buffer: as no event is left for this cycle, nobody waits for
\* an entry that is finished just now and would be late then.
LEMMA TicksEvolves ==
    ASSUME NEW x, NEW y, Good(x), Ticks(x, y)
    PROVE  /\ Evolves(x, y)
           /\ \A i \in 0 .. x.size - 1 :
                 /\ Slot(y, i) = Slot(x, i) /\ Entry(x, i) \in Entries
                 /\ Entry(y, i).state = Entry(x, i).state /\ Entry(y, i).deps = Entry(x, i).deps
                 /\ Entry(y, i).ready = Earlier(Entry(x, i).ready)
<1>1. Inv(x) /\ x \in CoreStates /\ x.size \in Nat /\ x.rob \in [Slots -> Entries]
  BY Constants DEF Good, Inv, CoreStates
<1>2. \A s \in Slots : /\ x.rob[s] \in Entries
                       /\ y.rob[s].state = x.rob[s].state /\ y.rob[s].ins = x.rob[s].ins
                       /\ y.rob[s].addr = x.rob[s].addr /\ y.rob[s].deps = x.rob[s].deps
                       /\ y.rob[s].ready = Earlier(x.rob[s].ready)
  BY <1>1, TickedRobParts DEF Ticks
<1>3. \A i : Slot(y, i) = Slot(x, i)
  BY DEF Ticks, Slot
<1>4. \A i \in 0 .. x.size - 1 : Slot(x, i) \in Slots
  BY <1>1, EntryTyped
<1>5. \A i \in 0 .. x.size - 1 :
         /\ Slot(y, i) = Slot(x, i) /\ Entry(x, i) \in Entries
         /\ Entry(y, i).state = Entry(x, i).state /\ Entry(y, i).ins = Entry(x, i).ins
         /\ Entry(y, i).addr = Entry(x, i).addr /\ Entry(y, i).deps = Entry(x, i).deps
         /\ Entry(y, i).ready = Earlier(Entry(x, i).ready)
  BY <1>2, <1>3, <1>4 DEF Entry
<1>6. \A i \in 0 .. x.size - 1 : Entry(x, i).ready \in Times
  BY <1>5 DEF Entries
<1>7. \A i \in 0 .. x.size - 1 : Finished(Entry(x, i)) => Finished(Entry(y, i))
  BY <1>5, <1>6, EarlierTimes DEF Finished
<1>8. ASSUME NEW i \in 0 .. x.size - 1, Entry(x, i).state = "issued", NEW m \in 0 .. i - 1,
             Slot(x, m) \in Entry(x, i).deps, Late(Entry(y, m))
      PROVE  Late(Entry(x, m))
  <2>1. m \in 0 .. x.size - 1
    BY <1>1
  <2>2. Entry(x, m).state = "completed" /\ Earlier(Entry(x, m).ready) < 0
    BY <1>8, <1>5, <2>1 DEF Late
  <2>3. Entry(x, m).ready \in Times /\ x.rob[Slot(x, m)] = Entry(x, m)
    BY <1>6, <2>1 DEF Entry
  <2>4. Entry(x, m).ready # 0
    BY <1>8, <2>2, <2>3 DEF Good, Due, Ticks
  <2>5. Entry(x, m).ready <= 0
    BY <2>2, <2>3, EarlierTimes
  <2>6. Entry(x, m).ready < 0
    <3>1. Entry(x, m).ready \in Int
      BY <2>3, TimesFacts
    <3> QED
      BY <3>1, <2>4, <2>5
  <2> QED
    BY <2>2, <2>6 DEF Late
<1>9. Live(x) /\ y.size = x.size
  BY <1>1 DEF Inv, Ring, Ticks
<1>10. Evolves(x, y)
  BY <1>5, <1>7, <1>8, <1>9 DEF Evolves, Live
<1> QED
  BY <1>5, <1>10

\* A tick keeps the invariant.
LEMMA TicksKeepsGood ==
    ASSUME NEW x, NEW y, Good(x), Ticks(x, y),
           y = [q |-> y.q, rob |-> y.rob, head |-> y.head, size |-> y.size,
                events |-> y.events, reqs |-> y.reqs, migrate |-> x.migrate]
    PROVE  Good(y)
<1>1. /\ Inv(x) /\ Due(x) /\ x \in CoreStates /\ x.size \in Nat /\ y.size = x.size
      /\ x.rob \in [Slots -> Entries] /\ x.q \in Seq(QEntries)
      /\ x.reqs \subseteq Requests /\ x.events \subseteq Times \ {Past}
  BY Constants DEF Good, Inv, CoreStates, Ticks
<1>2. /\ Evolves(x, y)
      /\ \A i \in 0 .. x.size - 1 :
            /\ Slot(y, i) = Slot(x, i) /\ Entry(x, i) \in Entries
            /\ Entry(y, i).state = Entry(x, i).state /\ Entry(y, i).deps = Entry(x, i).deps
            /\ Entry(y, i).ready = Earlier(Entry(x, i).ready)
  BY TicksEvolves
<1>3. /\ y.q \in Seq(QEntries) /\ Len(y.q) = Len(x.q)
      /\ \A i \in 1 .. Len(x.q) : /\ x.q[i] \in QEntries
                                  /\ y.q[i].state = x.q[i].state /\ y.q[i].ins = x.q[i].ins
                                  /\ y.q[i].ready = Earlier(x.q[i].ready)
  BY <1>1, TickedQueueParts DEF Ticks
<1>4. y.rob \in [Slots -> Entries]
  BY <1>1, TickedRobParts DEF Ticks
<1>5. /\ \A k \in y.reqs : \E r \in x.reqs : k = TickedReq(r) /\ k.rob = r.rob /\ k.line = r.line
      /\ \A r \in x.reqs : \E k \in y.reqs : k.rob = r.rob /\ k.line = r.line
      /\ y.reqs \in SUBSET Requests
  BY <1>1, TickedReqParts DEF Ticks
<1>6. \A t \in x.events : t \in Int /\ t > 0 /\ t - 1 \in Times \ {Past} /\ t - 1 \in y.events
  <2> TAKE t \in x.events
  <2>1. t \in Times /\ t # Past /\ t # 0
    BY <1>1 DEF Ticks
  <2>2. t \in Int /\ t > 0
    BY <2>1, TimesFacts
  <2>3. t - 1 \in Times \ {Past}
    BY <2>1, <2>2, Constants DEF Times, Past
  <2> QED
    BY <2>2, <2>3 DEF Ticks
<1>7. y.events \in SUBSET (Times \ {Past})
  BY <1>6 DEF Ticks
<1>8. y \in CoreStates
  <2>1. y.head \in Slots /\ y.size \in 0 .. RobMax /\ x.migrate \in BOOLEAN
    BY <1>1 DEF Ticks, CoreStates
  <2> QED
    BY <2>1, <1>3, <1>4, <1>5, <1>7 DEF CoreStates
<1>9. Ring(y)
  BY <1>1, <1>2, EvolvesKeepsRing DEF Inv
<1>10. \A t \in Times : Earlier(t) >= 0 => t \in Int /\ t > 0 /\ Earlier(t) = t - 1
  BY EarlierTimes
<1>11. \A t \in Times : Earlier(t) > 0 => t > 0 /\ Earlier(t) = t - 1
  BY EarlierTimes
<1>12. QueueScheduled(y)
  <2> SUFFICES ASSUME NEW i \in 1 .. Len(x.q), y.q[i].state = "ready", y.q[i].ready > 0
               PROVE  y.q[i].ready \in y.events
    BY <1>3 DEF QueueScheduled
  <2>1. x.q[i].state = "ready" /\ x.q[i].ready \in Times /\ Earlier(x.q[i].ready) > 0
    BY <1>3 DEF QEntries
  <2>2. x.q[i].ready > 0 /\ y.q[i].ready = x.q[i].ready - 1
    BY <2>1, <1>3, <1>11
  <2>3. x.q[i].ready \in x.events
    BY <2>1, <2>2, <1>1 DEF Inv, QueueScheduled
  <2> QED
    BY <2>2, <2>3, <1>6
<1>13. RobScheduled(y)
  <2> SUFFICES ASSUME NEW i \in 0 .. x.size - 1, Entry(y, i).state # "executing",
                      Entry(y, i).ready > 0
               PROVE  Entry(y, i).ready \in y.events
    BY <1>1 DEF RobScheduled
  <2>1. Entry(x, i).state # "executing" /\ Entry(x, i).ready \in Times /\ Earlier(Entry(x, i).ready) > 0
    BY <1>2 DEF Entries
  <2>2. Entry(x, i).ready > 0 /\ Entry(y, i).ready = Entry(x, i).ready - 1
    BY <2>1, <1>2, <1>11
  <2>3. Entry(x, i).ready \in x.events
    BY <2>1, <2>2, <1>1 DEF Inv, RobScheduled
  <2> QED
    BY <2>2, <2>3, <1>6
<1>14. Matched(y)
  <2>1. \A k \in y.reqs : k.rob # -1 =>
           \E i \in 0 .. y.size - 1 : k.rob = Slot(y, i) /\ Entry(y, i).state = "executing"
    <3> SUFFICES ASSUME NEW k \in y.reqs, k.rob # -1
                 PROVE  \E i \in 0 .. x.size - 1 : k.rob = Slot(y, i) /\ Entry(y, i).state = "executing"
      BY <1>1
    <3>1. PICK r \in x.reqs : k.rob = r.rob
      BY <1>5
    <3>2. PICK i \in 0 .. x.size - 1 : r.rob = Slot(x, i) /\ Entry(x, i).state = "executing"
      BY <3>1, <1>1 DEF Inv, Matched
    <3> QED
      BY <3>1, <3>2, <1>2
  <2>2. \A i \in 0 .. y.size - 1 : Entry(y, i).state = "executing" =>
           \E k \in y.reqs : k.rob = Slot(y, i)
    BY <1>1, <1>2, <1>5 DEF Inv, Matched
  <2>3. ASSUME NEW k1 \in y.reqs, NEW k2 \in y.reqs, k1.rob = k2.rob, k1.rob # -1
        PROVE  k1 = k2
    <3>1. PICK r1 \in x.reqs : k1 = TickedReq(r1) /\ k1.rob = r1.rob
      BY <1>5
    <3>2. PICK r2 \in x.reqs : k2 = TickedReq(r2) /\ k2.rob = r2.rob
      BY <1>5
    <3>3. r1 = r2
      BY <2>3, <3>1, <3>2, <1>1 DEF Inv, Matched
    <3> QED
      BY <3>1, <3>2, <3>3
  <2> QED
    BY <2>1, <2>2, <2>3 DEF Matched
<1>15. Fetched(y)
  <2> SUFFICES ASSUME NEW i \in 1 .. Len(x.q), y.q[i].state = "being_loaded"
               PROVE  \E k \in y.reqs : k.rob = -1 /\ k.line = y.q[i].ins.line
    BY <1>3 DEF Fetched
  <2>1. x.q[i].state = "being_loaded" /\ y.q[i].ins = x.q[i].ins
    BY <1>3
  <2>2. PICK r \in x.reqs : r.rob = -1 /\ r.line = x.q[i].ins.line
    BY <2>1, <1>1 DEF Inv, Fetched
  <2> QED
    BY <2>1, <2>2, <1>5
<1>16. Due(y)
  <2> SUFFICES ASSUME NEW j \in 0 .. x.size - 1, Entry(y, j).state = "issued",
                      NEW s \in Entry(y, j).deps,
                      y.rob[s].state = "completed", y.rob[s].ready = 0
               PROVE  0 \in y.events
    BY <1>1 DEF Due
  <2>1. Entry(x, j).state = "issued" /\ s \in Entry(x, j).deps
    BY <1>2
  <2>2. PICK i \in 0 .. j - 1 : s = Slot(x, i)
    BY <2>1, <1>1 DEF Inv, Ring, Waits
  <2>3. i \in 0 .. x.size - 1
    BY <1>1
  <2>4. Entry(y, i).state = "completed" /\ Entry(y, i).ready = 0
    BY <2>2, <2>3, <1>2 DEF Entry
  <2>5. Entry(x, i).state = "completed" /\ Entry(x, i).ready \in Times /\ Earlier(Entry(x, i).ready) = 0
    BY <2>3, <2>4, <1>2 DEF Entries
  <2>6. Entry(x, i).ready \in Int /\ Entry(x, i).ready > 0 /\ 0 = Entry(x, i).ready - 1
    BY <2>5, <1>10
  <2>7. Entry(x, i).ready \in x.events
    BY <2>3, <2>5, <2>6, <1>1 DEF Inv, RobScheduled
  <2> QED
    BY <2>6, <2>7, <1>6
<1> QED
  BY <1>8, <1>9, <1>12, <1>13, <1>14, <1>15, <1>16 DEF Good, Inv

\* The action Tick is such a tick.
LEMMA TickTicks ==
    ASSUME Good(Whole), Tick
    PROVE  Ticks(Whole, Whole') /\ Good(Whole)' /\ Len(o3queue') = Len(o3queue)
<1>1. /\ 0 \notin events /\ events' = {t - 1 : t \in events}
      /\ o3queue' = TickedQueue(o3queue) /\ o3rob' = TickedRob(o3rob)
      /\ memreqs' = {TickedReq(r) : r \in memreqs}
      /\ o3rob_head' = o3rob_head /\ o3rob_size' = o3rob_size /\ migrate' = migrate
  BY DEF Tick, Pass, TickedQueue, TickedRob, TickedReq
<1>2. Ticks(Whole, Whole')
  BY <1>1 DEF Ticks, Whole
<1>3. Whole' = [q |-> Whole'.q, rob |-> Whole'.rob, head |-> Whole'.head, size |-> Whole'.size,
                events |-> Whole'.events, reqs |-> Whole'.reqs, migrate |-> Whole.migrate]
  BY <1>1 DEF Whole
<1>4. Good(Whole')
  BY <1>2, <1>3, TicksKeepsGood
<1>5. o3queue \in Seq(QEntries)
  BY WholeParts DEF Good, Inv, CoreStates
<1>6. Len(o3queue') = Len(o3queue)
  BY <1>1, <1>5, TickedQueueParts
<1> QED
  BY <1>2, <1>4, <1>6

-----------------------------------------------------------------------------
(* The invariant.                                                          *)

\* The invariant holds initially.
LEMMA InitIInv == Init => IInv
<1> SUFFICES ASSUME Init PROVE IInv
  OBVIOUS
<1>1. NoEntry \in Entries
  BY TimesFacts DEF NoEntry, Entries
<1>2. o3rob \in [Slots -> Entries]
  BY <1>1 DEF Init
<1>3. 0 \in Slots /\ 0 \in 0 .. RobMax
  BY Constants DEF Slots
<1>4. Whole \in CoreStates
  <2>1. /\ o3queue \in Seq(QEntries) /\ o3rob_head \in Slots /\ o3rob_size \in 0 .. RobMax
        /\ events \in SUBSET (Times \ {Past}) /\ memreqs \in SUBSET Requests /\ migrate \in BOOLEAN
    BY <1>3 DEF Init
  <2> QED
    BY <1>2, <2>1 DEF Whole, CoreStates
<1>5. Whole.size = 0 /\ Whole.q = <<>> /\ Whole.reqs = {} /\ Len(Whole.q) = 0
  BY WholeParts DEF Init
<1>6. Ring(Whole) /\ RobScheduled(Whole) /\ Due(Whole)
  BY <1>5 DEF Ring, Live, Waits, Order, RobScheduled, Due
<1>7. QueueScheduled(Whole) /\ Fetched(Whole)
  BY <1>5 DEF QueueScheduled, Fetched
<1>8. Matched(Whole)
  BY <1>5 DEF Matched
<1>9. Resumes
  BY TimesFacts DEF Init, Resumes
<1>10. Bounds
  <2>1. -1 \in -1 .. MaxLat /\ 0 \in 0 .. MaxNacks /\ 0 \in 0 .. MaxInstrs /\ 0 <= QueueMax
    BY Constants
  <2>2. Len(o3queue) = 0
    BY DEF Init
  <2> QED
    BY <2>1, <2>2 DEF Init, Bounds, Past
<1> QED
  BY <1>4, <1>6, <1>7, <1>8, <1>9, <1>10 DEF IInv, Good, Inv

\* Steps of the frontend, of other cores and of the event queue's callback that
\* leave the core alone.
Idle == UNCHANGED <<o3queue, o3rob, o3rob_head, o3rob_size, events, memreqs, resume_time, nacks,
                    supplied>>

\* Which actions are idle.
LEMMA IdleSteps ==
    /\ Resume \/ Block \/ AskForInstrs => Idle /\ migrate' = migrate
    /\ OtherNotifies => Idle /\ migrate' = TRUE
BY DEF Idle, Resume, Block, OtherNotifies, AskForInstrs

\* Idle steps keep the invariant.
LEMMA IdleKeepsGood ==
    ASSUME Good(Whole), Idle, migrate' \in BOOLEAN
    PROVE  Good(Whole)'
<1> DEFINE x == Whole
           y == Whole'
<1>1. Inv(x) /\ Due(x) /\ x \in CoreStates
  BY DEF Good, Inv
<1>2. /\ y.rob = x.rob /\ y.head = x.head /\ y.size = x.size /\ y.reqs = x.reqs
      /\ y.q = x.q /\ y.events = x.events /\ y.migrate \in BOOLEAN
      /\ y = [q |-> y.q, rob |-> y.rob, head |-> y.head, size |-> y.size,
              events |-> y.events, reqs |-> y.reqs, migrate |-> y.migrate]
  BY DEF Whole, Idle
<1> HIDE DEF x, y
<1>3. y \in CoreStates
  BY <1>1, <1>2 DEF CoreStates
<1>4. Inv(y) /\ Due(y)
  BY <1>1, <1>2, <1>3, EventsKeepInv, SameRingKeepsDue
<1> QED
  BY <1>4 DEF y, Good

\* Types that follow from the invariant.
LEMMA GoodTyped ==
    ASSUME Good(Whole)
    PROVE  /\ o3queue \in Seq(QEntries) /\ Len(o3queue) \in Nat /\ migrate \in BOOLEAN
           /\ memreqs \subseteq Requests /\ \A r \in memreqs : r.at \in Int
BY WholeParts, Constants DEF Good, Inv, CoreStates, Requests

\* Every step keeps the main part of the invariant.
LEMMA GoodStep == Good(Whole) /\ [Next]_vars => Good(Whole)'
<1> SUFFICES ASSUME Good(Whole), [Next]_vars PROVE Good(Whole)'
  OBVIOUS
<1>1. migrate \in BOOLEAN
  BY GoodTyped
<1>2. ASSUME NEW ins \in Instrs, Wake(ins) \/ Supply(ins) PROVE Good(Whole)'
  BY <1>2, AddInstructionKeepsGood DEF Wake, Supply
<1>3. CASE Resume \/ Block \/ OtherNotifies \/ AskForInstrs
  BY <1>1, <1>3, IdleSteps, IdleKeepsGood
<1>4. CASE Process
  BY <1>4, ProcessKeepsGood
<1>5. CASE Tick
  BY <1>5, TickTicks
<1>6. ASSUME NEW r \in memreqs, NEW t \in 0 .. MaxLat,
             TlbReply(r, t) \/ Nack(r, t) \/ Loaded(r, t) \/ Accessed(r, t)
      PROVE  Good(Whole)'
  BY <1>6, TlbReplyKeepsGood, NackKeepsGood, LoadedKeepsGood, AccessedKeepsGood
<1>7. CASE UNCHANGED vars
  BY <1>1, <1>7, IdleKeepsGood DEF vars, Idle
<1> QED
  BY <1>2, <1>3, <1>4, <1>5, <1>6, <1>7 DEF Next

\* Every step keeps Resumes.
LEMMA ResumesStep == IInv /\ [Next]_vars => Resumes'
<1> SUFFICES ASSUME IInv, [Next]_vars, resume_time' > 0
             PROVE  \E r \in memreqs' : r.phase = "l1" /\ r.at >= resume_time'
  BY DEF Resumes
<1>1. Good(Whole) /\ Resumes /\ memreqs \subseteq Requests /\ resume_time \in Int
      /\ \A r \in memreqs : r.at \in Int
  BY GoodTyped, Constants DEF IInv, Bounds, Past
<1>2. ASSUME memreqs \subseteq memreqs', resume_time' = resume_time
      PROVE  \E r \in memreqs' : r.phase = "l1" /\ r.at >= resume_time'
  BY <1>1, <1>2 DEF Resumes
<1>3. ASSUME NEW ins \in Instrs, Wake(ins) \/ Supply(ins)
      PROVE  \E r \in memreqs' : r.phase = "l1" /\ r.at >= resume_time'
  BY <1>2, <1>3 DEF Wake, Supply, AddInstruction
<1>4. CASE Resume \/ Block \/ OtherNotifies \/ AskForInstrs
  BY <1>2, <1>4, IdleSteps DEF Idle
<1>5. CASE Process
  <2>1. memreqs \subseteq memreqs'
    BY <1>1, <1>5, ProcessKeepsGood
  <2>2. resume_time' = resume_time
    BY <1>5 DEF Process
  <2> QED
    BY <1>2, <2>1, <2>2
<1>6. CASE Tick
  <2>1. resume_time' = Earlier(resume_time) /\ memreqs' = {TickedReq(r) : r \in memreqs}
    BY <1>6 DEF Tick, Pass, TickedReq
  <2>2. resume_time > 0 /\ resume_time' = resume_time - 1
    BY <2>1, <1>1 DEF Earlier, Past
  <2>3. PICK r \in memreqs : r.phase = "l1" /\ r.at >= resume_time
    BY <1>1, <2>2 DEF Resumes
  <2>4. r \in Requests /\ r.at \in Int /\ r.at > 0
    BY <1>1, <2>2, <2>3
  <2>5. TickedReq(r).phase = r.phase /\ TickedReq(r).at = r.at - 1
    BY <2>4, TickedReqParts
  <2>6. TickedReq(r).at >= resume_time'
    BY <1>1, <2>2, <2>3, <2>4, <2>5
  <2>7. TickedReq(r) \in memreqs'
    BY <2>1
  <2> QED
    BY <2>3, <2>5, <2>6, <2>7
<1>7. ASSUME NEW r \in memreqs, NEW t \in 0 .. MaxLat, TlbReply(r, t) \/ Nack(r, t)
      PROVE  \E k \in memreqs' : k.phase = "l1" /\ k.at >= resume_time'
  <2>1. r \in Requests /\ t \in Int /\ t >= t
    BY <1>1, Constants
  <2>2. CASE TlbReply(r, t)
    <3> DEFINE k == [r EXCEPT !.phase = "l1", !.at = t]
    <3>1. k \in memreqs' /\ resume_time' = t
      BY <2>2 DEF TlbReply
    <3>2. k.phase = "l1" /\ k.at = t
      BY <2>1 DEF Requests
    <3> HIDE DEF k
    <3> QED
      BY <2>1, <3>1, <3>2
  <2>3. CASE Nack(r, t)
    <3> DEFINE k == [r EXCEPT !.at = t]
    <3>1. k \in memreqs' /\ resume_time' = t /\ r.phase = "l1"
      BY <2>3 DEF Nack
    <3>2. k.phase = "l1" /\ k.at = t
      BY <2>1, <3>1 DEF Requests
    <3> HIDE DEF k
    <3> QED
      BY <2>1, <3>1, <3>2
  <2> QED
    BY <1>7, <2>2, <2>3
<1>8. ASSUME NEW r \in memreqs, NEW t \in 0 .. MaxLat, Loaded(r, t) \/ Accessed(r, t)
      PROVE  \E k \in memreqs' : k.phase = "l1" /\ k.at >= resume_time'
  <2>1. resume_time' = resume_time /\ memreqs' = memreqs \ {r} /\ r.at = 0
    BY <1>8 DEF Loaded, Accessed
  <2>2. PICK k \in memreqs : k.phase = "l1" /\ k.at >= resume_time
    BY <1>1, <2>1 DEF Resumes
  <2>3. k.at \in Int /\ k.at # 0
    BY <1>1, <2>1, <2>2
  <2> QED
    BY <2>1, <2>2, <2>3
<1>9. CASE UNCHANGED vars
  BY <1>2, <1>9 DEF vars
<1> QED
  BY <1>3, <1>4, <1>5, <1>6, <1>7, <1>8, <1>9 DEF Next

\* Every step keeps Bounds.
LEMMA BoundsStep == IInv /\ [Next]_vars => Bounds'
<1> SUFFICES ASSUME IInv, [Next]_vars PROVE Bounds'
  OBVIOUS
<1>1. Good(Whole) /\ Bounds /\ o3queue \in Seq(QEntries) /\ Len(o3queue) \in Nat
  BY GoodTyped DEF IInv
<1>2. /\ QueueMax \in Nat /\ MaxInstrs \in Nat /\ MaxNacks \in Nat /\ MaxLat \in Nat
      /\ supplied \in 0 .. MaxInstrs /\ nacks \in 0 .. MaxNacks /\ resume_time \in Past .. MaxLat
      /\ Len(o3queue) <= QueueMax /\ active \in BOOLEAN /\ returned \in BOOLEAN /\ 0 \in 0 .. MaxNacks
  BY <1>1, Constants DEF Bounds
<1>3. ASSUME NEW ins \in Instrs, Wake(ins) \/ Supply(ins) PROVE Bounds'
  <2>1. /\ supplied < MaxInstrs /\ supplied' = supplied + 1 /\ Len(o3queue) < QueueMax
        /\ o3queue' = Append(o3queue, [state |-> "not_in_queue", ready |-> 0, ins |-> ins])
        /\ UNCHANGED <<resume_time, nacks>>
    BY <1>3 DEF Wake, Supply, AddInstruction
  <2>2. active' \in BOOLEAN /\ returned' \in BOOLEAN
    BY <1>2, <1>3 DEF Wake, Supply
  <2>3. Len(o3queue') = Len(o3queue) + 1
    BY <1>1, <2>1
  <2>4. Len(o3queue') <= QueueMax /\ supplied' \in 0 .. MaxInstrs
    BY <1>1, <1>2, <2>1, <2>3
  <2> QED
    BY <1>2, <2>1, <2>2, <2>4 DEF Bounds
<1>4. CASE Resume \/ Block \/ OtherNotifies \/ AskForInstrs
  <2>1. Idle
    BY <1>4, IdleSteps
  <2>2. active' \in BOOLEAN /\ returned' \in BOOLEAN
    BY <1>2, <1>4 DEF Resume, Block, OtherNotifies, AskForInstrs
  <2> QED
    BY <1>2, <2>1, <2>2 DEF Idle, Bounds
<1>5. CASE Process
  <2>1. Len(o3queue') <= Len(o3queue) /\ Good(Whole)'
    BY <1>1, <1>5, ProcessKeepsGood
  <2>2. o3queue' \in Seq(QEntries)
    BY <2>1 DEF Good, Inv, CoreStates, Whole
  <2>3. Len(o3queue') \in Nat
    BY <2>2
  <2>4. Len(o3queue') <= QueueMax
    BY <1>1, <1>2, <2>1, <2>3
  <2>5. UNCHANGED <<resume_time, nacks, active, returned, supplied>>
    BY <1>5 DEF Process
  <2> QED
    BY <1>2, <2>4, <2>5 DEF Bounds
<1>6. CASE Tick
  <2>1. Len(o3queue') = Len(o3queue)
    BY <1>1, <1>6, TickTicks
  <2>2. resume_time' = Earlier(resume_time) /\ UNCHANGED <<nacks, active, returned, supplied>>
    BY <1>6 DEF Tick, Pass
  <2>3. resume_time' \in Past .. MaxLat
    BY <1>2, <2>2 DEF Earlier, Past
  <2> QED
    BY <1>2, <2>1, <2>2, <2>3 DEF Bounds
<1>7. ASSUME NEW r \in memreqs, NEW t \in 0 .. MaxLat,
             TlbReply(r, t) \/ Nack(r, t) \/ Loaded(r, t) \/ Accessed(r, t)
      PROVE  Bounds'
  <2>1. t \in Past .. MaxLat
    BY <1>2 DEF Past
  <2>2. CASE TlbReply(r, t)
    BY <1>2, <2>1, <2>2 DEF TlbReply, Bounds
  <2>3. CASE Nack(r, t)
    BY <1>2, <2>1, <2>3 DEF Nack, Bounds
  <2>4. CASE Loaded(r, t)
    <3>1. Len(o3queue') = Len(o3queue)
      BY <1>1, <2>4, LoadedKeepsGood
    <3> QED
      BY <1>2, <2>4, <3>1 DEF Loaded, Bounds
  <2>5. CASE Accessed(r, t)
    BY <1>2, <2>5 DEF Accessed, Bounds
  <2> QED
    BY <1>7, <2>2, <2>3, <2>4, <2>5
<1>8. CASE UNCHANGED vars
  BY <1>2, <1>8 DEF vars, Bounds
<1> QED
  BY <1>3, <1>4, <1>5, <1>6, <1>7, <1>8 DEF Next

\* The invariant is inductive.
LEMMA IInvStep == IInv /\ [Next]_vars => IInv'
BY GoodStep, ResumesStep, BoundsStep DEF IInv

\* The inductive invariant holds of every behaviour.
LEMMA Invariance == Spec => []IInv
BY InitIInv, IInvStep, PTL DEF Spec

-----------------------------------------------------------------------------
(* The theorems.                                                           *)

\* The types of PTSO3Core's state: the ring indices stay inside the reorder
\* buffer, no event is left behind in the past, and no entry, request or
\* dependence leaves its range.
THEOREM Types == Spec => []TypeOK
<1>1. IInv => TypeOK
  <2> SUFFICES ASSUME IInv PROVE TypeOK
    OBVIOUS
  <2>1. Whole \in CoreStates
    BY DEF IInv, Good, Inv
  <2>2. /\ o3queue \in Seq(QEntries) /\ o3rob \in [Slots -> Entries] /\ o3rob_head \in Slots
        /\ o3rob_size \in 0 .. RobMax /\ events \subseteq Times \ {Past}
        /\ memreqs \subseteq Requests /\ migrate \in BOOLEAN
    BY <2>1, WholeParts DEF CoreStates
  <2> QED
    BY <2>2 DEF IInv, Bounds, TypeOK
<1> QED
  BY <1>1, Invariance, PTL

\* Position i is the same in Core, which has no event of this cycle.
LEMMA SameEntries ==
    \A i : Slot(Core, i) = Slot(Whole, i) /\ Entry(Core, i) = Entry(Whole, i)
BY DEF Core, Whole, Slot, Entry

\* Out-of-order execution respects dependence: what process_event has started
\* needs nothing unfinished, whatever the latencies, the order of the answers
\* and the reuse of slots.
THEOREM Ordered == Spec => []ProgramOrder
<1>1. IInv => ProgramOrder
  <2> SUFFICES ASSUME IInv, NEW j \in 0 .. o3rob_size - 1, NEW i \in 0 .. j - 1,
                      Entry(Core, j).state \in {"executing", "completed"}, Needs(Core, j, i)
               PROVE  Finished(Entry(Core, i))
    BY DEF ProgramOrder
  <2>1. Needs(Whole, j, i)
    BY SameEntries DEF Needs
  <2>2. Order(Whole) /\ Whole.size = o3rob_size
    BY WholeParts DEF IInv, Good, Inv, Ring
  <2>3. ~Finished(Entry(Whole, i)) => Entry(Whole, j).state = "issued"
    BY <2>1, <2>2 DEF Order
  <2> QED
    BY <2>3, SameEntries
<1> QED
  BY <1>1, Invariance, PTL

\* Every executing entry has exactly one request and every data request an
\* executing entry; what waits for its line is being fetched.
THEOREM Matches == Spec => []RequestsMatch
<1>1. IInv => RequestsMatch
  <2> SUFFICES ASSUME IInv PROVE RequestsMatch
    OBVIOUS
  <2>1. /\ Matched(Whole) /\ Fetched(Whole) /\ Whole \in CoreStates /\ Whole.size = o3rob_size
        /\ Whole.reqs = memreqs /\ Whole.q = o3queue /\ Whole.rob = o3rob
    BY WholeParts DEF IInv, Good, Inv
  <2>2. ASSUME NEW s \in Slots
        PROVE  (s \in Occupied(Core) /\ o3rob[s].state = "executing")
               <=> Cardinality({r \in memreqs : r.rob = s}) = 1
    <3> DEFINE R == {r \in memreqs : r.rob = s}
               Ex == \E i \in 0 .. o3rob_size - 1 :
                        s = Slot(Whole, i) /\ Entry(Whole, i).state = "executing"
    <3>1. (s \in Occupied(Core) /\ o3rob[s].state = "executing") <=> Ex
      <4>1. s \in Occupied(Core) <=> \E i \in 0 .. o3rob_size - 1 : s = Slot(Whole, i)
        BY SameEntries DEF Occupied, Core
      <4>2. \A i : Entry(Whole, i) = o3rob[Slot(Whole, i)]
        BY <2>1 DEF Entry
      <4> QED
        BY <4>1, <4>2
    <3>2. s # -1
      BY Constants DEF Slots
    <3>3. CASE Ex
      <4>1. PICK r \in memreqs : r.rob = s
        BY <3>3, <2>1 DEF Matched
      <4>2. R = {r}
        BY <4>1, <3>2, <2>1 DEF Matched
      <4>3. Cardinality(R) = 1
        BY <4>2, FS_Singleton
      <4> QED
        BY <3>1, <3>3, <4>3
    <3>4. CASE ~Ex
      <4>1. R = {}
        BY <3>4, <3>2, <2>1 DEF Matched
      <4>2. Cardinality(R) = 0
        BY <4>1, FS_EmptySet
      <4> QED
        BY <3>1, <3>4, <4>2
    <3> QED
      BY <3>3, <3>4
  <2>3. \A i \in DOMAIN o3queue : o3queue[i].state = "being_loaded" =>
           \E r \in memreqs : r.rob = -1 /\ r.line = o3queue[i].ins.line
    <3>1. DOMAIN o3queue = 1 .. Len(o3queue)
      BY <2>1 DEF CoreStates
    <3> QED
      BY <2>1, <3>1 DEF Fetched
  <2> QED
    BY <2>2, <2>3 DEF RequestsMatch
<1> QED
  BY <1>1, Invariance, PTL

\* Every step keeps NoLostWakeup.
LEMMA WakeupStep ==
    ASSUME CommitWidth < RobMax - 3
    PROVE  IInv /\ NoLostWakeup /\ [Next]_vars => NoLostWakeup'
<1> SUFFICES ASSUME IInv, NoLostWakeup, [Next]_vars PROVE NoLostWakeup'
  OBVIOUS
<1>1. Good(Whole) /\ Resumes /\ o3queue \in Seq(QEntries) /\ Len(o3queue) \in Nat /\ resume_time \in Int
  BY GoodTyped, Constants DEF IInv, Bounds, Past
<1>2. ASSUME NEW ins \in Instrs, Wake(ins) \/ Supply(ins) PROVE NoLostWakeup'
  <2>1. /\ events' = IF o3queue = <<>> /\ resume_time <= 0 THEN events \cup {0} ELSE events
        /\ memreqs' = memreqs
    BY <1>2 DEF Wake, Supply, AddInstruction
  <2>2. CASE o3queue # <<>>
    BY <2>1, <2>2 DEF NoLostWakeup
  <2>3. CASE o3queue = <<>> /\ resume_time <= 0
    BY <2>1, <2>3 DEF NoLostWakeup
  <2>4. CASE resume_time > 0
    BY <1>1, <2>1, <2>4 DEF Resumes, NoLostWakeup
  <2> QED
    BY <1>1, <2>2, <2>3, <2>4
<1>3. CASE Resume \/ Block \/ OtherNotifies \/ AskForInstrs
  BY <1>3, IdleSteps DEF Idle, NoLostWakeup
<1>4. CASE Process
  BY <1>1, <1>4, ProcessKeepsGood
<1>5. CASE Tick
  <2>1. Len(o3queue') = Len(o3queue) /\ Good(Whole)'
    BY <1>1, <1>5, TickTicks
  <2>2. o3queue' \in Seq(QEntries)
    BY <2>1 DEF Good, Inv, CoreStates, Whole
  <2>3. o3queue = <<>> => o3queue' = <<>>
    BY <1>1, <2>1, <2>2
  <2>4. /\ o3rob_size' = o3rob_size /\ events' = {t - 1 : t \in events}
        /\ memreqs' = {TickedReq(r) : r \in memreqs}
    BY <1>5 DEF Tick, Pass, TickedReq
  <2>5. (events # {} => events' # {}) /\ (memreqs # {} => memreqs' # {})
    BY <2>4
  <2> QED
    BY <2>3, <2>4, <2>5 DEF NoLostWakeup
<1>6. ASSUME NEW r \in memreqs, NEW t \in 0 .. MaxLat,
             TlbReply(r, t) \/ Nack(r, t) \/ Loaded(r, t) \/ Accessed(r, t)
      PROVE  NoLostWakeup'
  <2>1. events' # {} \/ memreqs' # {}
    BY <1>6 DEF TlbReply, Nack, Loaded, Accessed
  <2> QED
    BY <2>1 DEF NoLostWakeup
<1>7. CASE UNCHANGED vars
  BY <1>7 DEF vars, NoLostWakeup
<1> QED
  BY <1>2, <1>3, <1>4, <1>5, <1>6, <1>7 DEF Next

\* No lost wakeup: add_instruction, process_event and the replies between them
\* never leave instructions behind without an event or an access under way.
\* The reorder buffer must stay too full to issue into until more than one
\* commit has emptied it, as it does with the defaults (16 and 4) and with every
\* configuration of the repository (64 and 4): otherwise the queue's head is
\* refused and the buffer emptied in one call, which schedules nothing.
THEOREM WakeupKept ==
    ASSUME CommitWidth < RobMax - 3
    PROVE  Spec => []NoLostWakeup
<1>1. Init => NoLostWakeup
  BY DEF Init, NoLostWakeup
<1>2. IInv /\ NoLostWakeup /\ [Next]_vars => NoLostWakeup'
  BY WakeupStep
<1> QED
  BY <1>1, <1>2, Invariance, PTL DEF Spec

=============================================================================
