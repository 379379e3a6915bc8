---------------------------- MODULE CrossbarProofs ----------------------------
(***************************************************************************)
(* The crossbar implements Lanes, for every number of ports, directories   *)
(* and flits.                                                              *)
(*                                                                         *)
(* Keep picks the elements of a set from a sequence; the first part is     *)
(* about it, by induction over sequences.  The second shows that filling   *)
(* a queue keeps what every pair of a port and a destination holds and     *)
(* sorts it by urgency, and what taking one element out does.  The third   *)
(* carries an invariant through the loop over the ports; the last maps     *)
(* every step to a step of Lanes.                                          *)
(***************************************************************************)
EXTENDS Crossbar, WellFoundedInduction, TLAPS

\* A set of numbers that is not empty has a least element.
LEMMA NatMin ==
    ASSUME NEW S, S \subseteq Nat, S # {}
    PROVE  \E x \in S : \A y \in S : x <= y
<1>1. PICK x \in S : \A y \in S : ~ (<<y, x>> \in OpToRel(<, Nat))
  BY NatLessThanWellFounded, WFMin
<1>2. \A y \in S : x <= y
  <2> TAKE y \in S
  <2>1. x \in Nat /\ y \in Nat
    BY <1>1
  <2>2. y < x => <<y, x>> \in OpToRel(<, Nat)
    BY <2>1 DEF OpToRel
  <2>3. ~(y < x)
    BY <1>1, <2>2, Zenon
  <2> QED
    BY <2>1, <2>3
<1> QED
  BY <1>2

\* Induction over the rounds of a loop of n rounds.
LEMMA Rounds ==
    ASSUME NEW n \in Nat, NEW K, 0 \in K, \A k \in 0 .. n - 1 : k \in K => k + 1 \in K
    PROVE  0 .. n \subseteq K
<1> DEFINE B == {k \in 0 .. n : k \notin K}
<1>1. SUFFICES B = {}
  OBVIOUS
<1>2. SUFFICES ASSUME B # {} PROVE FALSE
  OBVIOUS
<1>3. PICK b \in B : \A c \in B : b <= c
  <2>1. B \subseteq Nat
    OBVIOUS
  <2> HIDE DEF B
  <2> QED
    BY <1>2, <2>1, NatMin
<1>4. b \in 0 .. n /\ b \notin K /\ b # 0
  BY <1>3
<1>5. b - 1 \in 0 .. n - 1 /\ b - 1 \notin B
  BY <1>3, <1>4
<1>6. b - 1 \in K /\ b = (b - 1) + 1
  BY <1>4, <1>5
<1> QED
  BY <1>4, <1>5, <1>6

-----------------------------------------------------------------------------
(* Sequences: what Keep makes of them.                                     *)

\* Induction over sequences.
LEMMA SeqGrow ==
    ASSUME NEW E, NEW P, <<>> \in P,
           \A s \in Seq(E) : s \in P => \A e \in E : Append(s, e) \in P
    PROVE  Seq(E) \subseteq P
<1> SUFFICES ASSUME NEW s \in Seq(E) PROVE s \in P
  OBVIOUS
<1> DEFINE K == {k \in 0 .. Len(s) : SubSeq(s, 1, k) \in P}
<1>1. 0 \in K
  <2>1. SubSeq(s, 1, 0) = <<>> /\ 0 \in 0 .. Len(s)
    OBVIOUS
  <2> QED
    BY <2>1
<1>2. \A k \in 0 .. Len(s) - 1 : k \in K => k + 1 \in K
  <2> SUFFICES ASSUME NEW k \in 0 .. Len(s) - 1, k \in K PROVE SubSeq(s, 1, k + 1) \in P
    OBVIOUS
  <2>1. SubSeq(s, 1, k) \in Seq(E) /\ s[k + 1] \in E
    OBVIOUS
  <2>2. SubSeq(s, 1, k + 1) = Append(SubSeq(s, 1, k), s[k + 1])
    OBVIOUS
  <2> QED
    BY <2>1, <2>2
<1>3. 0 .. Len(s) \subseteq K
  <2> DEFINE n == Len(s)
  <2>1. n \in Nat
    OBVIOUS
  <2>2. \A k \in 0 .. n - 1 : k \in K => k + 1 \in K
    BY <1>2, Zenon
  <2> HIDE DEF K, n
  <2>3. 0 .. n \subseteq K
    BY ONLY <1>1, <2>1, <2>2, Rounds
  <2> QED
    BY <2>3, Zenon DEF n
<1>4. SubSeq(s, 1, Len(s)) \in P
  BY <1>3
<1>5. SubSeq(s, 1, Len(s)) = s
  OBVIOUS
<1> QED
  BY <1>4, <1>5

\* The function Keep reads its result from.
KeepFn(f, s, S) ==
    f = [k \in 0 .. Len(s) |-> IF k = 0 THEN <<>>
                               ELSE IF s[k] \in S THEN Append(f[k - 1], s[k]) ELSE f[k - 1]]

\* It is made for one more element from the one for the rest.
LEMMA KeepFnGrows ==
    ASSUME NEW E, NEW s \in Seq(E), NEW e \in E, NEW S, NEW f, KeepFn(f, s, S)
    PROVE  \E h : /\ KeepFn(h, Append(s, e), S)
                  /\ h[Len(s) + 1] = IF e \in S THEN Append(f[Len(s)], e) ELSE f[Len(s)]
<1> DEFINE n == Len(s)
           t == Append(s, e)
           last == IF e \in S THEN Append(f[n], e) ELSE f[n]
           h == [k \in 0 .. n + 1 |-> IF k = n + 1 THEN last ELSE f[k]]
<1>1. n \in Nat /\ Len(t) = n + 1 /\ t[n + 1] = e /\ \A k \in 1 .. n : t[k] = s[k]
  OBVIOUS
<1>2. \A k \in 0 .. n : f[k] = IF k = 0 THEN <<>>
                               ELSE IF s[k] \in S THEN Append(f[k - 1], s[k]) ELSE f[k - 1]
  BY DEF KeepFn
<1> HIDE DEF n, t, last
<1>3. h[n + 1] = last /\ \A k \in 0 .. n : h[k] = f[k]
  BY <1>1
<1>4. \A k \in 0 .. n + 1 : h[k] = IF k = 0 THEN <<>>
                                   ELSE IF t[k] \in S THEN Append(h[k - 1], t[k]) ELSE h[k - 1]
  <2> SUFFICES ASSUME NEW k \in 0 .. n + 1
               PROVE  h[k] = IF k = 0 THEN <<>>
                             ELSE IF t[k] \in S THEN Append(h[k - 1], t[k]) ELSE h[k - 1]
    OBVIOUS
  <2> HIDE DEF h
  <2>1. CASE k = 0
    <3>1. 0 \in 0 .. n
      BY <1>1
    <3> QED
      BY <2>1, <3>1, <1>2, <1>3
  <2>2. CASE k = n + 1
    <3>1. k # 0 /\ k - 1 = n /\ n \in 0 .. n
      BY <1>1, <2>2
    <3> QED
      BY <2>2, <3>1, <1>1, <1>3 DEF last
  <2>3. CASE k \in 1 .. n
    <3>1. k \in 0 .. n /\ k # 0 /\ k - 1 \in 0 .. n /\ t[k] = s[k]
      BY <1>1, <2>3
    <3> QED
      BY <3>1, <1>2, <1>3
  <2> QED
    BY <1>1, <2>1, <2>2, <2>3
<1>5. h = [k \in 0 .. n + 1 |-> h[k]]
  OBVIOUS
<1> HIDE DEF h
<1>6. h = [k \in 0 .. n + 1 |-> IF k = 0 THEN <<>>
                                ELSE IF t[k] \in S THEN Append(h[k - 1], t[k]) ELSE h[k - 1]]
  BY <1>4, <1>5
<1>7. KeepFn(h, t, S)
  BY <1>1, <1>6 DEF KeepFn
<1> QED
  BY <1>3, <1>7 DEF last, n, t

\* There is one for every sequence,
LEMMA KeepFnExists ==
    ASSUME NEW E, NEW s \in Seq(E), NEW S
    PROVE  \E f : KeepFn(f, s, S)
<1> DEFINE P == {t \in Seq(E) : \E f : KeepFn(f, t, S)}
<1>1. <<>> \in P
  <2> DEFINE z == <<>>
             f0 == [k \in 0 .. 0 |-> <<>>]
  <2>1. z \in Seq(E) /\ Len(z) = 0
    OBVIOUS
  <2>2. f0 = [k \in 0 .. 0 |-> IF k = 0 THEN <<>>
                               ELSE IF z[k] \in S THEN Append(f0[k - 1], z[k]) ELSE f0[k - 1]]
    OBVIOUS
  <2> HIDE DEF f0, z
  <2>3. KeepFn(f0, z, S)
    BY <2>1, <2>2 DEF KeepFn
  <2>4. z \in P
    BY <2>1, <2>3
  <2> QED
    BY <2>4 DEF z
<1>2. \A t \in Seq(E) : t \in P => \A e \in E : Append(t, e) \in P
  <2> SUFFICES ASSUME NEW t \in Seq(E), t \in P, NEW e \in E
               PROVE  \E h : KeepFn(h, Append(t, e), S)
    OBVIOUS
  <2>1. PICK f : KeepFn(f, t, S)
    OBVIOUS
  <2> QED
    BY <2>1, KeepFnGrows
<1>3. Seq(E) \subseteq P
  <2> HIDE DEF P
  <2> QED
    BY <1>1, <1>2, SeqGrow
<1> QED
  BY <1>3

\* and only one.
LEMMA KeepFnUnique ==
    ASSUME NEW E, NEW s \in Seq(E), NEW S, NEW f, NEW h, KeepFn(f, s, S), KeepFn(h, s, S)
    PROVE  f[Len(s)] = h[Len(s)]
<1> DEFINE n == Len(s)
           K == {k \in 0 .. n : f[k] = h[k]}
<1>0. n \in Nat
  OBVIOUS
<1>1. \A k \in 0 .. n : f[k] = IF k = 0 THEN <<>>
                               ELSE IF s[k] \in S THEN Append(f[k - 1], s[k]) ELSE f[k - 1]
  BY DEF KeepFn
<1>2. \A k \in 0 .. n : h[k] = IF k = 0 THEN <<>>
                               ELSE IF s[k] \in S THEN Append(h[k - 1], s[k]) ELSE h[k - 1]
  BY DEF KeepFn
<1> HIDE DEF n
<1>3. 0 \in K
  <2>1. 0 \in 0 .. n
    BY <1>0
  <2> QED
    BY <2>1, <1>1, <1>2
<1>4. \A k \in 0 .. n - 1 : k \in K => k + 1 \in K
  <2> SUFFICES ASSUME NEW k \in 0 .. n - 1, k \in K PROVE f[k + 1] = h[k + 1] /\ k + 1 \in 0 .. n
    OBVIOUS
  <2>1. k + 1 \in 0 .. n /\ k + 1 # 0 /\ (k + 1) - 1 = k /\ f[k] = h[k]
    BY <1>0
  <2> HIDE DEF K
  <2> QED
    BY <2>1, <1>1, <1>2
<1>5. 0 .. n \subseteq K
  <2> HIDE DEF K
  <2> QED
    BY <1>0, <1>3, <1>4, Rounds
<1> QED
  BY <1>0, <1>5 DEF n

\* Keep is its last value.
LEMMA KeepIs ==
    ASSUME NEW E, NEW s \in Seq(E), NEW S, NEW f, KeepFn(f, s, S)
    PROVE  Keep(s, S) = f[Len(s)]
<1> DEFINE h == CHOOSE h : KeepFn(h, s, S)
<1>1. Keep(s, S) = h[Len(s)]
  BY DEF Keep, KeepFn
<1>2. KeepFn(h, s, S)
  OBVIOUS
<1> HIDE DEF h
<1> QED
  BY <1>1, <1>2, KeepFnUnique

\* Keep goes through its sequence element by element.
LEMMA KeepEmpty ==
    ASSUME NEW S PROVE Keep(<<>>, S) = <<>>
<1>1. <<>> \in Seq({}) /\ Len(<<>>) = 0
  OBVIOUS
<1>2. PICK f : KeepFn(f, <<>>, S)
  BY <1>1, KeepFnExists
<1>3. f[0] = <<>>
  BY <1>1, <1>2 DEF KeepFn
<1> QED
  BY <1>1, <1>2, <1>3, KeepIs

\* One element more.
LEMMA KeepAppend ==
    ASSUME NEW E, NEW s \in Seq(E), NEW e \in E, NEW S
    PROVE  Keep(Append(s, e), S) = IF e \in S THEN Append(Keep(s, S), e) ELSE Keep(s, S)
<1>1. PICK f : KeepFn(f, s, S)
  BY KeepFnExists
<1>2. PICK h : /\ KeepFn(h, Append(s, e), S)
               /\ h[Len(s) + 1] = IF e \in S THEN Append(f[Len(s)], e) ELSE f[Len(s)]
  BY <1>1, KeepFnGrows
<1>3. Append(s, e) \in Seq(E) /\ Len(Append(s, e)) = Len(s) + 1
  OBVIOUS
<1>4. Keep(s, S) = f[Len(s)]
  BY <1>1, KeepIs
<1>5. Keep(Append(s, e), S) = h[Len(Append(s, e))]
  BY <1>2, <1>3, KeepIs
<1> QED
  BY <1>2, <1>3, <1>4, <1>5

\* Keep returns elements of the sequence, in the set.
LEMMA KeepType ==
    ASSUME NEW E, NEW s \in Seq(E), NEW S
    PROVE  Keep(s, S) \in Seq(E) /\ Keep(s, S) \in Seq(S)
<1> DEFINE P == {t \in Seq(E) : Keep(t, S) \in Seq(E) /\ Keep(t, S) \in Seq(S)}
<1>1. <<>> \in P
  <2>1. <<>> \in Seq(E) /\ <<>> \in Seq(S)
    OBVIOUS
  <2>2. Keep(<<>>, S) = <<>>
    BY KeepEmpty
  <2> QED
    BY <2>1, <2>2
<1>2. \A t \in Seq(E) : t \in P => \A e \in E : Append(t, e) \in P
  <2> SUFFICES ASSUME NEW t \in Seq(E), t \in P, NEW e \in E PROVE Append(t, e) \in P
    OBVIOUS
  <2>1. Keep(Append(t, e), S) = IF e \in S THEN Append(Keep(t, S), e) ELSE Keep(t, S)
    BY KeepAppend
  <2>2. Append(t, e) \in Seq(E) /\ Append(Keep(t, S), e) \in Seq(E)
    OBVIOUS
  <2>3. e \in S => Append(Keep(t, S), e) \in Seq(S)
    OBVIOUS
  <2> QED
    BY <2>1, <2>2, <2>3
<1>3. Seq(E) \subseteq P
  <2> HIDE DEF P
  <2> QED
    BY <1>1, <1>2, SeqGrow
<1> QED
  BY <1>3

\* Keep of two sequences one after the other.
LEMMA KeepConcat ==
    ASSUME NEW E, NEW s \in Seq(E), NEW t \in Seq(E), NEW S
    PROVE  Keep(s \o t, S) = Keep(s, S) \o Keep(t, S)
<1> DEFINE P == {u \in Seq(E) : Keep(s \o u, S) = Keep(s, S) \o Keep(u, S)}
<1>0. Keep(s, S) \in Seq(E)
  BY KeepType
<1>1. <<>> \in P
  <2>1. s \o <<>> = s /\ Keep(s, S) \o <<>> = Keep(s, S)
    BY <1>0
  <2>2. <<>> \in Seq(E) /\ Keep(<<>>, S) = <<>>
    BY KeepEmpty
  <2> QED
    BY <2>1, <2>2
<1>2. \A u \in Seq(E) : u \in P => \A e \in E : Append(u, e) \in P
  <2> SUFFICES ASSUME NEW u \in Seq(E), u \in P, NEW e \in E PROVE Append(u, e) \in P
    OBVIOUS
  <2>1. Keep(Append(u, e), S) = IF e \in S THEN Append(Keep(u, S), e) ELSE Keep(u, S)
    BY KeepAppend
  <2>2. s \o u \in Seq(E) /\ s \o Append(u, e) = Append(s \o u, e)
    OBVIOUS
  <2>3. Keep(Append(s \o u, e), S) = IF e \in S THEN Append(Keep(s \o u, S), e) ELSE Keep(s \o u, S)
    <3>1. \A v \in Seq(E) : Keep(Append(v, e), S) = IF e \in S THEN Append(Keep(v, S), e) ELSE Keep(v, S)
      BY KeepAppend
    <3> QED
      BY <2>2, <3>1
  <2>4. Keep(u, S) \in Seq(E)
    BY KeepType
  <2>5. Keep(s, S) \o Append(Keep(u, S), e) = Append(Keep(s, S) \o Keep(u, S), e)
    BY <1>0, <2>4
  <2>6. Append(u, e) \in Seq(E)
    OBVIOUS
  <2> QED
    BY <2>1, <2>2, <2>3, <2>5, <2>6
<1>3. Seq(E) \subseteq P
  <2> HIDE DEF P
  <2> QED
    BY <1>1, <1>2, SeqGrow
<1> QED
  BY <1>3

\* Keeping less of what was kept.
LEMMA KeepKeep ==
    ASSUME NEW E, NEW s \in Seq(E), NEW S, NEW T, T \subseteq S
    PROVE  Keep(Keep(s, S), T) = Keep(s, T)
<1> DEFINE P == {u \in Seq(E) : Keep(Keep(u, S), T) = Keep(u, T)}
<1>1. <<>> \in P
  BY KeepEmpty
<1>2. \A u \in Seq(E) : u \in P => \A e \in E : Append(u, e) \in P
  <2> SUFFICES ASSUME NEW u \in Seq(E), u \in P, NEW e \in E PROVE Append(u, e) \in P
    OBVIOUS
  <2>1. Keep(Append(u, e), S) = IF e \in S THEN Append(Keep(u, S), e) ELSE Keep(u, S)
    BY KeepAppend
  <2>2. Keep(Append(u, e), T) = IF e \in T THEN Append(Keep(u, T), e) ELSE Keep(u, T)
    BY KeepAppend
  <2>3. Keep(u, S) \in Seq(E)
    BY KeepType
  <2>4. Keep(Append(Keep(u, S), e), T)
            = IF e \in T THEN Append(Keep(Keep(u, S), T), e) ELSE Keep(Keep(u, S), T)
    BY <2>3, KeepAppend
  <2>5. Append(u, e) \in Seq(E)
    OBVIOUS
  <2> QED
    BY <2>1, <2>2, <2>4, <2>5
<1>3. Seq(E) \subseteq P
  <2> HIDE DEF P
  <2> QED
    BY <1>1, <1>2, SeqGrow
<1> QED
  BY <1>3

\* Keeping nothing.
LEMMA KeepNone ==
    ASSUME NEW E, NEW s \in Seq(E), NEW S, \A k \in 1 .. Len(s) : s[k] \notin S
    PROVE  Keep(s, S) = <<>>
<1> DEFINE P == {u \in Seq(E) : (\A k \in 1 .. Len(u) : u[k] \notin S) => Keep(u, S) = <<>>}
<1>1. <<>> \in P
  BY KeepEmpty
<1>2. \A u \in Seq(E) : u \in P => \A e \in E : Append(u, e) \in P
  <2> SUFFICES ASSUME NEW u \in Seq(E), u \in P, NEW e \in E,
                      \A k \in 1 .. Len(Append(u, e)) : Append(u, e)[k] \notin S
               PROVE  Keep(Append(u, e), S) = <<>>
    <3>1. \A u \in Seq(E), e \in E : Append(u, e) \in Seq(E)
      OBVIOUS
    <3> QED
      BY <3>1, Zenon
  <2>1. Keep(Append(u, e), S) = IF e \in S THEN Append(Keep(u, S), e) ELSE Keep(u, S)
    BY KeepAppend
  <2>2. Len(Append(u, e)) = Len(u) + 1 /\ Append(u, e)[Len(u) + 1] = e
        /\ \A k \in 1 .. Len(u) : Append(u, e)[k] = u[k]
    OBVIOUS
  <2>3. Len(u) \in Nat
    OBVIOUS
  <2>4. e \notin S /\ \A k \in 1 .. Len(u) : u[k] \notin S
    BY <2>2, <2>3
  <2> QED
    BY <2>1, <2>4
<1>3. Seq(E) \subseteq P
  <2> HIDE DEF P
  <2> QED
    BY <1>1, <1>2, SeqGrow
<1> QED
  BY <1>3

\* Keep of one element.
LEMMA KeepOne ==
    ASSUME NEW E, NEW e \in E, NEW S
    PROVE  Keep(<<e>>, S) = IF e \in S THEN <<e>> ELSE <<>>
<1>1. <<e>> = Append(<<>>, e) /\ <<>> \in Seq(E)
  OBVIOUS
<1>2. Keep(Append(<<>>, e), S) = IF e \in S THEN Append(Keep(<<>>, S), e) ELSE Keep(<<>>, S)
  BY <1>1, KeepAppend
<1>3. Keep(<<>>, S) = <<>>
  BY KeepEmpty
<1> QED
  BY <1>1, <1>2, <1>3

-----------------------------------------------------------------------------
(* The queues.                                                             *)

\* The types of what process_event works on.
Typed ==
    /\ events \in [LanesOf -> Seq(Elements)]
    /\ queues \in [Ports -> Seq(Elements)]
    /\ clockwise \in BOOLEAN
    /\ top_priority \in Ports

\* The most urgent first.
Sorted(s) == \A j, k \in 1 .. Len(s) : j < k => s[k].lane \notin Pipes!MoreUrgent(s[j].lane)

\* The sets of elements of a port, a lane and a destination.
LEMMA Sets ==
    ASSUME NEW i, NEW to, NEW l
    PROVE  /\ Real(i, to, l) \subseteq Own(i, l) /\ Own(i, l) \subseteq Elements
           /\ \A e \in Own(i, l) : e.from = i /\ e.lane = l
           /\ \A e \in Real(i, to, l) : e.from = i /\ e.lane = l /\ e.to = to /\ ~e.dummy
           /\ \A e \in Elements : e.from = i /\ e.lane = l /\ e.to = to /\ ~e.dummy => e \in Real(i, to, l)
  BY DEF Real, Own

\* A concatenation of three sequences, element by element.
LEMMA ThreeParts ==
    ASSUME NEW A, NEW a \in Seq(A), NEW b \in Seq(A), NEW c \in Seq(A)
    PROVE  /\ a \o b \o c \in Seq(A)
           /\ Len(a \o b \o c) = (Len(a) + Len(b)) + Len(c)
           /\ \A k \in 1 .. Len(a) : (a \o b \o c)[k] = a[k]
           /\ \A k \in 1 .. Len(b) : (a \o b \o c)[Len(a) + k] = b[k]
           /\ \A k \in 1 .. Len(c) : (a \o b \o c)[(Len(a) + Len(b)) + k] = c[k]
  OBVIOUS

\* Elements of three lanes, one lane after the other, are sorted.
LEMMA LanesSorted ==
    ASSUME NEW a \in Seq(Elements), NEW b \in Seq(Elements), NEW c \in Seq(Elements),
           \A k \in 1 .. Len(a) : a[k].lane = "rep",
           \A k \in 1 .. Len(b) : b[k].lane = "crq",
           \A k \in 1 .. Len(c) : c[k].lane = "req"
    PROVE  Sorted(a \o b \o c)
<1> DEFINE s == a \o b \o c
           la == Len(a)
           lb == Len(b)
           lc == Len(c)
<1>1. la \in Nat /\ lb \in Nat /\ lc \in Nat
  OBVIOUS
<1>2. Len(s) = (la + lb) + lc
  BY ThreeParts
<1>3. \A k \in 1 .. la : s[k].lane = "rep"
  BY ThreeParts
<1>4. \A k \in 1 .. lb : s[la + k].lane = "crq"
  BY ThreeParts
<1>5. \A k \in 1 .. lc : s[(la + lb) + k].lane = "req"
  BY ThreeParts
<1> HIDE DEF s, la, lb, lc
<1>6. SUFFICES ASSUME NEW j \in 1 .. Len(s), NEW k \in 1 .. Len(s), j < k
               PROVE  s[k].lane \notin Pipes!MoreUrgent(s[j].lane)
  BY DEF Sorted, s
<1>7. CASE j <= la
  <2>1. s[j].lane = "rep"
    BY <1>1, <1>2, <1>3, <1>7
  <2> QED
    BY <2>1 DEF Pipes!MoreUrgent
<1>8. CASE la < j /\ k <= la + lb
  <2>1. k - la \in 1 .. lb /\ la + (k - la) = k
    BY <1>1, <1>2, <1>6, <1>8
  <2>2. j - la \in 1 .. lb /\ la + (j - la) = j
    BY <1>1, <1>2, <1>6, <1>8
  <2>3. s[k].lane = "crq" /\ s[j].lane = "crq"
    BY <2>1, <2>2, <1>4
  <2> QED
    BY <2>3 DEF Pipes!MoreUrgent
<1>9. CASE la + lb < k
  <2>1. k - (la + lb) \in 1 .. lc /\ (la + lb) + (k - (la + lb)) = k
    BY <1>1, <1>2, <1>9
  <2>2. s[k].lane = "req"
    BY <2>1, <1>5
  <2> QED
    BY <2>2 DEF Pipes!MoreUrgent
<1> QED
  BY <1>1, <1>2, <1>7, <1>8, <1>9

\* Filling the queue of a port: sorted, and for every destination and lane what
\* was queued followed by what arrived.
LEMMA FilledParts ==
    ASSUME Typed, NEW i \in Ports
    PROVE  /\ Filled(i) \in Seq(Elements) /\ Sorted(Filled(i))
           /\ \A to, l : l \in LanesOf =>
                Keep(Filled(i), Real(i, to, l)) = Keep(queues[i] \o events[l], Real(i, to, l))
<1> DEFINE part(l) == Keep(queues[i] \o events[l], Own(i, l))
<1>1. \A l \in LanesOf : queues[i] \o events[l] \in Seq(Elements)
  BY DEF Typed
<1>2. \A l \in LanesOf : part(l) \in Seq(Elements) /\ part(l) \in Seq(Own(i, l))
  BY <1>1, KeepType
<1>3. \A l \in LanesOf : \A k \in 1 .. Len(part(l)) : part(l)[k].lane = l
  <2> SUFFICES ASSUME NEW l \in LanesOf, NEW k \in 1 .. Len(part(l)) PROVE part(l)[k].lane = l
    OBVIOUS
  <2>1. part(l)[k] \in Own(i, l)
    BY <1>2
  <2>2. \A e \in Own(i, l) : e.lane = l
    BY DEF Own
  <2> HIDE DEF part
  <2> QED
    BY <2>1, <2>2
<1>4. Filled(i) = part("rep") \o part("crq") \o part("req")
  BY DEF Filled
<1>5. "rep" \in LanesOf /\ "crq" \in LanesOf /\ "req" \in LanesOf
  BY DEF LanesOf
<1>6. Filled(i) \in Seq(Elements)
  BY <1>2, <1>4, <1>5, ThreeParts
<1>7. Sorted(Filled(i))
  <2> HIDE DEF part
  <2> QED
    BY <1>2, <1>3, <1>4, <1>5, LanesSorted
<1>8. ASSUME NEW to, NEW l \in LanesOf
      PROVE  Keep(Filled(i), Real(i, to, l)) = Keep(queues[i] \o events[l], Real(i, to, l))
  <2> DEFINE R == Real(i, to, l)
  <2>1. Keep(Filled(i), R) = Keep(part("rep"), R) \o Keep(part("crq"), R) \o Keep(part("req"), R)
    <3>0. \A u, v \in Seq(Elements) : Keep(u \o v, R) = Keep(u, R) \o Keep(v, R)
      BY KeepConcat
    <3> HIDE DEF part, R
    <3>1. part("rep") \o part("crq") \in Seq(Elements)
      BY <1>2, <1>5
    <3>2. Keep(part("rep") \o part("crq"), R) = Keep(part("rep"), R) \o Keep(part("crq"), R)
      BY <1>2, <1>5, <3>0
    <3>3. Keep((part("rep") \o part("crq")) \o part("req"), R)
            = Keep(part("rep") \o part("crq"), R) \o Keep(part("req"), R)
      BY <1>2, <1>5, <3>0, <3>1
    <3> QED
      BY <1>4, <3>2, <3>3
  <2>2. \A m \in LanesOf : m # l => Keep(part(m), R) = <<>>
    <3> SUFFICES ASSUME NEW m \in LanesOf, m # l PROVE Keep(part(m), R) = <<>>
      OBVIOUS
    <3>1. \A k \in 1 .. Len(part(m)) : part(m)[k] \notin R
      BY <1>3, Sets
    <3> HIDE DEF R, part
    <3> QED
      BY <1>2, <3>1, KeepNone
  <2>3. Keep(part(l), R) = Keep(queues[i] \o events[l], R)
    <3>1. R \subseteq Own(i, l)
      BY Sets
    <3> HIDE DEF R
    <3>2. \A u \in Seq(Elements) : Keep(Keep(u, Own(i, l)), R) = Keep(u, R)
      BY <3>1, KeepKeep
    <3> QED
      BY <1>1, <3>2
  <2>4. Keep(part(l), R) \in Seq(Elements)
    <3> HIDE DEF part, R
    <3> QED
      BY <1>2, KeepType
  <2> DEFINE z == Keep(part(l), R)
  <2>5. z \o <<>> \o <<>> = z /\ <<>> \o z \o <<>> = z /\ <<>> \o <<>> \o z = z
    <3> HIDE DEF part, R
    <3>1. z \in Seq(Elements)
      BY <2>4
    <3> HIDE DEF z
    <3> QED
      BY <3>1
  <2>6. l = "rep" \/ l = "crq" \/ l = "req"
    BY DEF LanesOf
  <2> HIDE DEF part, R
  <2> QED
    BY <1>5, <2>1, <2>2, <2>3, <2>5, <2>6 DEF R
<1> QED
  BY <1>6, <1>7, <1>8

\* Taking out the first element, or the second if the first is for another
\* port: of the messages of a port, destination and lane the oldest leaves, when
\* it is the one taken out, and then nothing more urgent waits for its
\* destination; else nothing changes.
LEMMA Removing ==
    ASSUME NEW s \in Seq(Elements), Sorted(s), NEW pos \in 1 .. Len(s), pos = 1 \/ pos = 2,
           pos = 2 => s[1].to.num # s[2].to.num,
           NEW r, r = RemoveAt(s, pos)
    PROVE  /\ r \in Seq(Elements) /\ Sorted(r)
           /\ \A i, to, l : s[pos] \notin Real(i, to, l)
                              => Keep(r, Real(i, to, l)) = Keep(s, Real(i, to, l))
           /\ \A i, to, l : s[pos] \in Real(i, to, l) =>
                /\ Keep(s, Real(i, to, l)) # <<>>
                /\ Keep(r, Real(i, to, l)) = Tail(Keep(s, Real(i, to, l)))
                /\ \A u \in Pipes!MoreUrgent(l) : Keep(s, Real(i, to, u)) = <<>>
<1> DEFINE a == SubSeq(s, 1, pos - 1)
           e == s[pos]
           b == SubSeq(s, pos + 1, Len(s))
<1>0. e \in Elements /\ a \in Seq(Elements) /\ b \in Seq(Elements) /\ Len(s) \in Nat
  OBVIOUS
<1>1. r = a \o b
  BY DEF RemoveAt
<1>2. Len(a) = pos - 1 /\ \A k \in 1 .. pos - 1 : a[k] = s[k]
  OBVIOUS
<1>3. Len(b) = Len(s) - pos /\ \A k \in 1 .. Len(s) - pos : b[k] = s[pos + k]
  OBVIOUS
<1> HIDE DEF a, b
<1>4. s = a \o <<e>> \o b
  <2> DEFINE c == <<e>>
             t == a \o c \o b
  <2>1. c \in Seq(Elements) /\ Len(c) = 1 /\ c[1] = e
    BY <1>0
  <2> HIDE DEF c
  <2>a. a \in Seq(Elements) /\ c \in Seq(Elements) /\ b \in Seq(Elements)
    BY <1>0, <2>1
  <2>2. /\ t \in Seq(Elements) /\ Len(t) = (Len(a) + Len(c)) + Len(b)
        /\ \A k \in 1 .. Len(a) : t[k] = a[k]
        /\ \A k \in 1 .. Len(c) : t[Len(a) + k] = c[k]
        /\ \A k \in 1 .. Len(b) : t[(Len(a) + Len(c)) + k] = b[k]
    <3>1. a \o c \in Seq(Elements) /\ Len(a \o c) = Len(a) + Len(c)
          /\ (\A k \in 1 .. Len(a) : (a \o c)[k] = a[k])
          /\ (\A k \in 1 .. Len(c) : (a \o c)[Len(a) + k] = c[k])
      BY ONLY <2>a
    <3> DEFINE ac == a \o c
    <3> HIDE DEF ac
    <3>2. ac \in Seq(Elements) /\ Len(ac) = Len(a) + Len(c) /\ Len(a) \in Nat /\ Len(c) \in Nat
      BY <2>a, <3>1 DEF ac
    <3>3. ac \o b \in Seq(Elements) /\ Len(ac \o b) = Len(ac) + Len(b)
          /\ (\A k \in 1 .. Len(ac) : (ac \o b)[k] = ac[k])
          /\ (\A k \in 1 .. Len(b) : (ac \o b)[Len(ac) + k] = b[k])
      <4>1. ac \in Seq(Elements) /\ b \in Seq(Elements)
        BY <2>a, <3>2
      <4> QED
        BY ONLY <4>1
    <3>4. t = ac \o b
      BY DEF ac
    <3>5. \A k \in 1 .. Len(a) : k \in 1 .. Len(ac)
      BY <3>2
    <3>6. \A k \in 1 .. Len(c) : Len(a) + k \in 1 .. Len(ac)
      BY <3>2
    <3>7. \A k \in 1 .. Len(a) : ac[k] = a[k]
      BY <3>1 DEF ac
    <3>8. \A k \in 1 .. Len(c) : ac[Len(a) + k] = c[k]
      BY <3>1 DEF ac
    <3> HIDE DEF t
    <3> QED
      BY ONLY <3>2, <3>3, <3>4, <3>5, <3>6, <3>7, <3>8
  <2> HIDE DEF t, e
  <2>3. Len(a) + 1 = pos /\ Len(a) + Len(c) = pos
    BY <1>2, <2>1
  <2>4. t[pos] = e
    BY <2>1, <2>2, <2>3
  <2>5. \A k \in 1 .. Len(s) - pos : t[pos + k] = b[k]
    BY <1>3, <2>2, <2>3
  <2>6. Len(t) = Len(s)
    BY <2>2, <2>3, <1>0, <1>3
  <2>7. \A k \in 1 .. Len(s) : t[k] = s[k]
    <3> SUFFICES ASSUME NEW k \in 1 .. Len(s) PROVE t[k] = s[k]
      OBVIOUS
    <3>1. CASE k < pos
      <4>1. k \in 1 .. pos - 1 /\ k \in 1 .. Len(a)
        BY <3>1, <1>2
      <4> QED
        BY <4>1, <2>2, <1>2
    <3>2. CASE k = pos
      BY <3>2, <2>4 DEF e
    <3>3. CASE k > pos
      <4>1. k - pos \in 1 .. Len(s) - pos /\ pos + (k - pos) = k
        BY <3>3, <1>0
      <4> QED
        BY <4>1, <2>5, <1>3
    <3> QED
      BY <3>1, <3>2, <3>3
  <2>8. t = s
    BY <2>2, <2>6, <2>7
  <2> QED
    BY <2>8 DEF t, c
<1>5. r \in Seq(Elements) /\ Len(r) = Len(s) - 1
  <2>1. a \o b \in Seq(Elements) /\ Len(a \o b) = Len(a) + Len(b)
    BY <1>0
  <2> QED
    BY <1>0, <1>1, <1>2, <1>3, <2>1
<1>6. \A k \in 1 .. Len(r) : r[k] = IF k < pos THEN s[k] ELSE s[k + 1]
  <2> SUFFICES ASSUME NEW k \in 1 .. Len(r) PROVE r[k] = IF k < pos THEN s[k] ELSE s[k + 1]
    OBVIOUS
  <2>1. CASE k < pos
    BY <2>1, <1>0, <1>1, <1>2
  <2>2. CASE ~(k < pos)
    <3>1. k - (pos - 1) \in 1 .. Len(s) - pos /\ pos + (k - (pos - 1)) = k + 1
      BY <2>2, <1>0, <1>5
    <3>2. r[k] = b[k - (pos - 1)]
      <4>0. a \in Seq(Elements) /\ b \in Seq(Elements)
        BY <1>0
      <4>1. \A m \in 1 .. Len(b) : (a \o b)[Len(a) + m] = b[m]
        BY ONLY <4>0
      <4>2. Len(a) + (k - (pos - 1)) = k
        BY <1>2
      <4> QED
        BY <4>1, <4>2, <3>1, <1>1, <1>3
    <3> QED
      BY <2>2, <3>1, <3>2, <1>3
  <2> QED
    BY <2>1, <2>2
<1>7. Sorted(r)
  <2> SUFFICES ASSUME NEW j \in 1 .. Len(r), NEW k \in 1 .. Len(r), j < k
               PROVE  r[k].lane \notin Pipes!MoreUrgent(r[j].lane)
    BY DEF Sorted
  <2> DEFINE jj == IF j < pos THEN j ELSE j + 1
             kk == IF k < pos THEN k ELSE k + 1
  <2>1. jj \in 1 .. Len(s) /\ kk \in 1 .. Len(s) /\ jj < kk
    BY <1>0, <1>5
  <2>2. r[j] = s[jj] /\ r[k] = s[kk]
    BY <1>6
  <2> HIDE DEF jj, kk
  <2> QED
    BY <2>1, <2>2 DEF Sorted
<1>8. ASSUME NEW R
      PROVE  /\ Keep(s, R) = Keep(a, R) \o Keep(<<e>>, R) \o Keep(b, R)
             /\ Keep(r, R) = Keep(a, R) \o Keep(b, R)
             /\ Keep(a, R) \in Seq(Elements) /\ Keep(b, R) \in Seq(Elements)
  <2>1. \A u, v \in Seq(Elements) : Keep(u \o v, R) = Keep(u, R) \o Keep(v, R)
    BY KeepConcat
  <2>2. \A u \in Seq(Elements) : Keep(u, R) \in Seq(Elements)
    BY KeepType
  <2>3. <<e>> \in Seq(Elements) /\ a \o <<e>> \in Seq(Elements)
    BY <1>0
  <2> HIDE DEF e
  <2>4. Keep((a \o <<e>>) \o b, R) = Keep(a \o <<e>>, R) \o Keep(b, R)
    BY <1>0, <2>1, <2>3
  <2>5. Keep(a \o <<e>>, R) = Keep(a, R) \o Keep(<<e>>, R)
    BY <1>0, <2>1, <2>3
  <2>6. Keep(a \o b, R) = Keep(a, R) \o Keep(b, R)
    BY <1>0, <2>1
  <2> QED
    BY <1>0, <1>1, <1>4, <2>2, <2>4, <2>5, <2>6
<1>9. ASSUME NEW i, NEW to, NEW l, e \notin Real(i, to, l)
      PROVE  Keep(r, Real(i, to, l)) = Keep(s, Real(i, to, l))
  <2> DEFINE R == Real(i, to, l)
             ka == Keep(a, R)
             kb == Keep(b, R)
  <2>1. Keep(<<e>>, R) = <<>>
    BY <1>0, <1>9, KeepOne
  <2>2. Keep(s, R) = ka \o <<>> \o kb /\ Keep(r, R) = ka \o kb /\ ka \in Seq(Elements) /\ kb \in Seq(Elements)
    BY <1>8, <2>1
  <2> HIDE DEF ka, kb
  <2>3. ka \o <<>> = ka
    BY <2>2
  <2> QED
    BY <2>2, <2>3
<1>10. ASSUME NEW i, NEW to, NEW l, e \in Real(i, to, l)
       PROVE  /\ Keep(s, Real(i, to, l)) # <<>>
              /\ Keep(r, Real(i, to, l)) = Tail(Keep(s, Real(i, to, l)))
  <2> DEFINE R == Real(i, to, l)
             kb == Keep(b, R)
  <2>1. Keep(<<e>>, R) = <<e>>
    BY <1>0, <1>10, KeepOne
  <2>2. \A k \in 1 .. Len(a) : a[k] \notin R
    <3> SUFFICES ASSUME NEW k \in 1 .. Len(a) PROVE a[k] \notin R
      OBVIOUS
    <3>1. pos = 2 /\ a[k] = s[1]
      BY <1>2
    <3>2. s[1].to.num # e.to.num /\ e.to = to
      BY <3>1, <1>10, Sets
    <3>3. \A d \in R : d.to = to
      BY Sets
    <3> QED
      BY <3>1, <3>2, <3>3
  <2>3. Keep(a, R) = <<>>
    BY <1>0, <2>2, KeepNone
  <2>4. Keep(s, R) = <<>> \o <<e>> \o kb /\ Keep(r, R) = <<>> \o kb /\ kb \in Seq(Elements)
    BY <1>8, <2>1, <2>3
  <2> HIDE DEF kb, R
  <2>5. <<>> \o kb = kb /\ <<>> \o <<e>> = <<e>>
    BY <2>4, <1>0
  <2>6. <<e>> \o kb # <<>> /\ Tail(<<e>> \o kb) = kb
    <3> HIDE DEF e
    <3> QED
      BY <1>0, <2>4
  <2> QED
    BY <2>4, <2>5, <2>6 DEF R
<1>11. ASSUME NEW i, NEW to, NEW l, e \in Real(i, to, l), NEW u \in Pipes!MoreUrgent(l)
       PROVE  Keep(s, Real(i, to, u)) = <<>>
  <2> DEFINE R == Real(i, to, u)
  <2>1. e.lane = l /\ e.to = to
    BY <1>11, Sets
  <2>2. l \notin Pipes!MoreUrgent(l)
    BY DEF Pipes!MoreUrgent
  <2>3. \A d \in R : d.lane = u /\ d.to = to
    BY Sets
  <2>4. \A k \in 1 .. Len(s) : s[k] \notin R
    <3> SUFFICES ASSUME NEW k \in 1 .. Len(s) PROVE s[k] \notin R
      OBVIOUS
    <3> HIDE DEF R
    <3>1. CASE k < pos
      <4>1. pos = 2 /\ k = 1
        BY <3>1
      <4>2. s[k].to # e.to
        BY <4>1
      <4> QED
        BY <4>2, <2>1, <2>3
    <3>2. CASE k = pos
      BY <3>2, <2>1, <2>2, <2>3, <1>11
    <3>3. CASE k > pos
      <4>1. s[k].lane \notin Pipes!MoreUrgent(e.lane)
        BY <3>3 DEF Sorted
      <4> QED
        BY <4>1, <2>1, <2>3, <1>11
    <3> QED
      BY <3>1, <3>2, <3>3
  <2> HIDE DEF R
  <2> QED
    BY <2>4, KeepNone DEF R
<1> QED
  BY <1>5, <1>7, <1>9, <1>10, <1>11

-----------------------------------------------------------------------------
(* The loop over the ports.                                                *)

Ends == Ports \X Components

\* In the loop's state x: what port p[1] holds for destination p[2] is what it
\* held when the loop began,
Same(x, p) ==
    \A l \in LanesOf : Keep(x.q[p[1]], Real(p[1], p[2], l)) = Keep(Filled(p[1]), Real(p[1], p[2], l))

\* or its most urgent, oldest message has left.
Took(x, p) == \E l \in LanesOf :
    /\ Keep(Filled(p[1]), Real(p[1], p[2], l)) # <<>>
    /\ Keep(x.q[p[1]], Real(p[1], p[2], l)) = Tail(Keep(Filled(p[1]), Real(p[1], p[2], l)))
    /\ \A u \in Pipes!MoreUrgent(l) : Keep(Filled(p[1]), Real(p[1], p[2], u)) = <<>>
    /\ \A m \in LanesOf \ {l} :
          Keep(x.q[p[1]], Real(p[1], p[2], m)) = Keep(Filled(p[1]), Real(p[1], p[2], m))

\* The invariant of the loop: a pair has lost at most one message, and only if
\* the destination's port is in already_sent; no two pairs of one destination
\* port have.
Underway(x) ==
    /\ x.q \in [Ports -> Seq(Elements)] /\ \A i \in Ports : Sorted(x.q[i])
    /\ \A p \in Ends : Same(x, p) \/ (p[2].num \in x.sent /\ Took(x, p))
    /\ \A p, r \in Ends : p # r /\ p[2].num = r[2].num => Same(x, p) \/ Same(x, r)

\* One look at a queue.
LEMMA AttemptKeeps ==
    ASSUME NEW x, Underway(x), NEW i \in Ports, NEW pos, pos = 1 \/ pos = 2,
           pos = 2 /\ 2 \in DOMAIN x.q[i] => x.q[i][1].to.num \in x.sent
    PROVE  Underway(Attempt(x, i, pos))
<1> DEFINE s == x.q[i]
           e == s[pos]
           w == Attempt(x, i, pos)
<1>1. CASE ~(pos \in DOMAIN x.q[i] /\ x.q[i][pos].to.num \notin x.sent)
  BY <1>1 DEF Attempt
<1>2. CASE pos \in DOMAIN x.q[i] /\ x.q[i][pos].to.num \notin x.sent
  <2> DEFINE t == RemoveAt(s, pos)
             c == <<i, e.to>>
  <2>1. s \in Seq(Elements) /\ Sorted(s) /\ DOMAIN s = 1 .. Len(s) /\ Len(s) \in Nat
    BY DEF Underway
  <2>2. pos \in 1 .. Len(s) /\ e \in Elements
    BY <1>2, <2>1
  <2>3. w.q = [x.q EXCEPT ![i] = t] /\ w.sent = x.sent \cup {e.to.num}
    BY <1>2 DEF Attempt
  <2>4. e.to \in Components /\ e.lane \in LanesOf /\ e.from \in Ports
    BY <2>2 DEF Elements
  <2>5. pos = 2 => s[1].to.num # s[2].to.num
    BY <1>2
  <2>6. /\ t \in Seq(Elements) /\ Sorted(t)
        /\ \A j, to, l : e \notin Real(j, to, l) => Keep(t, Real(j, to, l)) = Keep(s, Real(j, to, l))
        /\ \A j, to, l : e \in Real(j, to, l) =>
              /\ Keep(s, Real(j, to, l)) # <<>>
              /\ Keep(t, Real(j, to, l)) = Tail(Keep(s, Real(j, to, l)))
              /\ \A u \in Pipes!MoreUrgent(l) : Keep(s, Real(j, to, u)) = <<>>
    <3> HIDE DEF t, s
    <3> QED
      BY <2>1, <2>2, <2>5, Removing DEF t
  <2>7. x.q \in [Ports -> Seq(Elements)] /\ (\A k \in Ports : Sorted(x.q[k]))
    BY DEF Underway
  <2> HIDE DEF t, w, e
  <2>8. /\ w.q \in [Ports -> Seq(Elements)] /\ w.q[i] = t
        /\ \A k \in Ports \ {i} : w.q[k] = x.q[k]
    BY <2>3, <2>6, <2>7
  <2>9. \A k \in Ports : Sorted(w.q[k])
    BY <2>6, <2>7, <2>8
  <2>10. ASSUME NEW p \in Ends, p # c, NEW l
         PROVE  Keep(w.q[p[1]], Real(p[1], p[2], l)) = Keep(x.q[p[1]], Real(p[1], p[2], l))
    <3>1. p[1] \in Ports /\ p = <<p[1], p[2]>>
      BY DEF Ends
    <3>2. CASE p[1] # i
      BY <3>1, <3>2, <2>8
    <3>3. CASE p[1] = i
      <4>1. p[2] # e.to
        BY <3>1, <3>3, <2>10
      <4>2. \A d \in Real(i, p[2], l) : d.to = p[2]
        BY Sets
      <4>3. e \notin Real(i, p[2], l)
        BY <4>1, <4>2
      <4> QED
        BY <3>3, <4>3, <2>6, <2>8
    <3> QED
      BY <3>2, <3>3
  <2>11. ASSUME NEW p \in Ends, p # c
         PROVE  (Same(x, p) => Same(w, p)) /\ (Took(x, p) => Took(w, p))
    <3>1. \A l : Keep(w.q[p[1]], Real(p[1], p[2], l)) = Keep(x.q[p[1]], Real(p[1], p[2], l))
      BY <2>10, <2>11
    <3>2. Same(x, p) => Same(w, p)
      BY ONLY <3>1 DEF Same
    <3>3. ASSUME Took(x, p) PROVE Took(w, p)
      <4>1. PICK l \in LanesOf :
              /\ Keep(Filled(p[1]), Real(p[1], p[2], l)) # <<>>
              /\ Keep(x.q[p[1]], Real(p[1], p[2], l)) = Tail(Keep(Filled(p[1]), Real(p[1], p[2], l)))
              /\ \A u \in Pipes!MoreUrgent(l) : Keep(Filled(p[1]), Real(p[1], p[2], u)) = <<>>
              /\ \A m \in LanesOf \ {l} :
                    Keep(x.q[p[1]], Real(p[1], p[2], m)) = Keep(Filled(p[1]), Real(p[1], p[2], m))
        BY <3>3, Zenon DEF Took
      <4>2. Keep(w.q[p[1]], Real(p[1], p[2], l)) = Tail(Keep(Filled(p[1]), Real(p[1], p[2], l)))
        BY <3>1, <4>1
      <4>3. \A m \in LanesOf \ {l} :
              Keep(w.q[p[1]], Real(p[1], p[2], m)) = Keep(Filled(p[1]), Real(p[1], p[2], m))
        BY <3>1, <4>1
      <4> QED
        BY <4>1, <4>2, <4>3, Zenon DEF Took
    <3> QED
      BY <3>2, <3>3
  <2>12. ASSUME c \in Ends PROVE Same(x, c)
    <3>1. c[2].num \notin x.sent
      BY <1>2 DEF e
    <3> QED
      BY <2>12, <3>1 DEF Underway
  <2>13. ASSUME c \in Ends PROVE Same(w, c) \/ Took(w, c)
    <3>0. c[1] = i /\ c[2] = e.to
      OBVIOUS
    <3>1. \A l \in LanesOf : Keep(s, Real(i, e.to, l)) = Keep(Filled(i), Real(i, e.to, l))
      BY <2>12, <2>13, <3>0 DEF Same
    <3>2. CASE \A l \in LanesOf : e \notin Real(i, e.to, l)
      <4>1. \A l \in LanesOf : Keep(w.q[i], Real(i, e.to, l)) = Keep(Filled(i), Real(i, e.to, l))
        BY <3>1, <3>2, <2>6, <2>8
      <4> QED
        BY <3>0, <4>1 DEF Same
    <3>3. ASSUME NEW l \in LanesOf, e \in Real(i, e.to, l) PROVE Took(w, c)
      <4>1. \A m \in LanesOf \ {l} : e \notin Real(i, e.to, m)
        <5>1. \A m : \A d \in Real(i, e.to, m) : d.lane = m
          BY Sets
        <5> QED
          BY <3>3, <5>1
      <4>2. \A u \in Pipes!MoreUrgent(l) : u \in LanesOf
        BY DEF Pipes!MoreUrgent, LanesOf
      <4>3. /\ Keep(Filled(i), Real(i, e.to, l)) # <<>>
            /\ Keep(w.q[i], Real(i, e.to, l)) = Tail(Keep(Filled(i), Real(i, e.to, l)))
        BY <3>1, <3>3, <2>6, <2>8
      <4>4. \A u \in Pipes!MoreUrgent(l) : Keep(Filled(i), Real(i, e.to, u)) = <<>>
        BY <3>1, <3>3, <4>2, <2>6
      <4>5. \A m \in LanesOf \ {l} :
              Keep(w.q[i], Real(i, e.to, m)) = Keep(Filled(i), Real(i, e.to, m))
        BY <3>1, <4>1, <2>6, <2>8
      <4> QED
        BY <3>0, <4>3, <4>4, <4>5 DEF Took
    <3> QED
      BY <3>2, <3>3
  <2>14. ASSUME NEW p \in Ends PROVE Same(w, p) \/ (p[2].num \in w.sent /\ Took(w, p))
    <3>1. CASE p = c
      <4>1. p[2].num \in w.sent
        BY <3>1, <2>3
      <4> QED
        BY <3>1, <4>1, <2>13
    <3>2. CASE p # c
      <4>1. Same(x, p) \/ (p[2].num \in x.sent /\ Took(x, p))
        BY DEF Underway
      <4> QED
        BY <3>2, <4>1, <2>3, <2>11
    <3> QED
      BY <3>1, <3>2
  <2>15. ASSUME NEW p \in Ends, p # c, p[2].num = e.to.num PROVE Same(w, p)
    <3>1. p[2].num \notin x.sent
      BY <1>2, <2>15 DEF e
    <3>2. Same(x, p)
      BY <3>1 DEF Underway
    <3> QED
      BY <3>2, <2>11, <2>15
  <2>16. ASSUME NEW p \in Ends, NEW r \in Ends, p # r, p[2].num = r[2].num
         PROVE  Same(w, p) \/ Same(w, r)
    <3>1. CASE p = c
      <4>1. r # c /\ r[2].num = e.to.num
        BY <3>1, <2>16
      <4> QED
        BY <4>1, <2>15
    <3>2. CASE r = c
      <4>1. p # c /\ p[2].num = e.to.num
        BY <3>2, <2>16
      <4> QED
        BY <4>1, <2>15
    <3>3. CASE p # c /\ r # c
      <4>1. Same(x, p) \/ Same(x, r)
        BY <2>16 DEF Underway
      <4> QED
        BY <3>3, <4>1, <2>11
    <3> QED
      BY <3>1, <3>2, <3>3
  <2>17. Underway(w)
    BY <2>8, <2>9, <2>14, <2>16 DEF Underway
  <2> QED
    BY <2>17 DEF w
<1> QED
  BY <1>1, <1>2

\* The two looks at a port.
LEMMA ServePortKeeps ==
    ASSUME NEW x, Underway(x), NEW i \in Ports PROVE Underway(ServePort(x, i))
<1> DEFINE y == Attempt(x, i, 1)
           pos == IF y = x THEN 2 ELSE 1
<1>1. Underway(y)
  BY AttemptKeeps
<1>2. ServePort(x, i) = Attempt(y, i, pos)
  BY DEF ServePort
<1>3. pos = 1 \/ pos = 2
  OBVIOUS
<1>4. ASSUME pos = 2, 2 \in DOMAIN y.q[i] PROVE y.q[i][1].to.num \in y.sent
  <2>1. y = x
    BY <1>4
  <2>2. x.q[i] \in Seq(Elements)
    BY DEF Underway
  <2>3. 1 \in DOMAIN x.q[i]
    <3>1. 2 \in DOMAIN x.q[i]
      BY <1>4, <2>1
    <3> QED
      BY <2>2, <3>1
  <2>4. ASSUME x.q[i][1].to.num \notin x.sent PROVE FALSE
    <3>1. y.sent = x.sent \cup {x.q[i][1].to.num}
      BY <2>3, <2>4 DEF Attempt
    <3> HIDE DEF y
    <3> QED
      BY <2>1, <2>4, <3>1
  <2> HIDE DEF y
  <2> QED
    BY <2>1, <2>4
<1> HIDE DEF y, pos
<1>5. Underway(Attempt(y, i, pos))
  BY <1>1, <1>3, <1>4, AttemptKeeps
<1> QED
  BY <1>2, <1>5

\* The order of a cycle is made of ports.
LEMMA OrderPorts ==
    ASSUME Typed, NEW n \in 1 .. NumPorts PROVE Order[n] \in Ports
<1>1. NumPorts \in Nat \ {0} /\ top_priority \in Nat
  BY CrossbarAssumption DEF Typed, Ports
<1> DEFINE a == IF clockwise THEN top_priority + NumPorts + (n - 1)
                             ELSE top_priority + NumPorts - (n - 1)
<1>2. a \in Nat
  BY <1>1
<1>3. Order[n] = a % NumPorts
  BY DEF Order
<1> HIDE DEF a
<1>4. a % NumPorts \in 0 .. NumPorts - 1
  BY <1>1, <1>2
<1> QED
  BY <1>3, <1>4 DEF Ports

\* The function of the loop's states: the ports in the order served.
Served(f, n) ==
    f = [k \in 0 .. n |-> IF k = 0 THEN [q |-> [i \in Ports |-> Filled(i)], sent |-> {}]
                                   ELSE ServePort(f[k - 1], Order[k])]

\* There is one.
LEMMA ServedExists ==
    ASSUME NEW n \in Nat PROVE \E f : Served(f, n)
<1> DEFINE K == {k \in 0 .. n : \E f : Served(f, k)}
           z == [q |-> [i \in Ports |-> Filled(i)], sent |-> {}]
<1>1. 0 \in K
  <2> DEFINE f0 == [k \in 0 .. 0 |-> z]
  <2> HIDE DEF z
  <2>1. f0 = [k \in 0 .. 0 |-> IF k = 0 THEN z ELSE ServePort(f0[k - 1], Order[k])]
    OBVIOUS
  <2> HIDE DEF f0
  <2>2. Served(f0, 0)
    BY <2>1 DEF Served, z
  <2> QED
    BY <2>2
<1>2. \A k \in 0 .. n - 1 : k \in K => k + 1 \in K
  <2> SUFFICES ASSUME NEW k \in 0 .. n - 1, k \in K PROVE \E h : Served(h, k + 1)
    OBVIOUS
  <2>1. PICK f : Served(f, k)
    OBVIOUS
  <2> DEFINE last == ServePort(f[k], Order[k + 1])
             h == [i \in 0 .. k + 1 |-> IF i = k + 1 THEN last ELSE f[i]]
  <2> HIDE DEF z, last
  <2>2. h[k + 1] = last /\ \A i \in 0 .. k : h[i] = f[i]
    OBVIOUS
  <2>3. \A i \in 0 .. k : f[i] = IF i = 0 THEN z ELSE ServePort(f[i - 1], Order[i])
    BY <2>1 DEF Served, z
  <2>4. h = [i \in 0 .. k + 1 |-> h[i]]
    OBVIOUS
  <2> HIDE DEF h
  <2>5. \A i \in 0 .. k + 1 : h[i] = IF i = 0 THEN z ELSE ServePort(h[i - 1], Order[i])
    <3> SUFFICES ASSUME NEW i \in 0 .. k + 1
                 PROVE  h[i] = IF i = 0 THEN z ELSE ServePort(h[i - 1], Order[i])
      OBVIOUS
    <3>1. CASE i = 0
      <4>1. 0 \in 0 .. k
        OBVIOUS
      <4> QED
        BY <3>1, <4>1, <2>2, <2>3
    <3>2. CASE i = k + 1
      <4>1. i # 0 /\ i - 1 = k /\ k \in 0 .. k
        BY <3>2
      <4>2. h[k] = f[k]
        BY <4>1, <2>2
      <4> QED
        BY <3>2, <4>1, <4>2, <2>2 DEF last
    <3>3. CASE i \in 1 .. k
      <4>1. i \in 0 .. k /\ i - 1 \in 0 .. k /\ i # 0
        BY <3>3
      <4>2. h[i] = f[i] /\ h[i - 1] = f[i - 1] /\ f[i] = ServePort(f[i - 1], Order[i])
        BY <4>1, <2>2, <2>3
      <4> QED
        BY <4>1, <4>2
    <3> QED
      BY <3>1, <3>2, <3>3
  <2>6. h = [i \in 0 .. k + 1 |-> IF i = 0 THEN z ELSE ServePort(h[i - 1], Order[i])]
    BY <2>4, <2>5
  <2> QED
    BY <2>6 DEF Served, z
<1>3. 0 .. n \subseteq K
  <2> HIDE DEF K
  <2> QED
    BY <1>1, <1>2, Rounds
<1> QED
  BY <1>3

\* The cycle as a whole: the invariant of the loop holds at its end.
LEMMA Dispatches ==
    ASSUME Typed
    PROVE  \E x : Underway(x) /\ Dispatched = x.q
<1> DEFINE z == [q |-> [i \in Ports |-> Filled(i)], sent |-> {}]
           h == CHOOSE f : Served(f, NumPorts)
<1>0. NumPorts \in Nat
  BY CrossbarAssumption
<1>1. Dispatched = h[NumPorts].q
  BY DEF Dispatched, Served
<1>2. Served(h, NumPorts)
  BY <1>0, ServedExists
<1> HIDE DEF h
<1>3. Underway(z)
  <2>1. z.q = [i \in Ports |-> Filled(i)] /\ z.sent = {}
    OBVIOUS
  <2> HIDE DEF z
  <2>2. z.q \in [Ports -> Seq(Elements)] /\ \A i \in Ports : Sorted(z.q[i]) /\ z.q[i] = Filled(i)
    BY <2>1, FilledParts
  <2>3. \A p \in Ends : Same(z, p)
    BY <2>2 DEF Ends, Same
  <2> QED
    BY <2>2, <2>3 DEF Underway
<1> HIDE DEF z
<1>4. \A k \in 0 .. NumPorts : h[k] = IF k = 0 THEN z ELSE ServePort(h[k - 1], Order[k])
  BY <1>2 DEF Served, z
<1> DEFINE K == {k \in 0 .. NumPorts : Underway(h[k])}
<1>5. 0 \in K
  <2>1. 0 \in 0 .. NumPorts
    BY <1>0
  <2> QED
    BY <2>1, <1>3, <1>4
<1>6. \A k \in 0 .. NumPorts - 1 : k \in K => k + 1 \in K
  <2> SUFFICES ASSUME NEW k \in 0 .. NumPorts - 1, Underway(h[k])
               PROVE  Underway(h[k + 1]) /\ k + 1 \in 0 .. NumPorts
    OBVIOUS
  <2>1. k + 1 \in 0 .. NumPorts /\ k + 1 \in 1 .. NumPorts /\ k + 1 # 0 /\ (k + 1) - 1 = k
    BY <1>0
  <2>2. h[k + 1] = ServePort(h[k], Order[k + 1])
    BY <2>1, <1>4
  <2>3. Order[k + 1] \in Ports
    BY <2>1, OrderPorts
  <2> QED
    BY <2>1, <2>2, <2>3, ServePortKeeps
<1>7. 0 .. NumPorts \subseteq K
  <2> HIDE DEF K
  <2> QED
    BY <1>0, <1>5, <1>6, Rounds
<1>8. Underway(h[NumPorts])
  BY <1>0, <1>7
<1> QED
  BY <1>1, <1>8

-----------------------------------------------------------------------------
(* The refinement of Lanes.                                                *)

\* Two sequences with the same elements are the same.
LEMMA SameSeq ==
    ASSUME NEW A, NEW u \in Seq(A), NEW v \in Seq(A), Len(u) = Len(v),
           \A k \in 1 .. Len(u) : u[k] = v[k]
    PROVE  u = v
  OBVIOUS

\* What the elements carry, for the operations Lanes makes of it.
LEMMA DataParts ==
    ASSUME NEW s \in Seq(Elements)
    PROVE  /\ DataOf(s) # <<>> <=> s # <<>>
           /\ s # <<>> => DataOf(Tail(s)) = Tail(DataOf(s))
           /\ \A e \in Elements : DataOf(Append(s, e)) = Append(DataOf(s), e.data)
<1>1. \A u \in Seq(Elements) : /\ DataOf(u) \in Seq(BOOLEAN) /\ Len(DataOf(u)) = Len(u)
                                /\ \A k \in 1 .. Len(u) : DataOf(u)[k] = u[k].data
  <2> SUFFICES ASSUME NEW u \in Seq(Elements)
               PROVE  /\ DataOf(u) \in Seq(BOOLEAN) /\ Len(DataOf(u)) = Len(u)
                      /\ \A k \in 1 .. Len(u) : DataOf(u)[k] = u[k].data
    OBVIOUS
  <2>1. DOMAIN u = 1 .. Len(u) /\ Len(u) \in Nat
    OBVIOUS
  <2>2. \A k \in 1 .. Len(u) : u[k].data \in BOOLEAN
    <3>1. \A e \in Elements : e.data \in BOOLEAN
      BY DEF Elements
    <3>2. \A k \in 1 .. Len(u) : u[k] \in Elements
      OBVIOUS
    <3> QED
      BY <3>1, <3>2
  <2>3. DataOf(u) = [k \in 1 .. Len(u) |-> u[k].data]
    BY <2>1 DEF DataOf
  <2> QED
    BY <2>1, <2>2, <2>3
<1> DEFINE d == DataOf(s)
<1>2. d # <<>> <=> s # <<>>
  BY <1>1
<1>3. ASSUME s # <<>> PROVE DataOf(Tail(s)) = Tail(d)
  <2> DEFINE t == Tail(s)
             dt == Tail(d)
  <2>1. /\ t \in Seq(Elements) /\ Len(t) = Len(s) - 1 /\ Len(s) \in Nat /\ Len(s) # 0
        /\ \A k \in 1 .. Len(s) - 1 : t[k] = s[k + 1]
    BY <1>3
  <2>2. d \in Seq(BOOLEAN) /\ Len(d) = Len(s) /\ \A k \in 1 .. Len(s) : d[k] = s[k].data
    BY <1>1
  <2> HIDE DEF t, d
  <2>3. d \in Seq(BOOLEAN) /\ d # <<>>
    BY <1>2, <1>3, <2>2
  <2>4. dt \in Seq(BOOLEAN) /\ Len(dt) = Len(d) - 1 /\ \A k \in 1 .. Len(d) - 1 : dt[k] = d[k + 1]
    BY ONLY <2>3
  <2> HIDE DEF dt
  <2>5. DataOf(t) \in Seq(BOOLEAN) /\ Len(DataOf(t)) = Len(t) /\ \A k \in 1 .. Len(t) : DataOf(t)[k] = t[k].data
    BY <1>1, <2>1
  <2>6. \A k \in 1 .. Len(DataOf(t)) : DataOf(t)[k] = dt[k]
    <3> SUFFICES ASSUME NEW k \in 1 .. Len(DataOf(t)) PROVE DataOf(t)[k] = dt[k]
      OBVIOUS
    <3>1. k \in 1 .. Len(s) - 1 /\ k + 1 \in 1 .. Len(s)
      BY <2>1, <2>5
    <3> QED
      BY <3>1, <2>1, <2>2, <2>4, <2>5
  <2>7. Len(DataOf(t)) = Len(dt)
    BY <2>1, <2>2, <2>4, <2>5
  <2>8. DataOf(t) = dt
    BY <2>4, <2>5, <2>6, <2>7, SameSeq
  <2> QED
    BY <2>8 DEF t, dt
<1>4. ASSUME NEW e \in Elements PROVE DataOf(Append(s, e)) = Append(d, e.data)
  <2> DEFINE t == Append(s, e)
             dt == Append(d, e.data)
  <2>0. e.data \in BOOLEAN
    BY DEF Elements
  <2>1. t \in Seq(Elements) /\ Len(t) = Len(s) + 1 /\ t[Len(s) + 1] = e /\ Len(s) \in Nat
        /\ \A k \in 1 .. Len(s) : t[k] = s[k]
    OBVIOUS
  <2>2. d \in Seq(BOOLEAN) /\ Len(d) = Len(s) /\ \A k \in 1 .. Len(s) : d[k] = s[k].data
    BY <1>1
  <2> HIDE DEF t, d
  <2>3. d \in Seq(BOOLEAN)
    BY <2>2
  <2>4. dt \in Seq(BOOLEAN) /\ Len(dt) = Len(d) + 1 /\ dt[Len(d) + 1] = e.data
        /\ \A k \in 1 .. Len(d) : dt[k] = d[k]
    BY ONLY <2>0, <2>3
  <2> HIDE DEF dt
  <2>5. DataOf(t) \in Seq(BOOLEAN) /\ Len(DataOf(t)) = Len(t) /\ \A k \in 1 .. Len(t) : DataOf(t)[k] = t[k].data
    BY <1>1, <2>1
  <2>6. \A k \in 1 .. Len(DataOf(t)) : DataOf(t)[k] = dt[k]
    <3> SUFFICES ASSUME NEW k \in 1 .. Len(DataOf(t)) PROVE DataOf(t)[k] = dt[k]
      OBVIOUS
    <3>1. k \in 1 .. Len(t) /\ (k \in 1 .. Len(s) \/ k = Len(s) + 1)
      BY <2>1, <2>5
    <3> QED
      BY <3>1, <2>1, <2>2, <2>4, <2>5
  <2>7. Len(DataOf(t)) = Len(dt)
    BY <2>1, <2>2, <2>4, <2>5
  <2>8. DataOf(t) = dt
    BY <2>4, <2>5, <2>6, <2>7, SameSeq
  <2> QED
    BY <2>8 DEF t, dt
<1> QED
  BY <1>2, <1>3, <1>4

\* The abstract lanes, pair by pair.
LEMMA PipeParts ==
    /\ Routes \subseteq Ends /\ LanesOf = Pipes!LaneNames
    /\ DOMAIN Pipe = Routes
    /\ \A p \in Routes : /\ DOMAIN Pipe[p] = LanesOf
                         /\ Pipe[p] = [l \in LanesOf |-> Held(p[1], p[2], l)]
                         /\ \A l \in LanesOf : Pipe[p][l] = Held(p[1], p[2], l)
  BY DEF Pipe, Routes, Ends, LanesOf, Pipes!LaneNames

\* The same of the state a step leads to.
LEMMA PipePartsNext ==
    /\ DOMAIN Pipe' = Routes
    /\ \A p \in Routes : /\ DOMAIN Pipe'[p] = LanesOf
                         /\ Pipe'[p] = [l \in LanesOf |-> Held(p[1], p[2], l)']
                         /\ \A l \in LanesOf : Pipe'[p][l] = Held(p[1], p[2], l)'
  BY DEF Pipe

\* A packet is made of the dummies d and the message e.
Flitted(d, e, i, l, to, data) ==
    /\ Packet(i, l, to, data) = Append(d, e)
    /\ \A k \in 1 .. Len(d) : d[k].dummy
    /\ e.from = i /\ e.lane = l /\ e.to = to /\ e.data = data /\ ~e.dummy

\* A message's packet: its flits but the last are dummies.
LEMMA PacketParts ==
    ASSUME NEW i \in Ports, NEW l \in LanesOf, NEW to \in Components, NEW data \in BOOLEAN
    PROVE  \E d \in Seq(Elements), e \in Elements : Flitted(d, e, i, l, to, data)
<1> DEFINE n == IF data THEN Flits ELSE 1
           e(k) == [from |-> i, lane |-> l, to |-> to, data |-> data, dummy |-> k # n]
           d == [k \in 1 .. n - 1 |-> e(k)]
<1>1. n \in Nat \ {0}
  BY CrossbarAssumption
<1>2. Packet(i, l, to, data) = [k \in 1 .. n |-> e(k)]
  BY DEF Packet
<1>3. \A k : e(k) \in Elements
  BY DEF Elements
<1>4. ~e(n).dummy /\ \A k \in 1 .. n - 1 : e(k).dummy
  <2>1. \A k : e(k).dummy = (k # n)
    BY Zenon
  <2>2. n \notin 1 .. n - 1
    BY <1>1
  <2> HIDE DEF e, n
  <2> QED
    BY <2>1, <2>2, Zenon
<1>5. e(n).from = i /\ e(n).lane = l /\ e(n).to = to /\ e(n).data = data
  OBVIOUS
<1> HIDE DEF n, e
<1>6. d \in Seq(Elements) /\ Len(d) = n - 1 /\ \A k \in 1 .. n - 1 : d[k] = e(k)
  BY <1>1, <1>3
<1> HIDE DEF d
<1> DEFINE t == Append(d, e(n))
           q == [k \in 1 .. n |-> e(k)]
<1>7. q \in Seq(Elements) /\ Len(q) = n /\ \A k \in 1 .. n : q[k] = e(k)
  BY <1>1, <1>3
<1>8. t = q
  <2>1. d \in Seq(Elements) /\ e(n) \in Elements
    BY <1>3, <1>6
  <2>2. t \in Seq(Elements) /\ Len(t) = Len(d) + 1 /\ t[Len(d) + 1] = e(n)
        /\ \A k \in 1 .. Len(d) : t[k] = d[k]
    BY ONLY <2>1
  <2> HIDE DEF t, q
  <2>3. Len(t) = Len(q)
    BY <1>1, <1>6, <1>7, <2>2
  <2>4. \A k \in 1 .. Len(t) : t[k] = q[k]
    <3> SUFFICES ASSUME NEW k \in 1 .. Len(t) PROVE t[k] = q[k]
      OBVIOUS
    <3>1. k \in 1 .. n /\ Len(d) + 1 = n /\ (k \in 1 .. n - 1 \/ k = n)
      BY <1>1, <1>6, <2>2
    <3> QED
      BY <3>1, <1>6, <1>7, <2>2
  <2> QED
    BY <1>7, <2>2, <2>3, <2>4, SameSeq
<1>9. \A k \in 1 .. Len(d) : d[k].dummy
  BY <1>4, <1>6
<1>10. Packet(i, l, to, data) = Append(d, e(n))
  BY <1>2, <1>8
<1>11. Flitted(d, e(n), i, l, to, data)
  BY <1>4, <1>5, <1>9, <1>10, Zenon DEF Flitted
<1> QED
  BY <1>3, <1>6, <1>11

\* The crossbar's variables keep their types.
LEMMA TypedStep ==
    ASSUME Typed, [Next]_vars PROVE Typed'
<1>1. ASSUME NEW i \in Ports, NEW l \in LanesOf, NEW to \in Components, NEW data \in BOOLEAN,
             Add(i, l, to, data)
      PROVE  Typed'
  <2>1. PICK d \in Seq(Elements), e \in Elements : Packet(i, l, to, data) = Append(d, e)
    BY PacketParts DEF Flitted
  <2>2. events' = [events EXCEPT ![l] = @ \o Append(d, e)] /\ UNCHANGED <<queues, clockwise, top_priority>>
    BY <1>1, <2>1 DEF Add
  <2>3. events[l] \o Append(d, e) \in Seq(Elements)
    BY DEF Typed
  <2> QED
    BY <2>2, <2>3 DEF Typed
<1>2. CASE ProcessEvent
  <2>1. PICK x : Underway(x) /\ Dispatched = x.q
    BY Dispatches
  <2>2. queues' \in [Ports -> Seq(Elements)]
    BY <1>2, <2>1 DEF ProcessEvent, Underway
  <2>3. events' \in [LanesOf -> Seq(Elements)]
    BY <1>2 DEF ProcessEvent
  <2>4. clockwise' \in BOOLEAN
    BY <1>2 DEF ProcessEvent, MoveToken, Typed
  <2>5. NumPorts \in Nat \ {0} /\ top_priority \in Nat
    BY CrossbarAssumption DEF Typed, Ports
  <2>6. (top_priority + 1) % NumPorts \in 0 .. NumPorts - 1
    BY <2>5
  <2>7. top_priority' \in Ports
    BY <1>2, <2>6 DEF ProcessEvent, MoveToken, Typed, Ports
  <2> QED
    BY <2>2, <2>3, <2>4, <2>7 DEF Typed
<1>3. CASE UNCHANGED vars
  BY <1>3 DEF vars, Typed
<1>4. \A i \in Ports : L2(i) \in Components
  BY DEF L2, Components
<1>5. \A i \in Homes : Dir(i) \in Components
  BY DEF Dir, Components
<1>6. "rep" \in LanesOf /\ "crq" \in LanesOf /\ "req" \in LanesOf /\ FALSE \in BOOLEAN
  BY DEF LanesOf
<1> QED
  BY <1>1, <1>2, <1>3, <1>4, <1>5, <1>6 DEF Next, AddReq, AddCrq, AddRepL2, AddRepDir

\* Concatenation is associative.
LEMMA Regroup ==
    ASSUME NEW A, NEW u \in Seq(A), NEW v \in Seq(A), NEW w \in Seq(A)
    PROVE  u \o (v \o w) = (u \o v) \o w
<1> DEFINE vw == v \o w
           uv == u \o v
           a == u \o vw
           b == uv \o w
<1>1. vw \in Seq(A) /\ uv \in Seq(A)
  OBVIOUS
<1>2. Len(vw) = Len(v) + Len(w) /\ (\A k \in 1 .. Len(v) : vw[k] = v[k])
      /\ (\A k \in 1 .. Len(w) : vw[Len(v) + k] = w[k])
  OBVIOUS
<1>3. Len(uv) = Len(u) + Len(v) /\ (\A k \in 1 .. Len(u) : uv[k] = u[k])
      /\ (\A k \in 1 .. Len(v) : uv[Len(u) + k] = v[k])
  OBVIOUS
<1> HIDE DEF vw, uv
<1>4. a \in Seq(A) /\ Len(a) = Len(u) + Len(vw) /\ (\A k \in 1 .. Len(u) : a[k] = u[k])
      /\ (\A k \in 1 .. Len(vw) : a[Len(u) + k] = vw[k])
  BY <1>1
<1>5. b \in Seq(A) /\ Len(b) = Len(uv) + Len(w) /\ (\A k \in 1 .. Len(uv) : b[k] = uv[k])
      /\ (\A k \in 1 .. Len(w) : b[Len(uv) + k] = w[k])
  BY <1>1
<1> DEFINE lu == Len(u)
           lv == Len(v)
           lw == Len(w)
<1>6. lu \in Nat /\ lv \in Nat /\ lw \in Nat
  OBVIOUS
<1>7. Len(a) = (lu + lv) + lw /\ Len(b) = (lu + lv) + lw
  BY <1>2, <1>3, <1>4, <1>5, <1>6
<1> HIDE DEF a, b
<1>8. ASSUME NEW k \in 1 .. Len(a) PROVE a[k] = b[k]
  <2>1. CASE k <= lu
    <3>1. k \in 1 .. Len(u) /\ k \in 1 .. Len(uv)
      BY <1>3, <1>6, <1>7, <2>1
    <3> QED
      BY <3>1, <1>3, <1>4, <1>5
  <2>2. CASE lu < k /\ k <= lu + lv
    <3> DEFINE i == k - lu
    <3>1. i \in 1 .. Len(v) /\ i \in 1 .. Len(vw) /\ Len(u) + i = k /\ k \in 1 .. Len(uv)
      BY <1>2, <1>3, <1>6, <1>7, <2>2
    <3> HIDE DEF i
    <3>2. a[k] = vw[i] /\ b[k] = uv[k]
      BY <3>1, <1>4, <1>5
    <3>3. vw[i] = v[i] /\ uv[k] = v[i]
      BY <3>1, <1>2, <1>3
    <3> QED
      BY <3>2, <3>3
  <2>3. CASE lu + lv < k
    <3> DEFINE i == k - (lu + lv)
    <3>1. i \in 1 .. Len(w) /\ Len(v) + i \in 1 .. Len(vw)
          /\ Len(u) + (Len(v) + i) = k /\ Len(uv) + i = k
      BY <1>2, <1>3, <1>6, <1>7, <2>3
    <3> HIDE DEF i
    <3>2. a[k] = vw[Len(v) + i] /\ b[k] = w[i]
      BY <3>1, <1>4, <1>5
    <3>3. vw[Len(v) + i] = w[i]
      BY <3>1, <1>2
    <3> QED
      BY <3>2, <3>3
  <2> QED
    BY <1>6, <1>7, <2>1, <2>2, <2>3
<1>9. a = b
  BY <1>4, <1>5, <1>7, <1>8, SameSeq
<1> QED
  BY <1>9 DEF a, b, vw, uv

\* One more message on a lane.
LEMMA HeldGrows ==
    ASSUME Typed, NEW i \in Ports, NEW l \in LanesOf, NEW to \in Components, NEW data \in BOOLEAN,
           Add(i, l, to, data), NEW j \in Ports, NEW dest, NEW m \in LanesOf
    PROVE  Held(j, dest, m)' = IF j = i /\ dest = to /\ m = l THEN Append(Held(j, dest, m), data)
                                                              ELSE Held(j, dest, m)
<1>1. PICK d \in Seq(Elements), e \in Elements :
             /\ Packet(i, l, to, data) = Append(d, e)
             /\ \A k \in 1 .. Len(d) : d[k].dummy
             /\ e.from = i /\ e.lane = l /\ e.to = to /\ e.data = data /\ ~e.dummy
  <2>1. PICK d \in Seq(Elements), e \in Elements : Flitted(d, e, i, l, to, data)
    BY PacketParts
  <2> QED
    BY <2>1, Zenon DEF Flitted
<1>2. events' = [events EXCEPT ![l] = @ \o Append(d, e)] /\ queues' = queues
  BY <1>1 DEF Add
<1>3. CASE m # l
  <2>1. events'[m] = events[m]
    BY <1>2, <1>3 DEF Typed
  <2> QED
    BY <1>2, <1>3, <2>1 DEF Held
<1>4. CASE m = l
  <2> DEFINE R == Real(j, dest, l)
             u == queues[j] \o events[l]
  <2>1. queues[j] \in Seq(Elements) /\ events[l] \in Seq(Elements) /\ events'[l] = events[l] \o Append(d, e)
    BY <1>2 DEF Typed
  <2>2. u \in Seq(Elements) /\ u \o d \in Seq(Elements)
    BY <2>1
  <2>3. queues[j] \o (events[l] \o Append(d, e)) = Append(u \o d, e)
    <3>1. Append(d, e) \in Seq(Elements) /\ d \in Seq(Elements) /\ e \in Elements
      OBVIOUS
    <3>2. queues[j] \o (events[l] \o Append(d, e)) = u \o Append(d, e)
      <4>1. \A a, b, c \in Seq(Elements) : a \o (b \o c) = (a \o b) \o c
        BY Regroup
      <4> QED
        BY <2>1, <3>1, <4>1
    <3> HIDE DEF u
    <3>3. u \o Append(d, e) = Append(u \o d, e)
      BY ONLY <2>2, <3>1
    <3> QED
      BY <3>2, <3>3
  <2>4. Held(j, dest, l) = DataOf(Keep(u, R)) /\ Held(j, dest, l)' = DataOf(Keep(Append(u \o d, e), R))
    BY <1>2, <2>1, <2>3 DEF Held
  <2> HIDE DEF u
  <2>5. Keep(d, R) = <<>>
    <3>1. \A k \in 1 .. Len(d) : d[k] \notin R
      BY <1>1, Sets
    <3> HIDE DEF R
    <3> QED
      BY <3>1, KeepNone
  <2>6. e \in R <=> j = i /\ dest = to
    BY <1>1 DEF Real, Own
  <2> HIDE DEF R
  <2>7. Keep(u, R) \in Seq(Elements)
    BY <2>2, KeepType
  <2>8. Keep(u \o d, R) = Keep(u, R)
    <3>1. Keep(u \o d, R) = Keep(u, R) \o Keep(d, R)
      BY <2>2, KeepConcat
    <3> QED
      BY <3>1, <2>5, <2>7
  <2>9. Keep(Append(u \o d, e), R) = IF e \in R THEN Append(Keep(u, R), e) ELSE Keep(u, R)
    <3>1. \A v \in Seq(Elements) : Keep(Append(v, e), R) = IF e \in R THEN Append(Keep(v, R), e) ELSE Keep(v, R)
      BY KeepAppend
    <3> QED
      BY <3>1, <2>2, <2>8
  <2>10. DataOf(Append(Keep(u, R), e)) = Append(DataOf(Keep(u, R)), data)
    BY <1>1, <2>7, DataParts
  <2> QED
    BY <1>4, <2>4, <2>6, <2>9, <2>10
<1> QED
  BY <1>3, <1>4

\* add_req_event, add_crq_event and add_rep_event send on a lane.
LEMMA AddSends ==
    ASSUME Typed, NEW i \in Ports, NEW l \in LanesOf, NEW to \in Components, NEW data \in BOOLEAN,
           to.c = "l2" => i \in Homes /\ to.num # i, Add(i, l, to, data)
    PROVE  <<i, to>> \in Routes /\ Pipes!Send(<<i, to>>, l, data)
<1> DEFINE p == <<i, to>>
<1>1. p \in Routes
  BY DEF Routes, Add
<1>2. p[1] = i /\ p[2] = to
  OBVIOUS
<1> HIDE DEF p
<1>3. Pipe'[p] = [Pipe[p] EXCEPT ![l] = Append(@, data)]
  <2>1. \A m \in LanesOf : Held(i, to, m)' = IF m = l THEN Append(Held(i, to, m), data) ELSE Held(i, to, m)
    BY HeldGrows
  <2>2. Pipe'[p] = [m \in LanesOf |-> Held(i, to, m)']
    BY <1>1, <1>2, PipePartsNext
  <2>3. Pipe[p] = [m \in LanesOf |-> Held(i, to, m)]
    BY <1>1, <1>2, PipeParts
  <2>4. \A m \in LanesOf : Pipe[p][m] = Held(i, to, m)
    BY <1>1, <1>2, PipeParts
  <2>5. Pipe'[p] = [m \in LanesOf |-> IF m = l THEN Append(Pipe[p][l], data) ELSE Pipe[p][m]]
    BY ONLY <2>1, <2>2, <2>4, l \in LanesOf
  <2>6. DOMAIN Pipe[p] = LanesOf /\ Pipe[p] = [m \in LanesOf |-> Pipe[p][m]]
    BY ONLY <2>3, <2>4
  <2> QED
    BY ONLY <2>5, <2>6
<1>4. ASSUME NEW r \in Routes \ {p} PROVE Pipe'[r] = Pipe[r]
  <2>1. r[1] \in Ports /\ r = <<r[1], r[2]>>
    BY DEF Routes
  <2>2. ~(r[1] = i /\ r[2] = to)
    BY <1>4, <2>1 DEF p
  <2>3. \A m \in LanesOf : Held(r[1], r[2], m)' = Held(r[1], r[2], m)
    BY <2>1, <2>2, HeldGrows
  <2>4. Pipe'[r] = [m \in LanesOf |-> Held(r[1], r[2], m)']
    BY PipePartsNext
  <2>5. Pipe[r] = [m \in LanesOf |-> Held(r[1], r[2], m)]
    BY PipeParts
  <2> QED
    BY <2>3, <2>4, <2>5
<1> QED
  BY <1>1, <1>3, <1>4 DEF Pipes!Send, p

\* A cycle delivers: what Same and Took say of the pairs is what Lanes asks.
LEMMA CycleDelivers ==
    ASSUME Typed, ProcessEvent PROVE Pipes!Deliver
<1>1. PICK x : Underway(x) /\ queues' = x.q
  BY Dispatches DEF ProcessEvent
<1>2. ASSUME NEW p \in Routes
      PROVE  /\ p \in Ends /\ p[1] \in Ports
             /\ \A l \in LanesOf :
                  /\ Pipe[p][l] = DataOf(Keep(Filled(p[1]), Real(p[1], p[2], l)))
                  /\ Pipe'[p][l] = DataOf(Keep(x.q[p[1]], Real(p[1], p[2], l)))
                  /\ Keep(Filled(p[1]), Real(p[1], p[2], l)) \in Seq(Elements)
  <2>1. p \in Ends /\ p[1] \in Ports
    BY DEF Routes, Ends
  <2>2. ASSUME NEW l \in LanesOf
        PROVE  Pipe[p][l] = DataOf(Keep(Filled(p[1]), Real(p[1], p[2], l)))
    BY <2>1, FilledParts, PipeParts DEF Held
  <2>3. ASSUME NEW l \in LanesOf
        PROVE  Pipe'[p][l] = DataOf(Keep(x.q[p[1]], Real(p[1], p[2], l)))
    <3>1. x.q[p[1]] \in Seq(Elements)
      BY <1>1, <2>1 DEF Underway
    <3>2. queues'[p[1]] \o events'[l] = x.q[p[1]]
      <4>1. events'[l] = <<>>
        BY DEF ProcessEvent
      <4> QED
        BY <1>1, <3>1, <4>1
    <3>3. Pipe'[p][l] = Held(p[1], p[2], l)'
      BY PipePartsNext
    <3> QED
      BY <3>2, <3>3 DEF Held
  <2>4. ASSUME NEW l \in LanesOf
        PROVE  Keep(Filled(p[1]), Real(p[1], p[2], l)) \in Seq(Elements)
    BY <2>1, FilledParts, KeepType
  <2> QED
    BY <2>1, <2>2, <2>3, <2>4
<1>3. ASSUME NEW p \in Routes, Same(x, p) PROVE Pipe'[p] = Pipe[p]
  <2>1. \A l \in LanesOf : Pipe'[p][l] = Pipe[p][l]
    BY <1>2, <1>3 DEF Same
  <2>2. Pipe[p] = [l \in LanesOf |-> Pipe[p][l]]
    BY PipeParts
  <2>3. Pipe'[p] = [l \in LanesOf |-> Pipe'[p][l]]
    BY PipePartsNext
  <2> QED
    BY <2>1, <2>2, <2>3
<1>4. ASSUME NEW p \in Routes, Took(x, p) PROVE \E l \in LanesOf : Pipes!Taken(p, l)
  <2> DEFINE F(m) == Keep(Filled(p[1]), Real(p[1], p[2], m))
             G(m) == Keep(x.q[p[1]], Real(p[1], p[2], m))
  <2>1. PICK l \in LanesOf : /\ F(l) # <<>> /\ G(l) = Tail(F(l))
                             /\ \A u \in Pipes!MoreUrgent(l) : F(u) = <<>>
                             /\ \A m \in LanesOf \ {l} : G(m) = F(m)
    BY <1>4 DEF Took
  <2>2. \A m \in LanesOf : Pipe[p][m] = DataOf(F(m)) /\ Pipe'[p][m] = DataOf(G(m)) /\ F(m) \in Seq(Elements)
    BY <1>2
  <2> HIDE DEF F, G
  <2>3. \A u \in Pipes!MoreUrgent(l) : u \in LanesOf
    BY DEF Pipes!MoreUrgent, LanesOf
  <2>4. Pipe[p][l] # <<>>
    BY <2>1, <2>2, DataParts
  <2>5. \A u \in Pipes!MoreUrgent(l) : Pipe[p][u] = <<>>
    BY <2>1, <2>2, <2>3, DataParts
  <2>6. Pipe'[p][l] = Tail(Pipe[p][l])
    BY <2>1, <2>2, DataParts
  <2>7. \A m \in LanesOf \ {l} : Pipe'[p][m] = Pipe[p][m]
    BY <2>1, <2>2
  <2>8. Pipe[p] = [m \in LanesOf |-> Pipe[p][m]]
    BY PipeParts
  <2>9. Pipe'[p] = [m \in LanesOf |-> Pipe'[p][m]]
    BY PipePartsNext
  <2>10. Pipe'[p] = [Pipe[p] EXCEPT ![l] = Tail(@)]
    BY <2>6, <2>7, <2>8, <2>9
  <2> QED
    BY <2>4, <2>5, <2>10 DEF Pipes!Taken, Pipes!Servable
<1>5. \A p \in Routes : Pipe'[p] = Pipe[p] \/ \E l \in Pipes!LaneNames : Pipes!Taken(p, l)
  <2> SUFFICES ASSUME NEW p \in Routes
               PROVE  Pipe'[p] = Pipe[p] \/ \E l \in LanesOf : Pipes!Taken(p, l)
    BY PipeParts
  <2>1. Same(x, p) \/ Took(x, p)
    BY <1>1, <1>2 DEF Underway
  <2> QED
    BY <1>3, <1>4, <2>1
<1>6. \A p, r \in Routes :
        p # r /\ p[2].num = r[2].num => Pipe'[p] = Pipe[p] \/ Pipe'[r] = Pipe[r]
  <2> SUFFICES ASSUME NEW p \in Routes, NEW r \in Routes, p # r, p[2].num = r[2].num
               PROVE  Pipe'[p] = Pipe[p] \/ Pipe'[r] = Pipe[r]
    OBVIOUS
  <2>1. Same(x, p) \/ Same(x, r)
    BY <1>1, <1>2 DEF Underway
  <2> QED
    BY <1>3, <2>1
<1> QED
  BY <1>5, <1>6 DEF Pipes!Deliver

\* The crossbar implements Lanes for every number of ports, homes and flits: no
\* message is lost, duplicated, misdirected or overtaken on its lane, urgency
\* is respected, and a destination port takes one message per cycle.
THEOREM LanesImplemented == Spec => ImplementsLanes
<1>1. Init => Typed
  <2>1. 0 \in Ports /\ <<>> \in Seq(Elements)
    BY CrossbarAssumption DEF Ports
  <2> QED
    BY <2>1 DEF Init, Typed
<1>2. Typed /\ [Next]_vars => Typed'
  BY TypedStep
<1>3. Init => Pipes!Init
  <2> SUFFICES ASSUME Init PROVE Pipe = [p \in Routes |-> [l \in LanesOf |-> <<>>]]
    BY PipeParts DEF Pipes!Init
  <2>1. ASSUME NEW p \in Routes, NEW l \in LanesOf PROVE Held(p[1], p[2], l) = <<>>
    <3>1. p[1] \in Ports
      BY DEF Routes
    <3>2. queues[p[1]] = <<>> /\ events[l] = <<>>
      BY <3>1 DEF Init
    <3>3. <<>> \o <<>> = <<>>
      OBVIOUS
    <3>4. Keep(<<>>, Real(p[1], p[2], l)) = <<>>
      BY KeepEmpty
    <3>5. DataOf(<<>>) = <<>>
      <4>1. <<>> \in Seq(Elements)
        OBVIOUS
      <4> QED
        BY <4>1, DataParts
    <3> QED
      BY <3>2, <3>3, <3>4, <3>5 DEF Held
  <2> QED
    BY <2>1 DEF Pipe
<1>4. Typed /\ [Next]_vars => [Pipes!Next]_Pipe
  <2> SUFFICES ASSUME Typed, [Next]_vars PROVE Pipes!Next \/ Pipe' = Pipe
    OBVIOUS
  <2>0. DOMAIN Pipe' = Routes
    BY PipePartsNext
  <2>1. CASE UNCHANGED vars
    BY <2>1 DEF vars, Pipe, Held
  <2>2. CASE ProcessEvent
    <3>1. Pipes!Deliver
      BY <2>2, CycleDelivers
    <3> QED
      BY <2>0, <3>1 DEF Pipes!Next
  <2>3. ASSUME NEW i \in Ports, NEW l \in LanesOf, NEW to \in Components, NEW data \in BOOLEAN,
               to.c = "l2" => i \in Homes /\ to.num # i, Add(i, l, to, data)
        PROVE  Pipes!Next
    <3>1. <<i, to>> \in Routes /\ Pipes!Send(<<i, to>>, l, data)
      BY <2>3, AddSends
    <3>2. l \in Pipes!LaneNames
      BY PipeParts
    <3> QED
      BY <2>0, <3>1, <3>2 DEF Pipes!Next
  <2>4. \A i \in Ports : L2(i) \in Components /\ L2(i).num = i
    BY DEF L2, Components
  <2>5. \A i \in Homes : Dir(i) \in Components /\ Dir(i).c # "l2"
    BY DEF Dir, Components
  <2>6. "rep" \in LanesOf /\ "crq" \in LanesOf /\ "req" \in LanesOf /\ FALSE \in BOOLEAN
    BY DEF LanesOf
  <2>7. ASSUME NEW i \in Ports, NEW d \in Homes, AddReq(i, d) PROVE Pipes!Next
    BY <2>3, <2>5, <2>6, <2>7 DEF AddReq
  <2>8. ASSUME NEW i \in Ports, NEW d \in Homes, NEW data \in BOOLEAN, AddRepDir(i, d, data) PROVE Pipes!Next
    BY <2>3, <2>5, <2>6, <2>8 DEF AddRepDir
  <2>9. ASSUME NEW i \in Ports, i \in Homes, NEW k \in Ports, NEW data \in BOOLEAN,
               AddCrq(i, k, data) \/ AddRepL2(i, k, data)
        PROVE  Pipes!Next
    BY <2>3, <2>4, <2>6, <2>9 DEF AddCrq, AddRepL2
  <2> QED
    BY <2>1, <2>2, <2>7, <2>8, <2>9 DEF Next
<1> QED
  BY <1>1, <1>2, <1>3, <1>4, PTL DEF Spec, ImplementsLanes, Pipes!Spec

=============================================================================
