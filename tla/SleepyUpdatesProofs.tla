------------------------- MODULE SleepyUpdatesProofs -------------------------
(***************************************************************************)
(* SleepyUpdates for any modules, objects and phases: the types, the heap and *)
(* its indexes, the module that runs at the root, all modules in it; that it  *)
(* implements UpdateSchedule, and what UpdateSchedule promises.               *)
(*                                                                          *)
(* A loop of the code is a function of the number of its rounds, so what it   *)
(* leaves is proved round by round (RoundsKeep).  The argument about the heap *)
(* is the textbook's: it is in order but for one place, which goes up until   *)
(* it is after its parent, then down until it is before its children.         *)
(***************************************************************************)
EXTENDS SleepyUpdates, SequenceTheorems, WellFoundedInduction, TLAPS

-----------------------------------------------------------------------------
(* Loops.                                                                     *)

LEMMA LeastNatural ==
  ASSUME NEW S \in SUBSET Nat, S # {}
  PROVE  \E n \in S : \A m \in S : n <= m
  <1> DEFINE R == {ss \in Nat \X Nat : ss[1] < ss[2]}
  <1>1. PICK n \in S : \A m \in S : ~ (<<m, n>> \in R)
    <2>1. IsWellFoundedOn(R, Nat)
      BY NatLessThanWellFounded DEF OpToRel
    <2> HIDE DEF R
    <2> QED BY <2>1, WFMin
  <1>2. \A m \in S : ~ (m < n)
    <2> TAKE m \in S
    <2>1. <<m, n>> \in Nat \X Nat
      OBVIOUS
    <2> QED BY <1>1, <2>1
  <1> QED BY <1>2

LEMMA AllNaturals ==
  ASSUME NEW S, 0 \in S, \A n \in Nat : n \in S => n + 1 \in S
  PROVE  \A n \in Nat : n \in S
  <1> SUFFICES ASSUME Nat \ S # {} PROVE FALSE
    OBVIOUS
  <1>1. PICK n \in Nat \ S : \A k \in Nat \ S : n <= k
    BY LeastNatural
  <1>2. n # 0 /\ n - 1 \in Nat /\ n - 1 \in S
    BY <1>1
  <1> QED BY <1>1, <1>2

\* The first n rounds.
Begins(g, n, round, start) == g = [k \in 0 .. n |-> IF k = 0 THEN start ELSE round[g[k - 1]]]

LEMMA BeginningsExist ==
  ASSUME NEW round, NEW start
  PROVE  \A n \in Nat : \E g : Begins(g, n, round, start)
  <1> DEFINE S == {n \in Nat : \E g : Begins(g, n, round, start)}
  <1>1. 0 \in S
    <2> DEFINE g == [k \in 0 .. 0 |-> start]
    <2>1. g = [k \in 0 .. 0 |-> IF k = 0 THEN start ELSE round[g[k - 1]]]
      OBVIOUS
    <2> QED BY <2>1 DEF Begins
  <1>2. ASSUME NEW n \in Nat, n \in S
        PROVE  n + 1 \in S
    <2>1. PICK g : Begins(g, n, round, start)
      BY <1>2
    <2> DEFINE h == [k \in 0 .. n + 1 |-> IF k = 0 THEN start ELSE round[g[k - 1]]]
    <2>2. \A k \in 0 .. n : h[k] = g[k]
      BY <2>1 DEF Begins
    <2>3. \A k \in 0 .. n + 1 : h[k] = IF k = 0 THEN start ELSE round[h[k - 1]]
      <3> SUFFICES ASSUME NEW k \in 0 .. n + 1, k # 0
                   PROVE  h[k] = round[h[k - 1]]
        OBVIOUS
      <3>1. k - 1 \in 0 .. n
        OBVIOUS
      <3>2. h[k] = round[g[k - 1]]
        OBVIOUS
      <3> QED BY <2>2, <3>1, <3>2
    <2>4. h = [k \in 0 .. n + 1 |-> IF k = 0 THEN start ELSE round[h[k - 1]]]
      BY <2>3
    <2> HIDE DEF h
    <2> QED BY <2>4 DEF Begins
  <1> HIDE DEF S
  <1>3. \A n \in Nat : n \in S
    BY <1>1, <1>2, AllNaturals
  <1> QED BY <1>3 DEF S

LEMMA BeginningsAgree ==
  ASSUME NEW round, NEW start, NEW g, NEW h, NEW n \in Nat, NEW m \in Nat,
         Begins(g, n, round, start), Begins(h, m, round, start)
  PROVE  \A k \in Nat : k <= n /\ k <= m => g[k] = h[k]
  <1> DEFINE S == {k \in Nat : k <= n /\ k <= m => g[k] = h[k]}
  <1>1. /\ \A k \in 0 .. n : g[k] = IF k = 0 THEN start ELSE round[g[k - 1]]
        /\ \A k \in 0 .. m : h[k] = IF k = 0 THEN start ELSE round[h[k - 1]]
    BY DEF Begins
  <1>2. 0 \in S
    BY <1>1
  <1>3. ASSUME NEW k \in Nat, k \in S
        PROVE  k + 1 \in S
    BY <1>1, <1>3
  <1> HIDE DEF S
  <1>4. \A k \in Nat : k \in S
    BY <1>2, <1>3, AllNaturals
  <1> QED BY <1>4 DEF S

LEMMA RoundsStep ==
  ASSUME NEW round, NEW start
  PROVE  /\ Rounds(round, start)[0] = start
         /\ \A n \in Nat : Rounds(round, start)[n + 1] = round[Rounds(round, start)[n]]
  <1> DEFINE G(n) == CHOOSE g : Begins(g, n, round, start)
             f == [n \in Nat |-> G(n)[n]]
             after == CHOOSE a : a = [n \in Nat |-> IF n = 0 THEN start ELSE round[a[n - 1]]]
  <1>1. \A n \in Nat : Begins(G(n), n, round, start)
    BY BeginningsExist, Zenon
  <1>2. \A n \in Nat : \A k \in 0 .. n : G(n)[k] = IF k = 0 THEN start ELSE round[G(n)[k - 1]]
    <2> HIDE DEF G
    <2> QED BY <1>1 DEF Begins
  <1>3. \A n \in Nat : \A k \in 0 .. n : G(n)[k] = G(k)[k]
    <2> HIDE DEF G
    <2> QED BY <1>1, BeginningsAgree
  <1>4. \A n \in Nat : f[n] = IF n = 0 THEN start ELSE round[f[n - 1]]
    <2> HIDE DEF G
    <2>1. SUFFICES ASSUME NEW n \in Nat
          PROVE  G(n)[n] = IF n = 0 THEN start ELSE round[f[n - 1]]
      OBVIOUS
    <2>2. CASE n = 0
      BY <1>2, <2>2
    <2>3. CASE n # 0
      <3>1. n - 1 \in Nat /\ n - 1 \in 0 .. n /\ n \in 0 .. n
        BY <2>3
      <3>2. f[n - 1] = G(n)[n - 1]
        BY <1>3, <3>1
      <3> QED BY <1>2, <2>3, <3>1, <3>2
    <2> QED BY <2>2, <2>3
  <1>5. f = [n \in Nat |-> IF n = 0 THEN start ELSE round[f[n - 1]]]
    <2> HIDE DEF G
    <2> QED BY <1>4
  <1>6. after = [n \in Nat |-> IF n = 0 THEN start ELSE round[after[n - 1]]]
    <2> HIDE DEF f
    <2> QED BY <1>5
  <1>7. Rounds(round, start) = after
    BY DEF Rounds
  <1> HIDE DEF after
  <1>8. after[0] = start /\ \A n \in Nat : after[n + 1] = round[after[n]]
    <2>1. \A n \in Nat : after[n] = IF n = 0 THEN start ELSE round[after[n - 1]]
      BY <1>6
    <2>2. \A n \in Nat : n + 1 \in Nat /\ n + 1 # 0 /\ (n + 1) - 1 = n
      OBVIOUS
    <2> QED BY <2>1, <2>2
  <1> QED BY <1>7, <1>8

\* What holds at the start, and after each round if before it, holds at the end.
LEMMA RoundsKeep ==
  ASSUME NEW round, NEW start, NEW F, NEW last \in Nat, <<0, start>> \in F,
         \A n \in 0 .. last - 1 : \A s : <<n, s>> \in F => <<n + 1, round[s]>> \in F
  PROVE  <<last, Rounds(round, start)[last]>> \in F
  <1> DEFINE S == {n \in Nat : n <= last => <<n, Rounds(round, start)[n]>> \in F}
  <1>1. 0 \in S
    BY RoundsStep
  <1>2. ASSUME NEW n \in Nat, n \in S
        PROVE  n + 1 \in S
    <2> SUFFICES ASSUME n + 1 <= last
                 PROVE  <<n + 1, Rounds(round, start)[n + 1]>> \in F
      OBVIOUS
    <2>1. n \in 0 .. last - 1 /\ <<n, Rounds(round, start)[n]>> \in F
      BY <1>2
    <2> QED BY <2>1, RoundsStep
  <1> HIDE DEF S
  <1>3. \A n \in Nat : n \in S
    BY <1>1, <1>2, AllNaturals
  <1> QED BY <1>3 DEF S

-----------------------------------------------------------------------------
(* Heaps.  Held are the modules in one; in order are the places of a parent     *)
(* and his child if his priority is as high.                                  *)

Times == [Module -> Nat]
Held(h) == {m \in Module : h.at[m] # 0}
Child(p, c) == c = 2 * p \/ c = 2 * p + 1
InOrder(t, h, i, j) == Priority(t, h.list[i]) <= Priority(t, h.list[j])

Indexed(h) ==
  /\ h \in Heaps
  /\ \A i \in 1 .. Len(h.list) : h.at[h.list[i]] = i
  /\ \A m \in Module : h.at[m] # 0 => h.at[m] \in 1 .. Len(h.list) /\ h.list[h.at[m]] = m

\* The subtrees of the places from low on are in order, but for k.
Ordered(h, t, low) ==
  \A p, c \in 1 .. Len(h.list) : Child(p, c) /\ p >= low => InOrder(t, h, p, c)
OrderedBut(h, t, low, k) ==
  \A p, c \in 1 .. Len(h.list) :
    /\ Child(p, c) /\ p >= low /\ p # k /\ c # k => InOrder(t, h, p, c)
    /\ Child(p, k) /\ Child(k, c) /\ p >= low => InOrder(t, h, p, c)
AfterParent(h, t, low, k) ==
  \A p \in 1 .. Len(h.list) : Child(p, k) /\ p >= low => InOrder(t, h, p, k)
BeforeChildren(h, t, k) ==
  \A c \in 1 .. Len(h.list) : Child(k, c) => InOrder(t, h, k, c)

LEMMA PriorityType ==
  ASSUME NEW t \in Times, NEW m \in Module
  PROVE  Priority(t, m) \in Nat /\ Priority(t, m) = 4 * t[m] + Phase[m]
  BY SleepyAssumption DEF Times, Priority

LEMMA Halves ==
  ASSUME NEW k \in Nat
  PROVE  k \div 2 \in Nat /\ Child(k \div 2, k) /\ (k >= 1 => k \div 2 < k)
  BY DEF Child

LEMMA ListTypes ==
  ASSUME NEW h, Indexed(h), NEW t \in Times
  PROVE  /\ h.list \in Seq(Module) /\ h.at \in [Module -> Nat]
         /\ Len(h.list) \in Nat
         /\ \A i \in 1 .. Len(h.list) : h.list[i] \in Module /\ Priority(t, h.list[i]) \in Nat
  BY PriorityType DEF Indexed, Heaps

LEMMA HeldAreListed ==
  ASSUME NEW h, Indexed(h)
  PROVE  ToSet(h.list) = Held(h)
  <1>1. h.list \in Seq(Module)
    BY DEF Indexed, Heaps
  <1>2. \A i \in 1 .. Len(h.list) : h.list[i] \in Module
    BY <1>1
  <1> QED BY <1>1, <1>2 DEF ToSet, Held, Indexed

LEMMA HeldIsSomewhere ==
  ASSUME NEW h, Indexed(h), NEW m \in Held(h)
  PROVE  h.list # <<>>
  <1>1. h.at[m] \in 1 .. Len(h.list)
    BY DEF Indexed, Held
  <1>2. h.list = <<>> => Len(h.list) = 0
    OBVIOUS
  <1> QED BY <1>1, <1>2

LEMMA SwapFacts ==
  ASSUME NEW h, Indexed(h), NEW i \in 1 .. Len(h.list), NEW j \in 1 .. Len(h.list), i # j
  PROVE  LET g == Swapped(h, i, j)
         IN  /\ Indexed(g) /\ Held(g) = Held(h) /\ Len(g.list) = Len(h.list)
             /\ g.list[i] = h.list[j] /\ g.list[j] = h.list[i]
             /\ \A k \in 1 .. Len(h.list) : k # i /\ k # j => g.list[k] = h.list[k]
  <1> DEFINE g == Swapped(h, i, j)
  <1>1. h.list \in Seq(Module) /\ h.at \in [Module -> Nat]
    BY DEF Indexed, Heaps
  <1>2. /\ h.list[i] \in Module /\ h.list[j] \in Module
        /\ h.at[h.list[i]] = i /\ h.at[h.list[j]] = j
    BY <1>1 DEF Indexed
  <1>3. /\ g.list = [h.list EXCEPT ![i] = h.list[j], ![j] = h.list[i]]
        /\ g.at = [h.at EXCEPT ![h.list[i]] = j, ![h.list[j]] = i]
        /\ g = [list |-> g.list, at |-> g.at]
    BY DEF Swapped
  <1> HIDE DEF g
  <1>4. /\ g.list \in Seq(Module) /\ Len(g.list) = Len(h.list)
        /\ g.list[i] = h.list[j] /\ g.list[j] = h.list[i]
        /\ \A k \in 1 .. Len(h.list) : k # i /\ k # j => g.list[k] = h.list[k]
    BY <1>1, <1>2, <1>3
  <1>5. /\ g.at \in [Module -> Nat]
        /\ g.at[h.list[i]] = j /\ g.at[h.list[j]] = i
        /\ \A m \in Module : m # h.list[i] /\ m # h.list[j] => g.at[m] = h.at[m]
    <2>1. \A f \in [Module -> Nat], a \in Module, b \in Module, x \in Nat, y \in Nat :
            LET e == [f EXCEPT ![a] = x, ![b] = y]
            IN  a # b => /\ e \in [Module -> Nat] /\ e[a] = x /\ e[b] = y
                         /\ \A m \in Module : m # a /\ m # b => e[m] = f[m]
      OBVIOUS
    <2>2. h.list[i] # h.list[j]
      BY <1>2
    <2>3. i \in Nat /\ j \in Nat
      OBVIOUS
    <2> QED BY <2>1, <2>2, <2>3, <1>1, <1>2, <1>3
  <1>6. g \in Heaps
    BY <1>3, <1>4, <1>5 DEF Heaps
  <1>7. \A k \in 1 .. Len(g.list) : g.at[g.list[k]] = k
    <2> TAKE k \in 1 .. Len(g.list)
    <2>1. CASE k = i \/ k = j
      BY <2>1, <1>4, <1>5
    <2>2. CASE k # i /\ k # j
      <3>1. h.list[k] \in Module /\ h.at[h.list[k]] = k /\ g.list[k] = h.list[k]
        BY <2>2, <1>1, <1>4 DEF Indexed
      <3> QED BY <3>1, <1>2, <1>5, <2>2
    <2> QED BY <2>1, <2>2
  <1>8. \A m \in Module : g.at[m] # 0 =>
          /\ g.at[m] \in 1 .. Len(g.list) /\ g.list[g.at[m]] = m /\ h.at[m] # 0
    <2> TAKE m \in Module
    <2>1. CASE m = h.list[i] \/ m = h.list[j]
      BY <2>1, <1>2, <1>4, <1>5
    <2>2. CASE m # h.list[i] /\ m # h.list[j]
      <3>1. g.at[m] = h.at[m]
        BY <2>2, <1>5
      <3>2. h.at[m] # 0 => h.at[m] \in 1 .. Len(h.list) /\ h.list[h.at[m]] = m
        BY DEF Indexed
      <3> QED BY <3>1, <3>2, <2>2, <1>4
    <2> QED BY <2>1, <2>2
  <1>9. \A m \in Module : h.at[m] # 0 => g.at[m] # 0
    BY <1>5
  <1>10. Indexed(g) /\ Held(g) = Held(h)
    BY <1>6, <1>7, <1>8, <1>9 DEF Indexed, Held
  <1> QED BY <1>4, <1>10 DEF g

\* Who goes up is before his children then, and they are after his new parent.
LEMMA Raise ==
  ASSUME NEW h, Indexed(h), NEW t \in Times,
         NEW k \in 1 .. Len(h.list), NEW p \in 1 .. Len(h.list), Child(p, k),
         ~ InOrder(t, h, p, k), OrderedBut(h, t, 1, k)
  PROVE  OrderedBut(Swapped(h, k, p), t, 1, p) /\ BeforeChildren(Swapped(h, k, p), t, p)
  <1> DEFINE g == Swapped(h, k, p)
             N == Len(h.list)
             A(i) == Priority(t, h.list[i])
             B(i) == Priority(t, g.list[i])
  <1>1. k # p
    BY DEF Child
  <1>2. /\ Len(g.list) = N /\ B(k) = A(p) /\ B(p) = A(k)
        /\ \A i \in 1 .. N : i # k /\ i # p => B(i) = A(i)
    BY <1>1, SwapFacts, Zenon
  <1>3. N \in Nat /\ \A i \in 1 .. N : A(i) \in Nat
    BY ListTypes
  <1>4. A(p) > A(k)
    <2>1. A(p) \in Nat /\ A(k) \in Nat /\ ~ (A(p) <= A(k))
      BY <1>3 DEF InOrder
    <2> QED BY <2>1
  <1>5. \A q, c \in 1 .. N : Child(q, c) /\ q # k /\ c # k => A(q) <= A(c)
    BY DEF OrderedBut, InOrder
  <1>6. \A q, c \in 1 .. N : Child(q, k) /\ Child(k, c) => A(q) <= A(c)
    BY DEF OrderedBut, InOrder
  <1> HIDE DEF g, N, A, B
  <1>7. \A q, c \in 1 .. N : Child(q, c) /\ q # p /\ c # p => B(q) <= B(c)
    <2> SUFFICES ASSUME NEW q \in 1 .. N, NEW c \in 1 .. N, Child(q, c), q # p, c # p
                 PROVE  B(q) <= B(c)
      OBVIOUS
    <2>1. k \in 1 .. N /\ p \in 1 .. N
      BY DEF N
    <2>2. c # k
      BY <1>3, <2>1 DEF Child
    <2>3. CASE q = k
      BY <2>1, <2>2, <2>3, <1>2, <1>6
    <2>4. CASE q # k
      BY <2>1, <2>2, <2>4, <1>2, <1>5
    <2> QED BY <2>3, <2>4
  <1>8. \A q, c \in 1 .. N : Child(q, p) /\ Child(p, c) => B(q) <= B(c)
    <2> SUFFICES ASSUME NEW q \in 1 .. N, NEW c \in 1 .. N, Child(q, p), Child(p, c)
                 PROVE  B(q) <= B(c)
      OBVIOUS
    <2>1. k \in 1 .. N /\ p \in 1 .. N
      BY DEF N
    <2>2. q # p /\ q # k /\ c # p
      BY <2>1 DEF Child
    <2>3. A(q) <= A(p) /\ B(q) = A(q)
      BY <2>1, <2>2, <1>1, <1>2, <1>5
    <2>4. CASE c = k
      BY <2>3, <2>4, <1>2
    <2>5. CASE c # k
      <3>1. A(p) <= A(c) /\ B(c) = A(c)
        BY <2>1, <2>2, <2>5, <1>1, <1>2, <1>5
      <3> QED BY <3>1, <2>1, <2>3, <1>3
    <2> QED BY <2>4, <2>5
  <1>9. \A c \in 1 .. N : Child(p, c) => B(p) <= B(c)
    <2> SUFFICES ASSUME NEW c \in 1 .. N, Child(p, c)
                 PROVE  B(p) <= B(c)
      OBVIOUS
    <2>1. k \in 1 .. N /\ p \in 1 .. N
      BY DEF N
    <2>2. c # p
      BY <2>1 DEF Child
    <2>3. CASE c = k
      BY <2>1, <2>3, <1>2, <1>3, <1>4
    <2>4. CASE c # k
      <3>1. A(p) <= A(c) /\ B(c) = A(c)
        BY <2>1, <2>2, <2>4, <1>1, <1>2, <1>5
      <3> QED BY <3>1, <2>1, <1>2, <1>3, <1>4
    <2> QED BY <2>3, <2>4
  <1>10. Len(g.list) = N
    BY <1>2
  <1> QED BY <1>7, <1>8, <1>9, <1>10 DEF OrderedBut, BeforeChildren, InOrder, B, g

\* Who goes down in the place of the first of his children is after him then.
LEMMA Sink ==
  ASSUME NEW h, Indexed(h), NEW t \in Times, NEW low \in Nat,
         NEW k \in 1 .. Len(h.list), NEW c \in 1 .. Len(h.list), Child(k, c), low <= k,
         ~ InOrder(t, h, k, c), OrderedBut(h, t, low, k),
         \A d \in 1 .. Len(h.list) : Child(k, d) => InOrder(t, h, c, d)
  PROVE  OrderedBut(Swapped(h, k, c), t, low, c) /\ AfterParent(Swapped(h, k, c), t, low, c)
  <1> DEFINE g == Swapped(h, k, c)
             N == Len(h.list)
             A(i) == Priority(t, h.list[i])
             B(i) == Priority(t, g.list[i])
  <1>1. k # c /\ k < c
    BY DEF Child
  <1>2. /\ Len(g.list) = N /\ B(k) = A(c) /\ B(c) = A(k)
        /\ \A i \in 1 .. N : i # k /\ i # c => B(i) = A(i)
    BY <1>1, SwapFacts, Zenon
  <1>3. N \in Nat /\ \A i \in 1 .. N : A(i) \in Nat
    BY ListTypes
  <1>4. A(k) > A(c)
    <2>1. A(k) \in Nat /\ A(c) \in Nat /\ ~ (A(k) <= A(c))
      BY <1>3 DEF InOrder
    <2> QED BY <2>1
  <1>5. \A q, d \in 1 .. N : Child(q, d) /\ q >= low /\ q # k /\ d # k => A(q) <= A(d)
    BY DEF OrderedBut, InOrder
  <1>6. \A q, d \in 1 .. N : Child(q, k) /\ Child(k, d) /\ q >= low => A(q) <= A(d)
    BY DEF OrderedBut, InOrder
  <1>7. \A d \in 1 .. N : Child(k, d) => A(c) <= A(d)
    BY DEF InOrder
  <1>8. k \in 1 .. N /\ c \in 1 .. N
    OBVIOUS
  <1> HIDE DEF g, N, A, B
  <1>9. \A q, d \in 1 .. N : Child(q, d) /\ q >= low /\ q # c /\ d # c => B(q) <= B(d)
    <2> SUFFICES ASSUME NEW q \in 1 .. N, NEW d \in 1 .. N, Child(q, d), q >= low, q # c, d # c
                 PROVE  B(q) <= B(d)
      OBVIOUS
    <2>1. CASE q = k
      <3>1. d # k
        BY <2>1, <1>8 DEF Child
      <3> QED BY <2>1, <3>1, <1>2, <1>7
    <2>2. CASE q # k /\ d = k
      BY <2>2, <1>2, <1>6, <1>8
    <2>3. CASE q # k /\ d # k
      BY <2>3, <1>2, <1>5
    <2> QED BY <2>1, <2>2, <2>3
  <1>10. \A q, d \in 1 .. N : Child(q, c) /\ Child(c, d) /\ q >= low => B(q) <= B(d)
    <2> SUFFICES ASSUME NEW q \in 1 .. N, NEW d \in 1 .. N, Child(q, c), Child(c, d)
                 PROVE  B(q) <= B(d)
      OBVIOUS
    <2>1. q = k /\ d # c /\ d # k
      BY <1>1, <1>8 DEF Child
    <2>2. c >= low
      BY <1>1, <1>8
    <2> QED BY <2>1, <2>2, <1>1, <1>2, <1>5, <1>8
  <1>11. \A q \in 1 .. N : Child(q, c) => B(q) <= B(c)
    <2> SUFFICES ASSUME NEW q \in 1 .. N, Child(q, c)
                 PROVE  B(q) <= B(c)
      OBVIOUS
    <2>1. q = k
      BY <1>8 DEF Child
    <2> QED BY <2>1, <1>2, <1>3, <1>4, <1>8
  <1>12. Len(g.list) = N
    BY <1>2
  <1> QED BY <1>9, <1>10, <1>11, <1>12 DEF OrderedBut, AfterParent, InOrder, B, g

-----------------------------------------------------------------------------
(* Up.                                                                        *)

Lower(t, h, p, k) == isLowerPriority(t, h.list[p], h.list[k])
CanRise(t, s) == s.at \div 2 >= 1 /\ Lower(t, s.heap, s.at \div 2, s.at)

\* Where the n-th round is, when i has gone up from h.
Rising(h, t, i, n, s) ==
  /\ s \in Places /\ Indexed(s.heap) /\ Held(s.heap) = Held(h)
  /\ Len(s.heap.list) = Len(h.list)
  /\ s.at \in 1 .. Len(h.list) /\ s.heap.list[s.at] = h.list[i]
  /\ s.at + n <= i \/ ~ CanRise(t, s)
  /\ OrderedBut(h, t, 1, i) => OrderedBut(s.heap, t, 1, s.at)
  /\ OrderedBut(h, t, 1, i) /\ BeforeChildren(h, t, i) => BeforeChildren(s.heap, t, s.at)
  /\ i # 1 /\ InOrder(t, h, 1, i) => s.at # 1 /\ s.heap.list[1] = h.list[1]

LEMMA LowerNotInOrder ==
  ASSUME NEW h, Indexed(h), NEW t \in Times, NEW p \in 1 .. Len(h.list), NEW k \in 1 .. Len(h.list)
  PROVE  Lower(t, h, p, k) <=> ~ InOrder(t, h, p, k)
  <1>1. Priority(t, h.list[p]) \in Nat /\ Priority(t, h.list[k]) \in Nat
    BY ListTypes
  <1> QED BY <1>1 DEF Lower, isLowerPriority, InOrder

LEMMA RiseStep ==
  ASSUME NEW h, NEW t \in Times, NEW i \in 1 .. Len(h.list), NEW n \in Nat, NEW s,
         Indexed(h), Rising(h, t, i, n, s), CanRise(t, s)
  PROVE  Rising(h, t, i, n + 1, [heap |-> Swapped(s.heap, s.at, s.at \div 2), at |-> s.at \div 2])
  <1> DEFINE k == s.at
             p == k \div 2
             g == s.heap
             f == Swapped(g, k, p)
             u == [heap |-> f, at |-> p]
             N == Len(h.list)
  <1>1. /\ s \in Places /\ Indexed(g) /\ Held(g) = Held(h) /\ Len(g.list) = N
        /\ k \in 1 .. N /\ g.list[k] = h.list[i]
        /\ k + n <= i
    BY DEF Rising
  <1>2. N \in Nat /\ k \in Nat /\ i \in Nat
    BY <1>1, ListTypes
  <1>3. p \in 1 .. N /\ Child(p, k) /\ p < k /\ p # k
    <2>1. p \in Nat /\ Child(p, k) /\ p < k
      <3>1. k >= 1
        BY <1>1, <1>2
      <3> HIDE DEF k
      <3> QED BY <3>1, <1>2, Halves
    <2>2. p >= 1
      BY DEF CanRise
    <2> QED BY <2>1, <2>2, <1>1, <1>2
  <1>4. Lower(t, g, p, k) /\ ~ InOrder(t, g, p, k)
    BY <1>1, <1>3, LowerNotInOrder DEF CanRise
  <1>5. /\ Indexed(f) /\ Held(f) = Held(h) /\ Len(f.list) = N
        /\ f.list[p] = h.list[i] /\ f.list[k] = g.list[p]
        /\ \A j \in 1 .. N : j # k /\ j # p => f.list[j] = g.list[j]
    <2>1. k \in 1 .. Len(g.list) /\ p \in 1 .. Len(g.list) /\ k # p
      BY <1>1, <1>3
    <2>2. /\ Indexed(f) /\ Held(f) = Held(g) /\ Len(f.list) = Len(g.list)
          /\ f.list[k] = g.list[p] /\ f.list[p] = g.list[k]
          /\ \A j \in 1 .. Len(g.list) : j # k /\ j # p => f.list[j] = g.list[j]
      BY <1>1, <2>1, SwapFacts, Zenon
    <2> HIDE DEF f, p, k, g, N
    <2> QED BY <1>1, <2>2
  <1>6. u \in Places
    <2>1. f \in Heaps
      <3> HIDE DEF f
      <3> QED BY <1>5 DEF Indexed
    <2>2. p \in Nat
      <3> HIDE DEF p
      <3> QED BY <1>2, <1>3
    <2> HIDE DEF f, p
    <2> QED BY <2>1, <2>2 DEF Places
  <1>7. p + (n + 1) <= i
    BY <1>1, <1>2, <1>3
  <1>8. OrderedBut(h, t, 1, i) => OrderedBut(f, t, 1, p) /\ BeforeChildren(f, t, p)
    <2> SUFFICES ASSUME OrderedBut(h, t, 1, i)
                 PROVE  OrderedBut(f, t, 1, p) /\ BeforeChildren(f, t, p)
      OBVIOUS
    <2>1. OrderedBut(g, t, 1, k)
      BY DEF Rising
    <2> QED BY <2>1, <1>1, <1>3, <1>4, Raise
  <1>9. i # 1 /\ InOrder(t, h, 1, i) => p # 1 /\ f.list[1] = h.list[1]
    <2> SUFFICES ASSUME i # 1, InOrder(t, h, 1, i)
                 PROVE  p # 1 /\ f.list[1] = h.list[1]
      OBVIOUS
    <2>1. k # 1 /\ g.list[1] = h.list[1]
      BY DEF Rising
    <2>2. p # 1
      BY <2>1, <1>1, <1>4 DEF InOrder
    <2>3. 1 \in 1 .. N
      BY <1>1, <1>2
    <2> QED BY <2>1, <2>2, <2>3, <1>5
  <1> HIDE DEF f, p, k, g, N
  <1>10. u.heap = f /\ u.at = p
    OBVIOUS
  <1> HIDE DEF u
  <1>11. Rising(h, t, i, n + 1, u)
    BY <1>3, <1>5, <1>6, <1>7, <1>8, <1>9, <1>10 DEF Rising, N
  <1> QED BY <1>11 DEF u, f, p, k, g

LEMMA RebalanceParent ==
  ASSUME NEW h, Indexed(h), NEW t \in Times, NEW i \in 1 .. Len(h.list)
  PROVE  LET u == rebalanceParent(h, t, i)
         IN  \E n \in Nat : Rising(h, t, i, n, u) /\ ~ CanRise(t, u)
  <1> DEFINE start == [heap |-> h, at |-> i]
             round == [s \in Places |->
               IF s.at \div 2 >= 1 /\ isLowerPriority(t, s.heap.list[s.at \div 2], s.heap.list[s.at])
                 THEN [heap |-> Swapped(s.heap, s.at, s.at \div 2), at |-> s.at \div 2] ELSE s]
             F == {q \in Nat \X Places : Rising(h, t, i, q[1], q[2])}
             u == Rounds(round, start)[i]
  <1>1. Len(h.list) \in Nat /\ i \in Nat /\ h \in Heaps
    BY ListTypes DEF Indexed
  <1>2. start \in Places
    BY <1>1 DEF Places
  <1>3. start.heap = h /\ start.at = i
    OBVIOUS
  <1>4. Rising(h, t, i, 0, start)
    <2> HIDE DEF start
    <2> QED BY <1>1, <1>2, <1>3 DEF Rising
  <1>5. ASSUME NEW n \in Nat, NEW s, <<n, s>> \in F
        PROVE  <<n + 1, round[s]>> \in F
    <2>1. s \in Places /\ Rising(h, t, i, n, s)
      BY <1>5
    <2>2. CASE CanRise(t, s)
      <3>1. round[s] = [heap |-> Swapped(s.heap, s.at, s.at \div 2), at |-> s.at \div 2]
        BY <2>1, <2>2 DEF CanRise, Lower
      <3>2. Rising(h, t, i, n + 1, round[s])
        BY <3>1, <2>1, <2>2, RiseStep
      <3> HIDE DEF round
      <3> QED BY <3>2 DEF Rising
    <2>3. CASE ~ CanRise(t, s)
      <3>1. round[s] = s
        BY <2>1, <2>3 DEF CanRise, Lower
      <3>2. Rising(h, t, i, n + 1, s)
        BY <2>1, <2>3 DEF Rising
      <3> HIDE DEF round
      <3> QED BY <3>1, <3>2 DEF Rising
    <2> QED BY <2>2, <2>3
  <1>6. <<i, u>> \in F
    <2>1. <<0, start>> \in F
      BY <1>2, <1>4
    <2> HIDE DEF F, start, round
    <2>2. \A n \in 0 .. i - 1 : \A s : <<n, s>> \in F => <<n + 1, round[s]>> \in F
      BY <1>1, <1>5
    <2> QED BY <1>1, <2>1, <2>2, RoundsKeep
  <1>7. Rising(h, t, i, i, u)
    <2> HIDE DEF u
    <2> QED BY <1>6
  <1>8. rebalanceParent(h, t, i) = u
    BY DEF rebalanceParent
  <1> HIDE DEF u
  <1>9. ~ CanRise(t, u)
    BY <1>1, <1>7 DEF Rising
  <1> QED BY <1>1, <1>7, <1>8, <1>9

-----------------------------------------------------------------------------
(* Down.                                                                      *)

CanSink(t, s) ==
  2 * s.at <= Len(s.heap.list) /\ Lower(t, s.heap, s.at, FirstChild(s.heap, t, s.at))

\* Where the n-th round is, when i has gone down from h.
Sinking(h, t, low, i, n, s) ==
  /\ s \in Places /\ Indexed(s.heap) /\ Held(s.heap) = Held(h)
  /\ Len(s.heap.list) = Len(h.list)
  /\ s.at \in 1 .. Len(h.list) /\ s.at >= i
  /\ s.at >= i + n \/ ~ CanSink(t, s)
  /\ low <= i /\ OrderedBut(h, t, low, i) /\ AfterParent(h, t, low, i) =>
       OrderedBut(s.heap, t, low, s.at) /\ AfterParent(s.heap, t, low, s.at)
  /\ i # 1 => s.heap.list[1] = h.list[1]

LEMMA FirstChildIsFirst ==
  ASSUME NEW h, Indexed(h), NEW t \in Times, NEW k \in 1 .. Len(h.list), 2 * k <= Len(h.list)
  PROVE  LET c == FirstChild(h, t, k)
         IN  /\ c \in 1 .. Len(h.list) /\ Child(k, c) /\ k < c
             /\ \A d \in 1 .. Len(h.list) : Child(k, d) => InOrder(t, h, c, d)
  <1> DEFINE N == Len(h.list)
             A(j) == Priority(t, h.list[j])
  <1>1. N \in Nat /\ \A j \in 1 .. N : A(j) \in Nat
    BY ListTypes
  <1>2. 2 * k \in 1 .. N /\ (2 * k < N => 2 * k + 1 \in 1 .. N)
    BY <1>1
  <1>3. FirstChild(h, t, k) = IF 2 * k < N /\ A(2 * k) > A(2 * k + 1) THEN 2 * k + 1 ELSE 2 * k
    BY DEF FirstChild, isLowerPriority
  <1>4. k \in 1 .. N /\ 2 * k <= N
    OBVIOUS
  <1> HIDE DEF N, A
  <1>5. CASE 2 * k < N /\ A(2 * k) > A(2 * k + 1)
    <2>1. FirstChild(h, t, k) = 2 * k + 1 /\ 2 * k + 1 \in 1 .. N
      BY <1>2, <1>3, <1>5
    <2>2. A(2 * k + 1) <= A(2 * k) /\ A(2 * k + 1) <= A(2 * k + 1)
      BY <1>1, <1>2, <1>5
    <2> QED BY <2>1, <2>2, <1>4 DEF Child, InOrder, A, N
  <1>6. CASE ~ (2 * k < N /\ A(2 * k) > A(2 * k + 1))
    <2>1. FirstChild(h, t, k) = 2 * k /\ 2 * k \in 1 .. N
      BY <1>2, <1>3, <1>6
    <2>2. \A d \in 1 .. N : Child(k, d) => A(2 * k) <= A(d)
      <3> SUFFICES ASSUME NEW d \in 1 .. N, Child(k, d)
                   PROVE  A(2 * k) <= A(d)
        OBVIOUS
      <3>1. CASE d = 2 * k
        BY <3>1, <1>1, <2>1
      <3>2. CASE d = 2 * k + 1
        <4>1. 2 * k < N /\ ~ (A(2 * k) > A(2 * k + 1))
          BY <3>2, <1>1, <1>4, <1>6
        <4> QED BY <4>1, <3>2, <1>1, <1>2
      <3> QED BY <3>1, <3>2 DEF Child
    <2> QED BY <2>1, <2>2, <1>4 DEF Child, InOrder, A, N
  <1> QED BY <1>5, <1>6

LEMMA SinkStep ==
  ASSUME NEW h, NEW t \in Times, NEW low \in Nat, NEW i \in 1 .. Len(h.list), NEW n \in Nat, NEW s,
         Indexed(h), Sinking(h, t, low, i, n, s), CanSink(t, s)
  PROVE  LET c == FirstChild(s.heap, t, s.at)
         IN  Sinking(h, t, low, i, n + 1, [heap |-> Swapped(s.heap, s.at, c), at |-> c])
  <1> DEFINE k == s.at
             g == s.heap
             c == FirstChild(g, t, k)
             f == Swapped(g, k, c)
             u == [heap |-> f, at |-> c]
             N == Len(h.list)
  <1>1. /\ s \in Places /\ Indexed(g) /\ Held(g) = Held(h) /\ Len(g.list) = N
        /\ k \in 1 .. N /\ k >= i /\ k >= i + n
    BY DEF Sinking
  <1>2. N \in Nat /\ k \in Nat /\ i \in Nat
    BY <1>1, ListTypes
  <1>3. /\ c \in 1 .. N /\ Child(k, c) /\ k < c /\ k # c
        /\ \A d \in 1 .. N : Child(k, d) => InOrder(t, g, c, d)
    <2>1. 2 * k <= Len(g.list) /\ k \in 1 .. Len(g.list)
      BY <1>1 DEF CanSink
    <2>2. /\ c \in 1 .. Len(g.list) /\ Child(k, c) /\ k < c
          /\ \A d \in 1 .. Len(g.list) : Child(k, d) => InOrder(t, g, c, d)
      BY <1>1, <2>1, FirstChildIsFirst, Zenon
    <2> HIDE DEF c, k, g, N
    <2> QED BY <2>2, <1>1, <1>2
  <1>4. ~ InOrder(t, g, k, c)
    BY <1>1, <1>3, LowerNotInOrder DEF CanSink
  <1>5. /\ Indexed(f) /\ Held(f) = Held(h) /\ Len(f.list) = N
        /\ \A j \in 1 .. N : j # k /\ j # c => f.list[j] = g.list[j]
    <2>1. k \in 1 .. Len(g.list) /\ c \in 1 .. Len(g.list) /\ k # c
      BY <1>1, <1>3
    <2> HIDE DEF c, k, g, N
    <2>2. /\ Indexed(f) /\ Held(f) = Held(g) /\ Len(f.list) = Len(g.list)
          /\ \A j \in 1 .. Len(g.list) : j # k /\ j # c => f.list[j] = g.list[j]
      BY <1>1, <2>1, SwapFacts, Zenon
    <2> HIDE DEF f
    <2> QED BY <1>1, <2>2
  <1>6. u \in Places
    <2>1. f \in Heaps
      <3> HIDE DEF f
      <3> QED BY <1>5 DEF Indexed
    <2>2. c \in Nat
      <3> HIDE DEF c
      <3> QED BY <1>2, <1>3
    <2> HIDE DEF f, c
    <2> QED BY <2>1, <2>2 DEF Places
  <1>7. c >= i /\ c >= i + (n + 1)
    <2> HIDE DEF c, k, N
    <2> QED BY <1>1, <1>2, <1>3
  <1>8. low <= i /\ OrderedBut(h, t, low, i) /\ AfterParent(h, t, low, i) =>
          OrderedBut(f, t, low, c) /\ AfterParent(f, t, low, c)
    <2> SUFFICES ASSUME low <= i, OrderedBut(h, t, low, i), AfterParent(h, t, low, i)
                 PROVE  OrderedBut(f, t, low, c) /\ AfterParent(f, t, low, c)
      OBVIOUS
    <2>1. OrderedBut(g, t, low, k)
      BY DEF Sinking
    <2>2. low <= k
      <3> HIDE DEF k
      <3> QED BY <1>1, <1>2
    <2> HIDE DEF f, c, k, g, N
    <2>3. /\ k \in 1 .. Len(g.list) /\ c \in 1 .. Len(g.list)
          /\ \A d \in 1 .. Len(g.list) : Child(k, d) => InOrder(t, g, c, d)
      BY <1>1, <1>3
    <2>4. OrderedBut(Swapped(g, k, c), t, low, c) /\ AfterParent(Swapped(g, k, c), t, low, c)
      BY <1>1, <1>3, <1>4, <2>1, <2>2, <2>3, Sink
    <2> QED BY <2>4 DEF f
  <1>9. i # 1 => f.list[1] = h.list[1]
    <2> SUFFICES ASSUME i # 1 PROVE f.list[1] = h.list[1]
      OBVIOUS
    <2>1. g.list[1] = h.list[1]
      BY DEF Sinking
    <2> HIDE DEF f, c, k, g
    <2>2. 1 \in 1 .. N /\ 1 # k /\ 1 # c
      BY <1>1, <1>2, <1>3
    <2> QED BY <2>1, <2>2, <1>5
  <1> HIDE DEF f, c, k, g, N
  <1>10. u.heap = f /\ u.at = c
    OBVIOUS
  <1> HIDE DEF u
  <1>11. Sinking(h, t, low, i, n + 1, u)
    BY <1>3, <1>5, <1>6, <1>7, <1>8, <1>9, <1>10 DEF Sinking, N
  <1> QED BY <1>11 DEF u, f, c, k, g

LEMMA SunkIsOrdered ==
  ASSUME NEW h, Indexed(h), NEW t \in Times, NEW low \in Nat, NEW k \in 1 .. Len(h.list),
         ~ CanSink(t, [heap |-> h, at |-> k]),
         OrderedBut(h, t, low, k), AfterParent(h, t, low, k)
  PROVE  Ordered(h, t, low)
  <1>1. Len(h.list) \in Nat /\ \A j \in 1 .. Len(h.list) : Priority(t, h.list[j]) \in Nat
    BY ListTypes
  <1>2. \A d \in 1 .. Len(h.list) : Child(k, d) => InOrder(t, h, k, d)
    <2> SUFFICES ASSUME NEW d \in 1 .. Len(h.list), Child(k, d)
                 PROVE  InOrder(t, h, k, d)
      OBVIOUS
    <2> DEFINE c == FirstChild(h, t, k)
    <2>1. 2 * k <= Len(h.list)
      BY <1>1 DEF Child
    <2>2. c \in 1 .. Len(h.list) /\ InOrder(t, h, c, d)
      BY <2>1, FirstChildIsFirst, Zenon
    <2>3. InOrder(t, h, k, c)
      BY <2>1, <2>2, LowerNotInOrder DEF CanSink
    <2> QED BY <2>2, <2>3, <1>1 DEF InOrder
  <1>3. ASSUME NEW p \in 1 .. Len(h.list), NEW c \in 1 .. Len(h.list), Child(p, c), p >= low
        PROVE  InOrder(t, h, p, c)
    <2>1. CASE p = k
      BY <1>2, <1>3, <2>1
    <2>2. CASE c = k
      BY <1>3, <2>2 DEF AfterParent
    <2>3. CASE p # k /\ c # k
      BY <1>3, <2>3 DEF OrderedBut
    <2> QED BY <2>1, <2>2, <2>3
  <1> QED BY <1>3 DEF Ordered

LEMMA RebalanceChild ==
  ASSUME NEW h, Indexed(h), NEW t \in Times, NEW low \in Nat, NEW i \in 1 .. Len(h.list)
  PROVE  LET g == rebalanceChild(h, t, i)
         IN  /\ Indexed(g) /\ Held(g) = Held(h) /\ Len(g.list) = Len(h.list)
             /\ low <= i /\ OrderedBut(h, t, low, i) /\ AfterParent(h, t, low, i) => Ordered(g, t, low)
             /\ i # 1 => g.list[1] = h.list[1]
  <1> DEFINE start == [heap |-> h, at |-> i]
             round == [s \in Places |->
               IF /\ 2 * s.at <= Len(s.heap.list)
                  /\ isLowerPriority(t, s.heap.list[s.at], s.heap.list[FirstChild(s.heap, t, s.at)])
                 THEN [heap |-> Swapped(s.heap, s.at, FirstChild(s.heap, t, s.at)),
                       at |-> FirstChild(s.heap, t, s.at)] ELSE s]
             F == {q \in Nat \X Places : Sinking(h, t, low, i, q[1], q[2])}
             N == Len(h.list)
             u == Rounds(round, start)[N]
  <1>1. N \in Nat /\ i \in Nat /\ h \in Heaps
    BY ListTypes DEF Indexed
  <1>2. start \in Places
    BY <1>1 DEF Places
  <1>3. start.heap = h /\ start.at = i
    OBVIOUS
  <1>4. Sinking(h, t, low, i, 0, start)
    <2> HIDE DEF start
    <2> QED BY <1>1, <1>2, <1>3 DEF Sinking
  <1>5. ASSUME NEW n \in Nat, NEW s, <<n, s>> \in F
        PROVE  <<n + 1, round[s]>> \in F
    <2>1. s \in Places /\ Sinking(h, t, low, i, n, s)
      BY <1>5
    <2>2. CASE CanSink(t, s)
      <3> DEFINE c == FirstChild(s.heap, t, s.at)
      <3>1. round[s] = [heap |-> Swapped(s.heap, s.at, c), at |-> c]
        BY <2>1, <2>2 DEF CanSink, Lower
      <3>2. Sinking(h, t, low, i, n + 1, round[s])
        BY <3>1, <2>1, <2>2, SinkStep
      <3>3. n + 1 \in Nat
        OBVIOUS
      <3> HIDE DEF round, N
      <3>4. round[s] \in Places
        BY <3>2 DEF Sinking
      <3> QED BY <3>2, <3>3, <3>4
    <2>3. CASE ~ CanSink(t, s)
      <3>1. round[s] = s
        BY <2>1, <2>3 DEF CanSink, Lower
      <3>2. Sinking(h, t, low, i, n + 1, s)
        BY <2>1, <2>3 DEF Sinking
      <3> HIDE DEF round
      <3> QED BY <3>1, <3>2 DEF Sinking
    <2> QED BY <2>2, <2>3
  <1>6. <<N, u>> \in F
    <2>1. <<0, start>> \in F
      BY <1>2, <1>4
    <2> HIDE DEF F, start, round
    <2>2. \A n \in 0 .. N - 1 : \A s : <<n, s>> \in F => <<n + 1, round[s]>> \in F
      BY <1>1, <1>5
    <2> QED BY <1>1, <2>1, <2>2, RoundsKeep
  <1>7. Sinking(h, t, low, i, N, u)
    <2> HIDE DEF u
    <2> QED BY <1>6
  <1>8. rebalanceChild(h, t, i) = u.heap
    BY DEF rebalanceChild
  <1> HIDE DEF u
  <1>9. ~ CanSink(t, u)
    BY <1>1, <1>7 DEF Sinking
  <1>10. /\ Indexed(u.heap) /\ Held(u.heap) = Held(h) /\ Len(u.heap.list) = N
         /\ u.at \in 1 .. Len(u.heap.list)
         /\ u.heap.list[1] = h.list[1] \/ i = 1
    BY <1>7 DEF Sinking
  <1>11. ASSUME low <= i, OrderedBut(h, t, low, i), AfterParent(h, t, low, i)
         PROVE  Ordered(u.heap, t, low)
    <2>1. OrderedBut(u.heap, t, low, u.at) /\ AfterParent(u.heap, t, low, u.at)
      BY <1>7, <1>11 DEF Sinking
    <2>2. ~ CanSink(t, [heap |-> u.heap, at |-> u.at])
      BY <1>9 DEF CanSink
    <2> QED BY <1>10, <2>1, <2>2, SunkIsOrdered
  <1> QED BY <1>8, <1>10, <1>11

-----------------------------------------------------------------------------
(* The operations.                                                            *)

LEMMA RisenIsAfterParent ==
  ASSUME NEW h, Indexed(h), NEW t \in Times, NEW k \in 1 .. Len(h.list),
         ~ CanRise(t, [heap |-> h, at |-> k])
  PROVE  AfterParent(h, t, 1, k)
  <1> SUFFICES ASSUME NEW p \in 1 .. Len(h.list), Child(p, k)
               PROVE  InOrder(t, h, p, k)
    BY DEF AfterParent
  <1>1. Len(h.list) \in Nat
    BY ListTypes
  <1>2. p = k \div 2 /\ k \div 2 >= 1
    BY <1>1 DEF Child
  <1>3. ~ Lower(t, h, p, k)
    BY <1>2 DEF CanRise
  <1> QED BY <1>3, LowerNotInOrder

LEMMA Rebalance ==
  ASSUME NEW h, Indexed(h), NEW t \in Times, NEW i \in 1 .. Len(h.list)
  PROVE  LET g == rebalance(h, t, i)
         IN  /\ Indexed(g) /\ Held(g) = Held(h) /\ Len(g.list) = Len(h.list)
             /\ OrderedBut(h, t, 1, i) => Ordered(g, t, 1)
             /\ i # 1 /\ InOrder(t, h, 1, i) => g.list[1] = h.list[1]
  <1> DEFINE u == rebalanceParent(h, t, i)
             g == rebalanceChild(u.heap, t, u.at)
  <1>1. PICK n \in Nat : Rising(h, t, i, n, u) /\ ~ CanRise(t, u)
    BY RebalanceParent, Zenon
  <1> HIDE DEF u
  <1>2. /\ Indexed(u.heap) /\ Held(u.heap) = Held(h) /\ Len(u.heap.list) = Len(h.list)
        /\ u.at \in 1 .. Len(u.heap.list)
    BY <1>1 DEF Rising
  <1>3. AfterParent(u.heap, t, 1, u.at)
    <2>1. ~ CanRise(t, [heap |-> u.heap, at |-> u.at])
      BY <1>1 DEF CanRise
    <2> QED BY <2>1, <1>2, RisenIsAfterParent
  <1>4. /\ Indexed(g) /\ Held(g) = Held(u.heap) /\ Len(g.list) = Len(u.heap.list)
        /\ 1 <= u.at /\ OrderedBut(u.heap, t, 1, u.at) /\ AfterParent(u.heap, t, 1, u.at) => Ordered(g, t, 1)
        /\ u.at # 1 => g.list[1] = u.heap.list[1]
    BY <1>2, RebalanceChild, 1 \in Nat, Zenon
  <1> HIDE DEF g
  <1>5. OrderedBut(h, t, 1, i) => Ordered(g, t, 1)
    BY <1>1, <1>2, <1>3, <1>4 DEF Rising
  <1>6. i # 1 /\ InOrder(t, h, 1, i) => g.list[1] = h.list[1]
    BY <1>1, <1>4 DEF Rising
  <1> QED BY <1>2, <1>4, <1>5, <1>6 DEF rebalance, u, g

LEMMA Push ==
  ASSUME NEW h, Indexed(h), NEW t \in Times, NEW m \in Module \ Held(h)
  PROVE  LET g == push(h, t, m)
         IN  /\ Indexed(g) /\ Held(g) = Held(h) \cup {m} /\ Len(g.list) = Len(h.list) + 1
             /\ Ordered(h, t, 1) => Ordered(g, t, 1)
             /\ h.list # <<>> /\ Priority(t, h.list[1]) <= Priority(t, m) => g.list[1] = h.list[1]
  <1> DEFINE n == Len(h.list) + 1
             f == [list |-> Append(h.list, m), at |-> [h.at EXCEPT ![m] = n]]
             u == rebalanceParent(f, t, n)
  <1>1. /\ h.list \in Seq(Module) /\ h.at \in [Module -> Nat] /\ h.at[m] = 0
        /\ Len(h.list) \in Nat /\ n \in Nat
    BY ListTypes DEF Held
  <1>2. /\ f.list \in Seq(Module) /\ Len(f.list) = n /\ f.list[n] = m
        /\ \A j \in 1 .. Len(h.list) : f.list[j] = h.list[j]
    BY <1>1
  <1>3. /\ f.at \in [Module -> Nat] /\ f.at[m] = n
        /\ \A k \in Module : k # m => f.at[k] = h.at[k]
    BY <1>1
  <1>4. f \in Heaps
    BY <1>2, <1>3 DEF Heaps
  <1> HIDE DEF f
  <1>5. \A j \in 1 .. Len(f.list) : f.at[f.list[j]] = j
    <2> TAKE j \in 1 .. Len(f.list)
    <2>1. CASE j = n
      BY <2>1, <1>2, <1>3
    <2>2. CASE j # n
      <3>1. j \in 1 .. Len(h.list)
        BY <2>2, <1>1, <1>2
      <3>2. h.list[j] \in Module /\ h.at[h.list[j]] = j /\ j # 0
        BY <3>1, <1>1 DEF Indexed
      <3> QED BY <3>1, <3>2, <1>1, <1>2, <1>3
    <2> QED BY <2>1, <2>2
  <1>6. \A k \in Module : f.at[k] # 0 => f.at[k] \in 1 .. Len(f.list) /\ f.list[f.at[k]] = k
    <2> TAKE k \in Module
    <2>1. CASE k = m
      BY <2>1, <1>1, <1>2, <1>3
    <2>2. CASE k # m
      <3>1. h.at[k] # 0 => h.at[k] \in 1 .. Len(h.list) /\ h.list[h.at[k]] = k
        BY DEF Indexed
      <3>2. \A j \in 1 .. Len(h.list) : j \in 1 .. Len(f.list)
        BY <1>1, <1>2
      <3> QED BY <2>2, <3>1, <3>2, <1>2, <1>3
    <2> QED BY <2>1, <2>2
  <1>7. Indexed(f) /\ Held(f) = Held(h) \cup {m}
    BY <1>1, <1>3, <1>4, <1>5, <1>6 DEF Indexed, Held
  <1>8. n \in 1 .. Len(f.list)
    BY <1>1, <1>2
  <1>9. Ordered(h, t, 1) => OrderedBut(f, t, 1, n) /\ BeforeChildren(f, t, n)
    <2> SUFFICES ASSUME Ordered(h, t, 1)
                 PROVE  OrderedBut(f, t, 1, n) /\ BeforeChildren(f, t, n)
      OBVIOUS
    <2>1. \A p, c \in 1 .. Len(f.list) : p # n /\ c # n => p \in 1 .. Len(h.list) /\ c \in 1 .. Len(h.list)
      BY <1>1, <1>2
    <2>2. \A c \in 1 .. Len(f.list) : ~ Child(n, c)
      BY <1>1, <1>2 DEF Child
    <2>3. \A p, c \in 1 .. Len(f.list) : Child(p, c) /\ p >= 1 /\ p # n /\ c # n => InOrder(t, f, p, c)
      BY <2>1, <1>2 DEF Ordered, InOrder
    <2> HIDE DEF n
    <2> QED BY <2>2, <2>3 DEF OrderedBut, BeforeChildren
  <1>10. PICK r \in Nat : Rising(f, t, n, r, u) /\ ~ CanRise(t, u)
    BY <1>7, <1>8, RebalanceParent, Zenon
  <1> HIDE DEF u
  <1>11. /\ Indexed(u.heap) /\ Held(u.heap) = Held(h) \cup {m} /\ Len(u.heap.list) = n
         /\ u.at \in 1 .. Len(u.heap.list)
    BY <1>2, <1>7, <1>10 DEF Rising
  <1>12. Ordered(h, t, 1) => Ordered(u.heap, t, 1)
    <2> SUFFICES ASSUME Ordered(h, t, 1) PROVE Ordered(u.heap, t, 1)
      OBVIOUS
    <2>1. OrderedBut(u.heap, t, 1, u.at) /\ BeforeChildren(u.heap, t, u.at)
      BY <1>9, <1>10 DEF Rising
    <2>2. AfterParent(u.heap, t, 1, u.at)
      <3>1. ~ CanRise(t, [heap |-> u.heap, at |-> u.at])
        BY <1>10 DEF CanRise
      <3> QED BY <3>1, <1>11, RisenIsAfterParent
    <2> QED BY <2>1, <2>2 DEF Ordered, OrderedBut, BeforeChildren, AfterParent
  <1>13. ASSUME h.list # <<>>, Priority(t, h.list[1]) <= Priority(t, m)
         PROVE  u.heap.list[1] = h.list[1]
    <2>1. 1 \in 1 .. Len(h.list) /\ n # 1
      BY <1>1, <1>13
    <2>2. InOrder(t, f, 1, n) /\ f.list[1] = h.list[1]
      BY <2>1, <1>2, <1>13 DEF InOrder
    <2> QED BY <2>1, <2>2, <1>10 DEF Rising
  <1>14. push(h, t, m) = u.heap
    BY DEF push, u, f
  <1> QED BY <1>11, <1>12, <1>13, <1>14

LEMMA FrontFacts ==
  ASSUME NEW s \in Seq(Module), Len(s) >= 1
  PROVE  /\ Front(s) \in Seq(Module) /\ Len(Front(s)) = Len(s) - 1
         /\ \A j \in 1 .. Len(s) - 1 : Front(s)[j] = s[j]
  <1>1. Len(s) \in Nat /\ 1 \in 1 .. Len(s) + 1 /\ Len(s) - 1 \in 0 .. Len(s)
    OBVIOUS
  <1>2. \A j \in 1 .. Len(s) - 1 : s[j] \in Module
    OBVIOUS
  <1>3. Front(s) = [j \in 1 .. Len(s) - 1 |-> s[j]]
    BY <1>1 DEF Front
  <1> HIDE DEF Front
  <1> QED BY <1>1, <1>2, <1>3

LEMMA Erase ==
  ASSUME NEW h, Indexed(h), NEW t \in Times, NEW i \in 1 .. Len(h.list)
  PROVE  LET g == erase(h, t, i)
         IN  /\ Indexed(g) /\ Held(g) = Held(h) \ {h.list[i]}
             /\ Ordered(h, t, 1) => Ordered(g, t, 1)
  <1> DEFINE N == Len(h.list)
             last == Last(h.list)
             gone == [h.at EXCEPT ![h.list[i]] = 0]
             e == [list |-> Front(h.list), at |-> gone]
             f == [list |-> Front([h.list EXCEPT ![i] = last]), at |-> [gone EXCEPT ![last] = i]]
  <1>1. /\ h.list \in Seq(Module) /\ h.at \in [Module -> Nat] /\ N \in Nat /\ N >= 1
        /\ i \in 1 .. N /\ N \in 1 .. N
        /\ \A j \in 1 .. N : h.list[j] \in Module /\ Priority(t, h.list[j]) \in Nat
    BY ListTypes
  <1>2. last = h.list[N] /\ last \in Module /\ h.list[i] \in Module
    BY <1>1 DEF Last
  <1>3. /\ \A j \in 1 .. N : h.at[h.list[j]] = j
        /\ \A m \in Module : h.at[m] # 0 => h.at[m] \in 1 .. N /\ h.list[h.at[m]] = m
    BY DEF Indexed
  <1>4. /\ gone \in [Module -> Nat] /\ gone[h.list[i]] = 0
        /\ \A m \in Module : m # h.list[i] => gone[m] = h.at[m]
    BY <1>1, <1>2
  <1> HIDE DEF gone, N, last
  <1>5. ASSUME i = N
        PROVE  /\ Indexed(e) /\ Held(e) = Held(h) \ {h.list[i]}
               /\ Ordered(h, t, 1) => Ordered(e, t, 1)
    <2>1. /\ e.list \in Seq(Module) /\ Len(e.list) = N - 1
          /\ \A j \in 1 .. N - 1 : e.list[j] = h.list[j]
      BY <1>1, FrontFacts DEF N
    <2>2. e.at = gone /\ e = [list |-> e.list, at |-> e.at]
      OBVIOUS
    <2> HIDE DEF e
    <2>3. e \in Heaps
      BY <2>1, <2>2, <1>4 DEF Heaps
    <2>4. \A j \in 1 .. Len(e.list) : e.at[e.list[j]] = j
      <3> TAKE j \in 1 .. Len(e.list)
      <3>1. j \in 1 .. N /\ j # i /\ e.list[j] = h.list[j]
        BY <1>1, <1>5, <2>1
      <3>2. h.list[j] \in Module /\ h.list[j] # h.list[i]
        BY <3>1, <1>1, <1>3
      <3> QED BY <3>1, <3>2, <2>2, <1>3, <1>4
    <2>5. \A m \in Module : e.at[m] # 0 =>
            /\ e.at[m] \in 1 .. Len(e.list) /\ e.list[e.at[m]] = m /\ m # h.list[i] /\ h.at[m] # 0
      <3> SUFFICES ASSUME NEW m \in Module, e.at[m] # 0
                   PROVE  /\ e.at[m] \in 1 .. Len(e.list) /\ e.list[e.at[m]] = m
                          /\ m # h.list[i] /\ h.at[m] # 0
        OBVIOUS
      <3>1. m # h.list[i] /\ e.at[m] = h.at[m]
        BY <2>2, <1>4
      <3>2. h.at[m] \in 1 .. N /\ h.list[h.at[m]] = m /\ h.at[m] # N
        BY <3>1, <1>3, <1>5
      <3>3. h.at[m] \in 1 .. N - 1
        BY <3>2, <1>1
      <3> QED BY <3>1, <3>2, <3>3, <2>1
    <2>6. Held(e) = Held(h) \ {h.list[i]}
      BY <2>2, <2>5, <1>4 DEF Held
    <2>7. \A j \in 1 .. N - 1 : j \in 1 .. N
      BY <1>1
    <2>8. Ordered(h, t, 1) => Ordered(e, t, 1)
      <3> SUFFICES ASSUME Ordered(h, t, 1), NEW p \in 1 .. N - 1, NEW c \in 1 .. N - 1, Child(p, c), p >= 1
                   PROVE  Priority(t, e.list[p]) <= Priority(t, e.list[c])
        BY <2>1 DEF Ordered, InOrder
      <3>1. Priority(t, h.list[p]) <= Priority(t, h.list[c])
        BY <2>7 DEF Ordered, InOrder, N
      <3> QED BY <3>1, <2>1
    <2> QED BY <2>3, <2>4, <2>5, <2>6, <2>8 DEF Indexed
  <1>6. ASSUME i # N
        PROVE  /\ Indexed(f) /\ Held(f) = Held(h) \ {h.list[i]} /\ i \in 1 .. Len(f.list)
               /\ Ordered(h, t, 1) => OrderedBut(f, t, 1, i)
    <2>1. /\ f.list \in Seq(Module) /\ Len(f.list) = N - 1 /\ i \in 1 .. N - 1
          /\ f.list[i] = last
          /\ \A j \in 1 .. N - 1 : j # i => f.list[j] = h.list[j]
      <3> DEFINE s == [h.list EXCEPT ![i] = last]
      <3>1. /\ s \in Seq(Module) /\ Len(s) = N /\ s[i] = last
            /\ \A j \in 1 .. N : j # i => s[j] = h.list[j]
        BY <1>1, <1>2 DEF N
      <3>2. f.list = Front(s)
        OBVIOUS
      <3> HIDE DEF s, f
      <3>3. i \in 1 .. N - 1 /\ \A j \in 1 .. N - 1 : j \in 1 .. N
        BY <1>1, <1>6
      <3>4. /\ Front(s) \in Seq(Module) /\ Len(Front(s)) = N - 1
            /\ \A j \in 1 .. N - 1 : Front(s)[j] = s[j]
        BY <3>1, <1>1, FrontFacts
      <3> QED BY <3>1, <3>2, <3>3, <3>4
    <2>2. f.at = [gone EXCEPT ![last] = i] /\ f = [list |-> f.list, at |-> f.at]
      OBVIOUS
    <2> HIDE DEF f
    <2>3. last # h.list[i]
      BY <1>1, <1>2, <1>3, <1>6
    <2>4. /\ f.at \in [Module -> Nat] /\ f.at[last] = i /\ f.at[h.list[i]] = 0
          /\ \A m \in Module : m # h.list[i] /\ m # last => f.at[m] = h.at[m]
      <3>1. last \in Module /\ h.list[i] \in Module
        BY <1>1, <1>2
      <3>2. f.at = [gone EXCEPT ![last] = i] /\ i \in Nat
        BY <2>2
      <3> HIDE DEF last, gone
      <3> QED BY <3>1, <3>2, <2>3, <1>4
    <2>5. f \in Heaps
      BY <2>1, <2>2, <2>4 DEF Heaps
    <2>6. \A j \in 1 .. Len(f.list) : f.at[f.list[j]] = j
      <3> TAKE j \in 1 .. Len(f.list)
      <3>1. CASE j = i
        BY <3>1, <2>1, <2>4
      <3>2. CASE j # i
        <4>1. j \in 1 .. N /\ j # N /\ f.list[j] = h.list[j]
          <5>1. j \in 1 .. N - 1
            BY <2>1
          <5>2. j \in 1 .. N /\ j # N
            BY <5>1, <1>1
          <5> QED BY <5>1, <5>2, <3>2, <2>1
        <4>2. h.list[j] \in Module /\ h.list[j] # h.list[i] /\ h.list[j] # last
          <5>1. h.list[j] \in Module /\ h.at[h.list[j]] = j
            BY <4>1, <1>1, <1>3
          <5>2. h.at[h.list[i]] = i /\ h.at[last] = N
            BY <1>1, <1>2, <1>3
          <5> QED BY <5>1, <5>2, <4>1, <3>2
        <4> QED BY <4>1, <4>2, <2>4, <1>3
      <3> QED BY <3>1, <3>2
    <2>7. \A m \in Module : f.at[m] # 0 =>
            /\ f.at[m] \in 1 .. Len(f.list) /\ f.list[f.at[m]] = m /\ m # h.list[i] /\ h.at[m] # 0
      <3> SUFFICES ASSUME NEW m \in Module, f.at[m] # 0
                   PROVE  /\ f.at[m] \in 1 .. Len(f.list) /\ f.list[f.at[m]] = m
                          /\ m # h.list[i] /\ h.at[m] # 0
        OBVIOUS
      <3>1. m # h.list[i]
        BY <2>4
      <3>2. CASE m = last
        BY <3>1, <3>2, <2>1, <2>4, <1>1, <1>2, <1>3
      <3>3. CASE m # last
        <4>1. f.at[m] = h.at[m]
          BY <3>1, <3>3, <2>4
        <4>2. h.at[m] \in 1 .. N /\ h.list[h.at[m]] = m
          BY <4>1, <1>3
        <4>3. h.at[m] # N /\ h.at[m] # i
          BY <4>2, <3>1, <3>3, <1>2
        <4>4. h.at[m] \in 1 .. N - 1
          BY <4>2, <4>3, <1>1
        <4> QED BY <4>1, <4>2, <4>3, <4>4, <3>1, <2>1
      <3> QED BY <3>2, <3>3
    <2>8. Held(f) = Held(h) \ {h.list[i]}
      <3>1. i # 0
        BY <1>1
      <3> QED BY <3>1, <2>4, <2>7 DEF Held
    <2>9. ASSUME Ordered(h, t, 1)
          PROVE  OrderedBut(f, t, 1, i)
      <3>1. \A j \in 1 .. N - 1 : j \in 1 .. N
        BY <1>1
      <3>2. \A p, c \in 1 .. N - 1 : Child(p, c) /\ p >= 1 /\ p # i /\ c # i => InOrder(t, f, p, c)
        BY <3>1, <2>1, <2>9 DEF Ordered, InOrder, N
      <3>3. ASSUME NEW p \in 1 .. N - 1, NEW c \in 1 .. N - 1, Child(p, i), Child(i, c)
            PROVE  InOrder(t, f, p, c)
        <4>1. p \in 1 .. N /\ c \in 1 .. N /\ p >= 1 /\ i >= 1 /\ p # i /\ c # i
          BY <3>3, <1>1 DEF Child
        <4>2. InOrder(t, h, p, i) /\ InOrder(t, h, i, c)
          BY <4>1, <3>3, <1>1, <2>9 DEF Ordered, N
        <4>3. Priority(t, h.list[p]) <= Priority(t, h.list[c])
          BY <4>1, <4>2, <1>1 DEF InOrder
        <4> QED BY <4>1, <4>3, <2>1 DEF InOrder
      <3> QED BY <2>1, <3>2, <3>3 DEF OrderedBut
    <2> QED BY <2>1, <2>5, <2>6, <2>7, <2>8, <2>9 DEF Indexed
  <1>7. erase(h, t, i) = IF i = N THEN e ELSE rebalance(f, t, i)
    BY DEF erase, gone, N, last
  <1> HIDE DEF e, f
  <1>8. CASE i = N
    BY <1>5, <1>7, <1>8
  <1>9. CASE i # N
    <2>1. LET g == rebalance(f, t, i)
          IN  /\ Indexed(g) /\ Held(g) = Held(f)
              /\ OrderedBut(f, t, 1, i) => Ordered(g, t, 1)
      BY <1>6, <1>9, Rebalance, Zenon
    <2> QED BY <2>1, <1>6, <1>7, <1>9
  <1> QED BY <1>8, <1>9

LEMMA Middle ==
  ASSUME NEW n \in Nat
  PROVE  /\ n \div 2 \in Nat /\ n < 2 * (n \div 2 + 1)
         /\ n >= 1 => n \div 2 + 1 <= n
  OBVIOUS

\* The n-th round of remake leaves the places from the next one on in order.
Remaking(h, t, n, s) ==
  /\ s \in Places /\ Indexed(s.heap) /\ Held(s.heap) = Held(h)
  /\ Len(s.heap.list) = Len(h.list)
  /\ s.at = Len(h.list) \div 2 + 1 - n
  /\ Ordered(s.heap, t, s.at + 1)

LEMMA RemakeStep ==
  ASSUME NEW h, Indexed(h), NEW t \in Times, h.list # <<>>,
         NEW n \in 0 .. Len(h.list) \div 2, NEW s, Remaking(h, t, n, s)
  PROVE  Remaking(h, t, n + 1, [heap |-> rebalanceChild(s.heap, t, s.at), at |-> s.at - 1])
  <1> DEFINE g == s.heap
             k == s.at
             f == rebalanceChild(g, t, k)
             N == Len(h.list)
             u == [heap |-> f, at |-> k - 1]
  <1>1. /\ Indexed(g) /\ Held(g) = Held(h) /\ Len(g.list) = N
        /\ k = N \div 2 + 1 - n /\ Ordered(g, t, k + 1)
    BY DEF Remaking
  <1>2. N \in Nat /\ N >= 1
    BY ListTypes
  <1>3. k \in 1 .. N /\ k - 1 \in Nat /\ k \in Nat
    <2> HIDE DEF k, N
    <2>1. n \in 0 .. N \div 2
      BY DEF N
    <2>2. N \div 2 \in Nat /\ N \div 2 + 1 <= N
      BY <1>2, Middle
    <2> DEFINE d == N \div 2
    <2> HIDE DEF d
    <2>3. n \in 0 .. d /\ d \in Nat /\ d + 1 <= N /\ k = d + 1 - n
      BY <1>1, <2>1, <2>2 DEF d
    <2> QED BY <2>3, <1>2
  <1>4. OrderedBut(g, t, k, k) /\ AfterParent(g, t, k, k)
    <2>1. \A p \in 1 .. N : Child(p, k) => ~ (p >= k)
      BY <1>2, <1>3 DEF Child
    <2>2. \A p \in 1 .. N : p >= k /\ p # k => p >= k + 1
      BY <1>2, <1>3
    <2> HIDE DEF k, g, N
    <2> QED BY <2>1, <2>2, <1>1 DEF OrderedBut, AfterParent, Ordered
  <1>5. /\ Indexed(f) /\ Held(f) = Held(g) /\ Len(f.list) = Len(g.list)
        /\ k <= k /\ OrderedBut(g, t, k, k) /\ AfterParent(g, t, k, k) => Ordered(f, t, k)
    <2>1. k \in 1 .. Len(g.list)
      BY <1>1, <1>3
    <2> HIDE DEF k, g
    <2>2. k \in Nat /\ Indexed(g)
      BY <1>1, <1>3
    <2> QED BY <2>1, <2>2, RebalanceChild, Zenon
  <1> HIDE DEF f, k, g, N
  <1>6. u \in Places
    BY <1>3, <1>5 DEF Places, Indexed
  <1>7. /\ u.heap = f /\ u.at = k - 1 /\ u.at + 1 = k /\ k <= k
        /\ u.at = N \div 2 + 1 - (n + 1)
    <2>1. N \div 2 \in Nat
      BY <1>2, Middle
    <2> QED BY <1>1, <1>3, <2>1
  <1> HIDE DEF u
  <1>8. Remaking(h, t, n + 1, u)
    BY <1>1, <1>4, <1>5, <1>6, <1>7 DEF Remaking, N
  <1> QED BY <1>8 DEF u, f, k, g

LEMMA Remake ==
  ASSUME NEW h, Indexed(h), NEW t \in Times, h.list # <<>>
  PROVE  LET g == remake(h, t)
         IN  Indexed(g) /\ Held(g) = Held(h) /\ Ordered(g, t, 1)
  <1> DEFINE half == Len(h.list) \div 2
             middle == half + 1
             start == [heap |-> h, at |-> middle]
             round == [s \in Places |-> [heap |-> rebalanceChild(s.heap, t, s.at), at |-> s.at - 1]]
             F == {q \in Nat \X Places : Remaking(h, t, q[1], q[2])}
             u == Rounds(round, start)[middle]
  <1>1. Len(h.list) \in Nat /\ h \in Heaps
    BY ListTypes DEF Indexed
  <1>2. half \in Nat /\ Len(h.list) < 2 * (half + 1)
    BY <1>1, Middle
  <1> HIDE DEF half
  <1>3. start \in Places
    BY <1>1, <1>2 DEF Places
  <1>4. Remaking(h, t, 0, start)
    <2>1. start.heap = h /\ start.at = middle
      OBVIOUS
    <2>2. Ordered(h, t, middle + 1)
      <3>1. \A p, c \in 1 .. Len(h.list) : ~ (Child(p, c) /\ p >= middle + 1)
        BY <1>1, <1>2 DEF Child
      <3> HIDE DEF middle
      <3> QED BY <3>1 DEF Ordered
    <2>3. middle = Len(h.list) \div 2 + 1 - 0
      <3>1. half = Len(h.list) \div 2
        BY DEF half
      <3> QED BY <3>1, <1>2
    <2> HIDE DEF start, middle
    <2> QED BY <1>3, <2>1, <2>2, <2>3 DEF Remaking
  <1>5. ASSUME NEW n \in 0 .. middle - 1, NEW s, <<n, s>> \in F
        PROVE  <<n + 1, round[s]>> \in F
    <2>1. s \in Places /\ Remaking(h, t, n, s)
      BY <1>5
    <2>2. round[s] = [heap |-> rebalanceChild(s.heap, t, s.at), at |-> s.at - 1]
      BY <2>1
    <2>3. Remaking(h, t, n + 1, round[s]) /\ n + 1 \in Nat
      <3>1. n \in Nat /\ n \in 0 .. half
        BY <1>2
      <3>2. n \in 0 .. Len(h.list) \div 2
        BY <3>1 DEF half
      <3> HIDE DEF round
      <3>3. Remaking(h, t, n + 1, [heap |-> rebalanceChild(s.heap, t, s.at), at |-> s.at - 1])
        BY <2>1, <3>2, RemakeStep, Zenon
      <3> QED BY <2>2, <3>1, <3>3
    <2> HIDE DEF round
    <2> QED BY <2>3 DEF Remaking
  <1>6. <<middle, u>> \in F
    <2>1. <<0, start>> \in F
      BY <1>3, <1>4
    <2>2. middle \in Nat
      BY <1>2
    <2> HIDE DEF F, start, round, middle
    <2> QED BY <1>5, <2>1, <2>2, RoundsKeep
  <1>7. Remaking(h, t, middle, u)
    <2> HIDE DEF u, middle
    <2> QED BY <1>6
  <1>8. remake(h, t) = u.heap
    BY DEF remake, half
  <1> HIDE DEF u
  <1>9. u.at + 1 = 1
    <2>1. u.at = half + 1 - middle
      BY <1>7 DEF Remaking, half
    <2> QED BY <2>1, <1>2
  <1>10. Ordered(u.heap, t, 1)
    BY <1>7, <1>9 DEF Remaking
  <1> QED BY <1>7, <1>8, <1>10 DEF Remaking

\* The n-th round of pushAll.
Pushing(h, t, ms, n, s) ==
  /\ s \in Places /\ Indexed(s.heap) /\ s.at = n + 1
  /\ Held(s.heap) = Held(h) \cup {ms[k] : k \in 1 .. n}
  /\ Ordered(h, t, 1) => Ordered(s.heap, t, 1)
  /\ h.list # <<>> /\ (\A k \in 1 .. Len(ms) : Priority(t, h.list[1]) <= Priority(t, ms[k])) =>
       s.heap.list # <<>> /\ s.heap.list[1] = h.list[1]

LEMMA PushStep ==
  ASSUME NEW h, Indexed(h), NEW t \in Times, NEW ms \in Seq(Module), IsInjective(ms),
         ToSet(ms) \cap Held(h) = {},
         NEW n \in 0 .. Len(ms) - 1, NEW s, Pushing(h, t, ms, n, s)
  PROVE  Pushing(h, t, ms, n + 1, [heap |-> push(s.heap, t, ms[s.at]), at |-> s.at + 1])
  <1> DEFINE g == s.heap
             m == ms[n + 1]
             f == push(g, t, m)
             u == [heap |-> f, at |-> n + 2]
  <1>1. /\ Indexed(g) /\ s.at = n + 1 /\ Held(g) = Held(h) \cup {ms[k] : k \in 1 .. n}
    BY DEF Pushing
  <1>2. n \in Nat /\ n + 1 \in 1 .. Len(ms) /\ \A k \in 1 .. n : k \in 1 .. Len(ms) /\ k # n + 1
    OBVIOUS
  <1>3. m \in Module \ Held(g)
    <2>1. m \in Module /\ m \in ToSet(ms)
      BY <1>2 DEF ToSet
    <2>2. \A k \in 1 .. n : ms[k] # m
      BY <1>2 DEF IsInjective
    <2> QED BY <1>1, <2>1, <2>2
  <1>4. /\ Indexed(f) /\ Held(f) = Held(g) \cup {m} /\ Len(f.list) = Len(g.list) + 1
        /\ Ordered(g, t, 1) => Ordered(f, t, 1)
        /\ g.list # <<>> /\ Priority(t, g.list[1]) <= Priority(t, m) => f.list[1] = g.list[1]
    <2> HIDE DEF m, g
    <2> QED BY <1>1, <1>3, Push, Zenon
  <1>5. Held(f) = Held(h) \cup {ms[k] : k \in 1 .. n + 1}
    <2>1. \A k : k \in 1 .. n + 1 <=> k \in 1 .. n \/ k = n + 1
      BY <1>2
    <2>2. {ms[k] : k \in 1 .. n + 1} = {ms[k] : k \in 1 .. n} \cup {m}
      BY <2>1
    <2> HIDE DEF f
    <2> QED BY <1>1, <1>4, <2>2
  <1>6. f.list # <<>>
    <2>1. Len(g.list) \in Nat
      BY <1>1, ListTypes
    <2> HIDE DEF f, g
    <2> QED BY <2>1, <1>4
  <1>7. ASSUME h.list # <<>>, \A k \in 1 .. Len(ms) : Priority(t, h.list[1]) <= Priority(t, ms[k])
        PROVE  f.list[1] = h.list[1]
    <2>1. g.list # <<>> /\ g.list[1] = h.list[1]
      BY <1>7 DEF Pushing
    <2> QED BY <2>1, <1>2, <1>4, <1>7
  <1>8. Ordered(h, t, 1) => Ordered(f, t, 1)
    BY <1>4 DEF Pushing
  <1>9. u \in Places /\ u.heap = f /\ u.at = (n + 1) + 1
    <2>1. f \in Heaps
      BY <1>4 DEF Indexed
    <2> HIDE DEF f
    <2> QED BY <2>1, <1>2 DEF Places
  <1>10. [heap |-> push(s.heap, t, ms[s.at]), at |-> s.at + 1] = u
    BY <1>1, <1>2
  <1> HIDE DEF u, f
  <1> QED BY <1>4, <1>5, <1>6, <1>7, <1>8, <1>9, <1>10 DEF Pushing

LEMMA PushAll ==
  ASSUME NEW h, Indexed(h), NEW t \in Times, NEW ms \in Seq(Module), IsInjective(ms),
         ToSet(ms) \cap Held(h) = {}
  PROVE  LET g == pushAll(h, t, ms)
         IN  /\ Indexed(g) /\ Held(g) = Held(h) \cup ToSet(ms)
             /\ Ordered(h, t, 1) => Ordered(g, t, 1)
             /\ h.list # <<>> /\ (\A m \in ToSet(ms) : Priority(t, h.list[1]) <= Priority(t, m)) =>
                  g.list[1] = h.list[1]
  <1> DEFINE start == [heap |-> h, at |-> 1]
             round == [s \in Places |-> [heap |-> push(s.heap, t, ms[s.at]), at |-> s.at + 1]]
             F == {q \in Nat \X Places : Pushing(h, t, ms, q[1], q[2])}
             N == Len(ms)
             u == Rounds(round, start)[N]
  <1>1. N \in Nat /\ h \in Heaps
    BY DEF Indexed
  <1>2. start \in Places
    BY <1>1 DEF Places
  <1>3. Pushing(h, t, ms, 0, start)
    <2>1. start.heap = h /\ start.at = 0 + 1 /\ {ms[k] : k \in 1 .. 0} = {}
      OBVIOUS
    <2> HIDE DEF start
    <2> QED BY <1>2, <2>1 DEF Pushing
  <1>4. ASSUME NEW n \in 0 .. N - 1, NEW s, <<n, s>> \in F
        PROVE  <<n + 1, round[s]>> \in F
    <2>1. s \in Places /\ Pushing(h, t, ms, n, s)
      BY <1>4
    <2>2. round[s] = [heap |-> push(s.heap, t, ms[s.at]), at |-> s.at + 1]
      BY <2>1
    <2>3. Pushing(h, t, ms, n + 1, round[s]) /\ n + 1 \in Nat
      BY <1>1, <2>1, <2>2, PushStep
    <2> HIDE DEF round
    <2> QED BY <2>3 DEF Pushing
  <1>5. <<N, u>> \in F
    <2>1. <<0, start>> \in F
      BY <1>2, <1>3
    <2> HIDE DEF F, start, round, N
    <2> QED BY <1>1, <1>4, <2>1, RoundsKeep
  <1>6. Pushing(h, t, ms, N, u)
    <2> HIDE DEF u, N
    <2> QED BY <1>5
  <1>7. pushAll(h, t, ms) = u.heap
    BY DEF pushAll
  <1> HIDE DEF u
  <1>8. {ms[k] : k \in 1 .. N} = ToSet(ms)
    BY DEF ToSet
  <1>9. \A k \in 1 .. N : ms[k] \in ToSet(ms)
    BY DEF ToSet
  <1> QED BY <1>6, <1>7, <1>8, <1>9 DEF Pushing

\* The n-th round of Erased: its last n places were o's or are in the heap still.
Erasing(o, n, s) ==
  LET N == Len(heap.list)
  IN  /\ s \in Places /\ Indexed(s.heap) /\ s.at = N - n
      /\ Held(s.heap) = Held(heap) \ {m \in Module : Owner[m] = o /\ heap.at[m] > N - n}
      /\ Ordered(heap, next, 1) => Ordered(s.heap, next, 1)

LEMMA EraseStep ==
  ASSUME Indexed(heap), next \in Times, NEW o,
         NEW n \in 0 .. Len(heap.list) - 1, NEW s, Erasing(o, n, s)
  PROVE  LET m == heap.list[s.at]
         IN  Erasing(o, n + 1, [heap |-> IF Owner[m] = o THEN erase(s.heap, next, s.heap.at[m]) ELSE s.heap,
                                at   |-> s.at - 1])
  <1> DEFINE N == Len(heap.list)
             k == s.at
             g == s.heap
             m == heap.list[k]
             f == IF Owner[m] = o THEN erase(g, next, g.at[m]) ELSE g
             u == [heap |-> f, at |-> k - 1]
             Gone(j) == {x \in Module : Owner[x] = o /\ heap.at[x] > j}
  <1>1. /\ Indexed(g) /\ k = N - n /\ Held(g) = Held(heap) \ Gone(N - n)
        /\ Ordered(heap, next, 1) => Ordered(g, next, 1)
    BY DEF Erasing
  <1>2. N \in Nat /\ heap.list \in Seq(Module) /\ heap.at \in [Module -> Nat]
    BY ListTypes
  <1>3. k \in 1 .. N /\ k = N - n /\ k - 1 = N - (n + 1) /\ k - 1 \in Nat
    <2>1. n \in 0 .. N - 1
      OBVIOUS
    <2> HIDE DEF N, k
    <2> QED BY <2>1, <1>1, <1>2
  <1>4. m \in Module /\ heap.at[m] = k
    <2>1. \A i \in 1 .. N : heap.at[heap.list[i]] = i
      BY DEF Indexed
    <2> HIDE DEF k, N
    <2>2. heap.list[k] \in Module
      BY <1>2, <1>3 DEF N
    <2> QED BY <2>1, <2>2, <1>3
  <1>5. m \in Held(g)
    BY <1>1, <1>3, <1>4 DEF Held
  <1>6. \A x \in Module : heap.at[x] = k => x = m
    <2>1. \A x \in Module : heap.at[x] # 0 => heap.list[heap.at[x]] = x
      BY DEF Indexed
    <2> QED BY <2>1, <1>3
  <1>7. Gone(k - 1) = Gone(k) \cup (IF Owner[m] = o THEN {m} ELSE {})
    <2>1. \A x \in Module : heap.at[x] > k - 1 <=> heap.at[x] > k \/ heap.at[x] = k
      <3> SUFFICES ASSUME NEW x \in Module
                   PROVE  heap.at[x] > k - 1 <=> heap.at[x] > k \/ heap.at[x] = k
        OBVIOUS
      <3>1. heap.at[x] \in Nat /\ k \in Nat
        BY <1>2, <1>3
      <3> HIDE DEF k
      <3> QED BY <3>1
    <2> HIDE DEF m, k
    <2> QED BY <2>1, <1>4, <1>6
  <1>8. /\ Indexed(f) /\ Held(f) = Held(heap) \ Gone(k - 1)
        /\ Ordered(heap, next, 1) => Ordered(f, next, 1)
    <2>1. CASE Owner[m] = o
      <3>1. g.at[m] \in 1 .. Len(g.list) /\ g.list[g.at[m]] = m
        BY <1>1, <1>5 DEF Indexed, Held
      <3>2. f = erase(g, next, g.at[m])
        BY <2>1
      <3> HIDE DEF f, m, g, k
      <3>3. /\ Indexed(f) /\ Held(f) = Held(g) \ {m}
            /\ Ordered(g, next, 1) => Ordered(f, next, 1)
        <4> DEFINE e == erase(g, next, g.at[m])
        <4>1. /\ Indexed(e) /\ Held(e) = Held(g) \ {g.list[g.at[m]]}
              /\ Ordered(g, next, 1) => Ordered(e, next, 1)
          BY <3>1, <1>1, Erase, Zenon
        <4> HIDE DEF e
        <4> QED BY <4>1, <3>1, <3>2 DEF e
      <3> QED BY <3>3, <2>1, <1>1, <1>3, <1>7
    <2>2. CASE Owner[m] # o
      <3>1. f = g
        BY <2>2
      <3> HIDE DEF f, m, g, k
      <3> QED BY <3>1, <2>2, <1>1, <1>3, <1>7
    <2> QED BY <2>1, <2>2
  <1> HIDE DEF f
  <1>9. u \in Places /\ u.heap = f /\ u.at = N - (n + 1)
    BY <1>3, <1>8 DEF Places, Indexed
  <1> HIDE DEF u
  <1>10. Erasing(o, n + 1, u)
    BY <1>3, <1>8, <1>9 DEF Erasing
  <1> QED BY <1>10 DEF u, f

LEMMA EraseAll ==
  ASSUME Indexed(heap), next \in Times, NEW o
  PROVE  /\ Indexed(Erased(o))
         /\ Held(Erased(o)) = Held(heap) \ {m \in Module : Owner[m] = o}
         /\ Ordered(heap, next, 1) => Ordered(Erased(o), next, 1)
  <1> DEFINE N == Len(heap.list)
             start == [heap |-> heap, at |-> N]
             round == [s \in Places |->
               [heap |-> IF Owner[heap.list[s.at]] = o
                           THEN erase(s.heap, next, s.heap.at[heap.list[s.at]]) ELSE s.heap,
                at   |-> s.at - 1]]
             F == {q \in Nat \X Places : Erasing(o, q[1], q[2])}
             u == Rounds(round, start)[N]
  <1>1. N \in Nat /\ heap \in Heaps
    BY ListTypes DEF Indexed
  <1>2. start \in Places
    BY <1>1 DEF Places
  <1>3. Erasing(o, 0, start)
    <2>1. start.heap = heap /\ start.at = N /\ N - 0 = N
      BY <1>1
    <2>2. \A m \in Module : ~ (heap.at[m] > N)
      <3>1. \A m \in Module : heap.at[m] = 0 \/ heap.at[m] \in 1 .. N
        BY DEF Indexed
      <3> QED BY <3>1, <1>1
    <2> HIDE DEF start
    <2> QED BY <1>2, <2>1, <2>2 DEF Erasing
  <1>4. ASSUME NEW n \in 0 .. N - 1, NEW s, <<n, s>> \in F
        PROVE  <<n + 1, round[s]>> \in F
    <2>1. s \in Places /\ Erasing(o, n, s)
      BY <1>4
    <2>2. Erasing(o, n + 1, round[s])
      <3>1. Erasing(o, n + 1,
              [heap |-> IF Owner[heap.list[s.at]] = o
                          THEN erase(s.heap, next, s.heap.at[heap.list[s.at]]) ELSE s.heap,
               at   |-> s.at - 1])
        BY <2>1, EraseStep, Zenon
      <3> QED BY <3>1, <2>1
    <2>3. n + 1 \in Nat
      OBVIOUS
    <2> HIDE DEF round
    <2> QED BY <2>2, <2>3 DEF Erasing
  <1>5. <<N, u>> \in F
    <2>1. <<0, start>> \in F
      BY <1>2, <1>3
    <2> HIDE DEF F, start, round, N
    <2> QED BY <1>1, <1>4, <2>1, RoundsKeep
  <1>6. Erasing(o, N, u)
    <2> HIDE DEF u, N
    <2> QED BY <1>5
  <1>7. Erased(o) = u.heap
    BY DEF Erased
  <1> HIDE DEF u
  <1>8. Held(u.heap) = Held(heap) \ {m \in Module : Owner[m] = o}
    <2>1. Held(u.heap) = Held(heap) \ {m \in Module : Owner[m] = o /\ heap.at[m] > N - N}
      BY <1>6 DEF Erasing
    <2>2. \A m \in Held(heap) : heap.at[m] > N - N
      BY <1>1 DEF Heaps, Held
    <2> HIDE DEF N
    <2> QED BY <2>1, <2>2 DEF Held
  <1> QED BY <1>6, <1>7, <1>8 DEF Erasing

-----------------------------------------------------------------------------
(* Sequences that name nothing twice.                                         *)

LEMMA ConcatInjective ==
  ASSUME NEW s \in Seq(Module), NEW t \in Seq(Module), IsInjective(s), IsInjective(t),
         ToSet(s) \cap ToSet(t) = {}
  PROVE  s \o t \in Seq(Module) /\ IsInjective(s \o t) /\ ToSet(s \o t) = ToSet(s) \cup ToSet(t)
  <1> DEFINE r == s \o t
  <1>1. /\ r \in Seq(Module) /\ Len(r) = Len(s) + Len(t)
        /\ \A i \in 1 .. Len(s) : r[i] = s[i]
        /\ \A i \in 1 .. Len(r) : i > Len(s) => i - Len(s) \in 1 .. Len(t) /\ r[i] = t[i - Len(s)]
        /\ \A i \in 1 .. Len(t) : i + Len(s) \in 1 .. Len(r) /\ r[i + Len(s)] = t[i]
        /\ \A i \in 1 .. Len(s) : i \in 1 .. Len(r)
    OBVIOUS
  <1>2. /\ DOMAIN r = 1 .. Len(r) /\ DOMAIN s = 1 .. Len(s) /\ DOMAIN t = 1 .. Len(t)
        /\ Len(s) \in Nat /\ Len(t) \in Nat
    BY <1>1
  <1> HIDE DEF r
  <1>3. \A i \in 1 .. Len(r) : r[i] \in ToSet(s) \cup ToSet(t)
    <2> TAKE i \in 1 .. Len(r)
    <2>1. CASE i <= Len(s)
      BY <2>1, <1>1, <1>2 DEF ToSet
    <2>2. CASE i > Len(s)
      BY <2>2, <1>1, <1>2 DEF ToSet
    <2> QED BY <2>1, <2>2, <1>2
  <1>4. \A x \in ToSet(s) \cup ToSet(t) : \E i \in 1 .. Len(r) : r[i] = x
    <2>1. \A x \in ToSet(s) : \E i \in 1 .. Len(r) : r[i] = x
      BY <1>1, <1>2 DEF ToSet
    <2>2. \A x \in ToSet(t) : \E i \in 1 .. Len(r) : r[i] = x
      <3> TAKE x \in ToSet(t)
      <3>1. PICK i \in 1 .. Len(t) : t[i] = x
        BY <1>2 DEF ToSet
      <3>2. i + Len(s) \in 1 .. Len(r) /\ r[i + Len(s)] = x
        BY <3>1, <1>1
      <3> QED BY <3>2
    <2> QED BY <2>1, <2>2
  <1>5. ToSet(r) = ToSet(s) \cup ToSet(t)
    <2>1. ToSet(r) = {r[i] : i \in 1 .. Len(r)}
      BY <1>2 DEF ToSet
    <2> QED BY <2>1, <1>3, <1>4
  <1>6. /\ \A i, j \in 1 .. Len(s) : s[i] = s[j] => i = j
        /\ \A i, j \in 1 .. Len(t) : t[i] = t[j] => i = j
        /\ \A i \in 1 .. Len(s), j \in 1 .. Len(t) : s[i] # t[j]
    <2>1. \A i \in 1 .. Len(s), j \in 1 .. Len(t) : s[i] # t[j]
      <3> SUFFICES ASSUME NEW i \in 1 .. Len(s), NEW j \in 1 .. Len(t), s[i] = t[j]
                   PROVE  FALSE
        OBVIOUS
      <3>1. s[i] \in ToSet(s) /\ t[j] \in ToSet(t)
        BY <1>2 DEF ToSet
      <3> QED BY <3>1
    <2> QED BY <2>1, <1>2 DEF IsInjective
  <1>7. ASSUME NEW i \in 1 .. Len(r), NEW j \in 1 .. Len(r), r[i] = r[j]
        PROVE  i = j
    <2>0. (i <= Len(s) => i \in 1 .. Len(s)) /\ (j <= Len(s) => j \in 1 .. Len(s))
      BY <1>2
    <2> USE <2>0
    <2>1. CASE i <= Len(s) /\ j <= Len(s)
      BY <2>1, <1>1, <1>7, <1>6
    <2>2. CASE i > Len(s) /\ j > Len(s)
      <3>1. /\ i - Len(s) \in 1 .. Len(t) /\ j - Len(s) \in 1 .. Len(t)
            /\ t[i - Len(s)] = t[j - Len(s)]
        BY <2>2, <1>1, <1>7
      <3>2. i - Len(s) = j - Len(s)
        BY <3>1, <1>6
      <3> QED BY <3>2, <1>2
    <2>3. CASE i <= Len(s) /\ j > Len(s)
      <3>1. j - Len(s) \in 1 .. Len(t) /\ s[i] = t[j - Len(s)]
        BY <2>3, <1>1, <1>7
      <3> QED BY <3>1, <2>3, <1>6
    <2>4. CASE i > Len(s) /\ j <= Len(s)
      <3>1. i - Len(s) \in 1 .. Len(t) /\ s[j] = t[i - Len(s)]
        BY <2>4, <1>1, <1>7
      <3> QED BY <3>1, <2>4, <1>6
    <2> QED BY <2>1, <2>2, <2>3, <2>4, <1>2
  <1>8. IsInjective(r)
    BY <1>2, <1>7 DEF IsInjective
  <1> QED BY <1>1, <1>5, <1>8 DEF r

\* The n-th round of Listed.
Listing(objs, n, s) ==
  /\ s \in Seq(Module) \X Nat /\ s[2] = n + 1 /\ IsInjective(s[1])
  /\ ToSet(s[1]) = {m \in Module : \E k \in 1 .. n : Owner[m] = objs[k]}

LEMMA ListStep ==
  ASSUME NEW objs \in Seq(Objects), IsInjective(objs),
         NEW n \in 0 .. Len(objs) - 1, NEW s, Listing(objs, n, s)
  PROVE  Listing(objs, n + 1, <<s[1] \o Modules[objs[s[2]]], s[2] + 1>>)
  <1> DEFINE o == objs[n + 1]
             l == s[1] \o Modules[o]
  <1>1. /\ s[1] \in Seq(Module) /\ s[2] = n + 1 /\ IsInjective(s[1])
        /\ ToSet(s[1]) = {m \in Module : \E k \in 1 .. n : Owner[m] = objs[k]}
    BY DEF Listing
  <1>2. n \in Nat /\ n + 1 \in 1 .. Len(objs) /\ \A k \in 1 .. n : k \in 1 .. Len(objs) /\ k # n + 1
    OBVIOUS
  <1>3. o \in Objects
    BY <1>2
  <1>4. /\ Modules[o] \in Seq(Module) /\ IsInjective(Modules[o])
        /\ ToSet(Modules[o]) = {m \in Module : Owner[m] = o}
    BY <1>3, SleepyAssumption
  <1>5. \A k \in 1 .. n : objs[k] # o
    BY <1>2 DEF IsInjective
  <1>6. ToSet(s[1]) \cap ToSet(Modules[o]) = {}
    BY <1>1, <1>4, <1>5
  <1>7. l \in Seq(Module) /\ IsInjective(l) /\ ToSet(l) = ToSet(s[1]) \cup ToSet(Modules[o])
    <2> HIDE DEF o
    <2> QED BY <1>1, <1>4, <1>6, ConcatInjective
  <1> HIDE DEF l
  <1>8. ToSet(l) = {m \in Module : \E k \in 1 .. n + 1 : Owner[m] = objs[k]}
    <2>1. \A k : k \in 1 .. n + 1 <=> k \in 1 .. n \/ k = n + 1
      BY <1>2
    <2> QED BY <2>1, <1>1, <1>4, <1>7
  <1>9. <<l, n + 2>> \in Seq(Module) \X Nat /\ n + 2 = (n + 1) + 1
    BY <1>2, <1>7
  <1>10. Listing(objs, n + 1, <<l, n + 2>>)
    BY <1>7, <1>8, <1>9 DEF Listing
  <1> QED BY <1>1, <1>9, <1>10 DEF l

LEMMA ListAll ==
  ASSUME NEW objs \in Seq(Objects), IsInjective(objs)
  PROVE  /\ Listed(objs) \in Seq(Module) /\ IsInjective(Listed(objs))
         /\ ToSet(Listed(objs)) = {m \in Module : Owner[m] \in ToSet(objs)}
  <1> DEFINE start == << <<>>, 1 >>
             round == [s \in Seq(Module) \X Nat |-> <<s[1] \o Modules[objs[s[2]]], s[2] + 1>>]
             F == {q \in Nat \X (Seq(Module) \X Nat) : Listing(objs, q[1], q[2])}
             N == Len(objs)
             u == Rounds(round, start)[N]
  <1>1. N \in Nat /\ DOMAIN objs = 1 .. N
    OBVIOUS
  <1>2. Listing(objs, 0, start)
    <2>1. start[1] = <<>> /\ start[2] = 0 + 1 /\ start \in Seq(Module) \X Nat
      <3>1. <<>> \in Seq(Module)
        OBVIOUS
      <3>2. \A x \in Seq(Module) : <<x, 1>>[1] = x /\ <<x, 1>>[2] = 0 + 1 /\ <<x, 1>> \in Seq(Module) \X Nat
        OBVIOUS
      <3> QED BY <3>1, <3>2, Zenon
    <2>2. IsInjective(<<>>) /\ ToSet(<<>>) = {}
      BY DEF IsInjective, ToSet
    <2>3. {m \in Module : \E k \in 1 .. 0 : Owner[m] = objs[k]} = {}
      OBVIOUS
    <2> HIDE DEF start
    <2> QED BY <2>1, <2>2, <2>3 DEF Listing
  <1>3. ASSUME NEW n \in 0 .. N - 1, NEW s, <<n, s>> \in F
        PROVE  <<n + 1, round[s]>> \in F
    <2>1. s \in Seq(Module) \X Nat /\ Listing(objs, n, s)
      BY <1>3
    <2>2. round[s] = <<s[1] \o Modules[objs[s[2]]], s[2] + 1>>
      BY <2>1
    <2>3. Listing(objs, n + 1, round[s])
      <3>1. Listing(objs, n + 1, <<s[1] \o Modules[objs[s[2]]], s[2] + 1>>)
        BY <2>1, ListStep, Zenon
      <3> HIDE DEF round
      <3> QED BY <2>2, <3>1
    <2>4. n + 1 \in Nat
      OBVIOUS
    <2> HIDE DEF round
    <2> QED BY <2>3, <2>4 DEF Listing
  <1>4. <<N, u>> \in F
    <2>1. <<0, start>> \in F
      BY <1>2 DEF Listing
    <2> HIDE DEF F, start, round, N
    <2> QED BY <1>1, <1>3, <2>1, RoundsKeep
  <1>5. Listing(objs, N, u)
    <2> HIDE DEF u, N
    <2> QED BY <1>4
  <1>6. Listed(objs) = u[1]
    BY DEF Listed
  <1> HIDE DEF u
  <1>7. {m \in Module : \E k \in 1 .. N : Owner[m] = objs[k]} = {m \in Module : Owner[m] \in ToSet(objs)}
    BY <1>1 DEF ToSet
  <1> QED BY <1>5, <1>6, <1>7 DEF Listing

-----------------------------------------------------------------------------
(* The lists of objects.                                                      *)

LEMMA FirstOf ==
  ASSUME NEW s \in Seq(Objects), NEW o \in ToSet(s)
  PROVE  \E i \in 1 .. Len(s) : s[i] = o /\ RemoveFirst(s, o) = SubSeq(s, 1, i - 1) \o SubSeq(s, i + 1, Len(s))
  <1> DEFINE I == {i \in 1 .. Len(s) : s[i] = o}
             i0 == CHOOSE x \in I : \A y \in I : x <= y
  <1>1. DOMAIN s = 1 .. Len(s)
    OBVIOUS
  <1>2. PICK k \in 1 .. Len(s) : s[k] = o
    BY <1>1 DEF ToSet
  <1>3. I # {} /\ k \in I
    BY <1>2
  <1>4. \E x \in I : \A y \in I : x <= y
    <2>1. \A y \in I : y \in Nat
      OBVIOUS
    <2> HIDE DEF I
    <2> QED BY <1>3, <2>1, LeastNatural
  <1>5. i0 \in I
    <2> HIDE DEF I
    <2> QED BY <1>4
  <1>6. RemoveFirst(s, o) = SubSeq(s, 1, i0 - 1) \o SubSeq(s, i0 + 1, Len(s))
    BY <1>2, <1>3 DEF RemoveFirst, RemoveAt, SelectInSeq, Min
  <1> HIDE DEF i0
  <1> QED BY <1>5, <1>6

LEMMA RemoveFirstFacts ==
  ASSUME NEW s \in Seq(Objects), IsInjective(s), NEW o \in ToSet(s)
  PROVE  /\ RemoveFirst(s, o) \in Seq(Objects) /\ IsInjective(RemoveFirst(s, o))
         /\ ToSet(RemoveFirst(s, o)) = ToSet(s) \ {o}
  <1>1. PICK k \in 1 .. Len(s) :
          s[k] = o /\ RemoveFirst(s, o) = SubSeq(s, 1, k - 1) \o SubSeq(s, k + 1, Len(s))
    BY FirstOf
  <1> DEFINE a == SubSeq(s, 1, k - 1)
             b == SubSeq(s, k + 1, Len(s))
             r == a \o b
  <1>2. Len(s) \in Nat /\ DOMAIN s = 1 .. Len(s)
    OBVIOUS
  <1>3. /\ a \in Seq(Objects) /\ Len(a) = k - 1 /\ \A i \in 1 .. k - 1 : a[i] = s[i]
    BY <1>2
  <1>4. /\ b \in Seq(Objects) /\ Len(b) = Len(s) - k
        /\ \A i \in 1 .. Len(s) - k : b[i] = s[i + k]
    <2>1. k + 1 \in 1 .. Len(s) + 1 /\ Len(s) \in k .. Len(s) /\ k + 1 - 1 = k
      BY <1>2
    <2>2. /\ b \in Seq(Objects)
          /\ Len(b) = IF k + 1 <= Len(s) THEN Len(s) - (k + 1) + 1 ELSE 0
          /\ \A i \in 1 .. Len(s) - (k + 1) + 1 : b[i] = s[k + 1 + i - 1]
      BY <2>1, <1>2, SubSeqProperties
    <2>3. Len(b) = Len(s) - k /\ Len(s) - (k + 1) + 1 = Len(s) - k
      <3>1. k \in Nat /\ k <= Len(s) /\ Len(b) = IF k + 1 <= Len(s) THEN Len(s) - (k + 1) + 1 ELSE 0
        BY <2>1, <2>2, <1>2
      <3> HIDE DEF b
      <3>2. CASE k + 1 <= Len(s)
        BY <3>1, <3>2, <1>2
      <3>3. CASE k = Len(s)
        BY <3>1, <3>3, <1>2
      <3>4. k + 1 <= Len(s) \/ k = Len(s)
        <4>1. \A x, y \in Nat : x <= y => x + 1 <= y \/ x = y
          OBVIOUS
        <4> QED BY <4>1, <3>1, <1>2
      <3> QED BY <3>2, <3>3, <3>4
    <2>4. \A i \in 1 .. Len(s) - k : k + 1 + i - 1 = i + k
      BY <1>2
    <2> QED BY <2>2, <2>3, <2>4
  <1> HIDE DEF a, b
  <1>5. /\ r \in Seq(Objects) /\ Len(r) = Len(s) - 1
        /\ \A i \in 1 .. Len(s) - 1 : r[i] = IF i < k THEN s[i] ELSE s[i + 1]
    <2>1. /\ r \in Seq(Objects) /\ Len(r) = Len(a) + Len(b)
          /\ \A i \in 1 .. Len(a) + Len(b) : r[i] = IF i <= Len(a) THEN a[i] ELSE b[i - Len(a)]
      BY <1>3, <1>4, ConcatProperties
    <2> HIDE DEF r
    <2>2. Len(a) + Len(b) = Len(s) - 1
      BY <1>2, <1>3, <1>4
    <2>3. ASSUME NEW i \in 1 .. Len(s) - 1
          PROVE  r[i] = IF i < k THEN s[i] ELSE s[i + 1]
      <3>1. r[i] = IF i <= k - 1 THEN a[i] ELSE b[i - (k - 1)]
        BY <2>1, <2>2, <1>3
      <3>2. CASE i < k
        <4>1. i \in 1 .. k - 1 /\ i <= k - 1
          BY <3>2, <1>2
        <4> QED BY <4>1, <3>1, <3>2, <1>3
      <3>3. CASE i >= k
        <4>1. ~ (i <= k - 1) /\ ~ (i < k)
          BY <3>3, <1>2
        <4>2. i - (k - 1) \in 1 .. Len(s) - k /\ i - (k - 1) + k = i + 1
          BY <3>3, <1>2
        <4> QED BY <4>1, <4>2, <3>1, <1>4
      <3> QED BY <3>2, <3>3, <1>2
    <2> QED BY <2>1, <2>2, <2>3
  <1> HIDE DEF r
  <1>6. DOMAIN r = 1 .. Len(s) - 1
    <2>1. DOMAIN r = 1 .. Len(r)
      BY <1>5
    <2> QED BY <2>1, <1>5
  <1>7. \A i, j \in 1 .. Len(s) : s[i] = s[j] => i = j
    BY <1>2 DEF IsInjective
  <1> DEFINE from(i) == IF i < k THEN i ELSE i + 1
  <1>8. \A i \in 1 .. Len(s) - 1 : from(i) \in 1 .. Len(s) /\ from(i) # k /\ r[i] = s[from(i)]
    BY <1>2, <1>5
  <1>9. \A i, j \in 1 .. Len(s) - 1 : from(i) = from(j) => i = j
    BY <1>2
  <1>10. \A i \in 1 .. Len(s) : i # k => \E j \in 1 .. Len(s) - 1 : from(j) = i
    <2> TAKE i \in 1 .. Len(s)
    <2>1. CASE i < k
      BY <2>1, <1>2
    <2>2. CASE i > k
      <3>1. i - 1 \in 1 .. Len(s) - 1 /\ from(i - 1) = i
        BY <2>2, <1>2
      <3> QED BY <3>1
    <2> QED BY <2>1, <2>2, <1>2
  <1> HIDE DEF from
  <1>11. IsInjective(r)
    BY <1>6, <1>7, <1>8, <1>9 DEF IsInjective
  <1>12. ToSet(r) = ToSet(s) \ {o}
    <2>1. \A i \in 1 .. Len(s) - 1 : r[i] \in ToSet(s) \ {o}
      BY <1>1, <1>2, <1>7, <1>8 DEF ToSet
    <2>2. ASSUME NEW x \in ToSet(s) \ {o}
          PROVE  \E j \in 1 .. Len(s) - 1 : r[j] = x
      <3>1. PICK i \in 1 .. Len(s) : s[i] = x
        BY <1>2 DEF ToSet
      <3>2. i # k
        BY <3>1, <1>1
      <3> QED BY <3>1, <3>2, <1>8, <1>10
    <2> QED BY <2>1, <2>2, <1>6 DEF ToSet
  <1> QED BY <1>1, <1>5, <1>11, <1>12 DEF r, a, b

LEMMA TailFacts ==
  ASSUME NEW s \in Seq(Objects), IsInjective(s), s # <<>>
  PROVE  /\ Head(s) \in ToSet(s) /\ Tail(s) \in Seq(Objects) /\ IsInjective(Tail(s))
         /\ ToSet(Tail(s)) = ToSet(s) \ {Head(s)}
  <1> DEFINE t == Tail(s)
  <1>1. /\ t \in Seq(Objects) /\ Len(t) = Len(s) - 1 /\ Len(s) \in Nat /\ Len(s) >= 1 /\ Head(s) = s[1]
        /\ \A i \in 1 .. Len(s) - 1 : t[i] = s[i + 1]
        /\ DOMAIN s = 1 .. Len(s) /\ DOMAIN t = 1 .. Len(s) - 1
    OBVIOUS
  <1> HIDE DEF t
  <1>2. \A i, j \in 1 .. Len(s) : s[i] = s[j] => i = j
    BY <1>1 DEF IsInjective
  <1>3. \A i \in 1 .. Len(s) - 1 : i + 1 \in 1 .. Len(s) /\ i + 1 # 1
    BY <1>1
  <1>4. 1 \in 1 .. Len(s)
    BY <1>1
  <1>5. IsInjective(t)
    <2>1. ASSUME NEW i \in 1 .. Len(s) - 1, NEW j \in 1 .. Len(s) - 1, t[i] = t[j]
          PROVE  i = j
      <3>1. i + 1 = j + 1
        BY <2>1, <1>1, <1>2, <1>3
      <3> QED BY <3>1
    <2> QED BY <2>1, <1>1 DEF IsInjective
  <1>6. \A i \in 1 .. Len(s) - 1 : t[i] \in ToSet(s) \ {s[1]}
    BY <1>1, <1>2, <1>3, <1>4 DEF ToSet
  <1>7. ASSUME NEW x \in ToSet(s) \ {s[1]}
        PROVE  \E j \in 1 .. Len(s) - 1 : t[j] = x
    <2>1. PICK i \in 1 .. Len(s) : s[i] = x
      BY <1>1 DEF ToSet
    <2>2. i - 1 \in 1 .. Len(s) - 1 /\ t[i - 1] = s[i - 1 + 1] /\ i - 1 + 1 = i
      BY <2>1, <1>1
    <2> QED BY <2>1, <2>2
  <1>8. ToSet(t) = ToSet(s) \ {s[1]}
    <2>1. ToSet(t) = {t[i] : i \in 1 .. Len(s) - 1}
      BY <1>1 DEF ToSet
    <2> QED BY <2>1, <1>6, <1>7
  <1>9. s[1] \in ToSet(s)
    BY <1>1, <1>4 DEF ToSet
  <1> QED BY <1>1, <1>5, <1>8, <1>9 DEF t

LEMMA ReverseFacts ==
  ASSUME NEW s \in Seq(Objects), IsInjective(s)
  PROVE  Reverse(s) \in Seq(Objects) /\ IsInjective(Reverse(s)) /\ ToSet(Reverse(s)) = ToSet(s)
  <1> DEFINE r == Reverse(s)
             n == Len(s)
  <1>1. n \in Nat /\ DOMAIN s = 1 .. n /\ \A i \in 1 .. n : s[i] \in Objects
    OBVIOUS
  <1>2. \A i \in 1 .. n : n - i + 1 \in 1 .. n /\ n - (n - i + 1) + 1 = i
    BY <1>1
  <1>3. r = [i \in 1 .. n |-> s[(n - i) + 1]]
    BY DEF Reverse
  <1> HIDE DEF n, r
  <1>4. r \in Seq(Objects) /\ DOMAIN r = 1 .. n /\ \A i \in 1 .. n : r[i] = s[n - i + 1]
    <2>1. r \in [1 .. n -> Objects]
      BY <1>1, <1>2, <1>3
    <2> QED BY <2>1, <1>1, <1>3
  <1>5. \A i, j \in 1 .. n : s[i] = s[j] => i = j
    BY <1>1 DEF IsInjective
  <1>6. IsInjective(r)
    <2>1. ASSUME NEW i \in 1 .. n, NEW j \in 1 .. n, r[i] = r[j]
          PROVE  i = j
      <3>1. n - i + 1 = n - j + 1
        BY <2>1, <1>2, <1>4, <1>5
      <3> QED BY <3>1, <1>1
    <2> QED BY <2>1, <1>4 DEF IsInjective
  <1>7. ToSet(r) = ToSet(s)
    <2>1. \A i \in 1 .. n : r[i] \in ToSet(s)
      BY <1>1, <1>2, <1>4 DEF ToSet
    <2>2. \A i \in 1 .. n : \E j \in 1 .. n : r[j] = s[i]
      BY <1>1, <1>2, <1>4
    <2> QED BY <2>1, <2>2, <1>1, <1>4 DEF ToSet
  <1> QED BY <1>4, <1>6, <1>7 DEF r

LEMMA AddedFacts ==
  ASSUME NEW s \in Seq(Objects), IsInjective(s), NEW o \in Objects, o \notin ToSet(s)
  PROVE  /\ <<o>> \o s \in Seq(Objects) /\ IsInjective(<<o>> \o s)
         /\ ToSet(<<o>> \o s) = {o} \cup ToSet(s)
  <1> DEFINE r == <<o>> \o s
  <1>1. DOMAIN s = 1 .. Len(s) /\ Len(s) \in Nat
    OBVIOUS
  <1>2. /\ r \in Seq(Objects) /\ Len(r) = Len(s) + 1 /\ r[1] = o /\ DOMAIN r = 1 .. Len(r)
        /\ \A i \in 1 .. Len(r) : i # 1 => i - 1 \in 1 .. Len(s) /\ r[i] = s[i - 1]
        /\ \A i \in 1 .. Len(s) : i + 1 \in 1 .. Len(r) /\ r[i + 1] = s[i]
    OBVIOUS
  <1> HIDE DEF r
  <1>3. \A i \in 1 .. Len(s) : s[i] # o
    BY <1>1 DEF ToSet
  <1>4. \A i, j \in 1 .. Len(s) : s[i] = s[j] => i = j
    BY <1>1 DEF IsInjective
  <1>5. ASSUME NEW i \in 1 .. Len(r), NEW j \in 1 .. Len(r), r[i] = r[j]
        PROVE  i = j
    <2>1. CASE i # 1 /\ j # 1
      <3>1. i - 1 = j - 1
        <4>1. i - 1 \in 1 .. Len(s) /\ j - 1 \in 1 .. Len(s) /\ s[i - 1] = s[j - 1]
          BY <2>1, <1>2, <1>5
        <4> QED BY <4>1, <1>4
      <3> QED BY <3>1
    <2>2. CASE i = 1 \/ j = 1
      BY <2>2, <1>2, <1>3, <1>5
    <2> QED BY <2>1, <2>2
  <1>6. IsInjective(r)
    BY <1>2, <1>5 DEF IsInjective
  <1>7. \A i \in 1 .. Len(r) : r[i] \in {o} \cup ToSet(s)
    BY <1>1, <1>2 DEF ToSet
  <1>8. \A x \in {o} \cup ToSet(s) : \E i \in 1 .. Len(r) : r[i] = x
    <2>1. 1 \in 1 .. Len(r)
      BY <1>1, <1>2
    <2> QED BY <2>1, <1>1, <1>2 DEF ToSet
  <1>9. ToSet(r) = {o} \cup ToSet(s)
    <2>1. ToSet(r) = {r[i] : i \in 1 .. Len(r)}
      BY <1>2 DEF ToSet
    <2> QED BY <2>1, <1>7, <1>8
  <1> QED BY <1>2, <1>6, <1>9 DEF r

-----------------------------------------------------------------------------
(* The invariant.                                                             *)

ObjectsInv ==
  /\ IsInjective(objList) /\ IsInjective(doomed)
  /\ ToSet(doomed) \subseteq ToSet(objList) /\ deleted \cap ToSet(objList) = {}
HeapInv ==
  /\ Indexed(heap) /\ Ordered(heap, next, 1)
  /\ Held(heap) = {m \in Module : Owner[m] \in ToSet(objList)}
\* The module whose update runs is due yet, and those woken meanwhile are not
\* before it.
RunningInv ==
  running # None =>
    /\ stage = "loop" /\ heap.list # <<>>
    /\ heap.list[1] = running /\ next[running] <= frame
IInv == TypeOK /\ ObjectsInv /\ HeapInv /\ RunningInv

LEMMA InitIInv == Init => IInv
  <1> SUFFICES ASSUME Init PROVE IInv
    OBVIOUS
  <1> USE DEF Init, EmptyHeap
  <1>1. TypeOK
    BY SleepyAssumption DEF TypeOK, Heaps
  <1>2. ObjectsInv
    BY DEF ObjectsInv, IsInjective, ToSet
  <1>3. HeapInv
    <2>1. Indexed(heap)
      BY DEF Indexed, Heaps
    <2>2. Ordered(heap, next, 1)
      BY DEF Ordered
    <2>3. Held(heap) = {} /\ ToSet(objList) = {}
      BY DEF Held, ToSet
    <2> QED BY <2>1, <2>2, <2>3 DEF HeapInv
  <1>4. RunningInv
    BY DEF RunningInv
  <1> QED BY <1>1, <1>2, <1>3, <1>4 DEF IInv

LEMMA Types ==
  ASSUME IInv
  PROVE  /\ frame \in Nat /\ frame <= MaxFrame /\ frame < Forever /\ Forever \in Nat
         /\ next \in Times /\ heap \in Heaps
         /\ objList \in Seq(Objects) /\ doomed \in Seq(Objects)
  BY SleepyAssumption DEF IInv, TypeOK, Times

LEMMA InHeapIsHeld == IInv => InHeap = Held(heap)
  BY HeldAreListed DEF IInv, HeapInv, InHeap

\* Only the priority of the module in place k has changed.
LEMMA OthersInOrder ==
  ASSUME NEW h, Indexed(h), NEW t \in Times, NEW u \in Times, NEW k \in 1 .. Len(h.list),
         \A m \in Module : m # h.list[k] => u[m] = t[m], Ordered(h, t, 1)
  PROVE  OrderedBut(h, u, 1, k)
  <1> DEFINE N == Len(h.list)
             A(j) == Priority(t, h.list[j])
             B(j) == Priority(u, h.list[j])
  <1>1. \A j \in 1 .. N : h.list[j] \in Module /\ A(j) \in Nat
    BY ListTypes
  <1>2. \A j \in 1 .. N : j # k => B(j) = A(j)
    <2> TAKE j \in 1 .. N
    <2>1. j # k => h.list[j] # h.list[k]
      BY DEF Indexed
    <2> QED BY <2>1, <1>1 DEF Priority
  <1>3. \A p, c \in 1 .. N : Child(p, c) /\ p >= 1 => A(p) <= A(c)
    BY DEF Ordered, InOrder
  <1>4. k \in 1 .. N
    OBVIOUS
  <1> HIDE DEF A, B, N
  <1>5. \A p, c \in 1 .. N : Child(p, c) /\ p >= 1 /\ p # k /\ c # k => B(p) <= B(c)
    BY <1>2, <1>3
  <1>6. ASSUME NEW p \in 1 .. N, NEW c \in 1 .. N, Child(p, k), Child(k, c)
        PROVE  B(p) <= B(c)
    <2>1. p # k /\ c # k /\ p >= 1 /\ k >= 1
      BY <1>4, <1>6 DEF Child
    <2>2. A(p) <= A(k) /\ A(k) <= A(c)
      BY <2>1, <1>3, <1>4, <1>6
    <2> QED BY <2>1, <2>2, <1>1, <1>2, <1>4
  <1> QED BY <1>5, <1>6 DEF OrderedBut, InOrder, B, N

\* While an update runs, who is due later, or in the normal phase at the same
\* time, is not before it.
LEMMA NotBeforeRunning ==
  ASSUME IInv, running # None, Acting, NEW t \in Times, t[running] = next[running],
         NEW m \in Module, t[m] > frame \/ (t[m] = frame /\ Phase[m] = NORMAL)
  PROVE  Priority(t, running) <= Priority(t, m)
  <1>1. running \in Module /\ next[running] <= frame /\ next[running] \in Nat /\ frame \in Nat
    BY Types DEF IInv, TypeOK, RunningInv, Times
  <1>2. Phase[running] \in 0 .. 2 /\ Phase[m] \in 0 .. 3 /\ t[m] \in Nat
    BY <1>1, SleepyAssumption DEF Acting, FINAL, Times
  <1>3. /\ Priority(t, running) = 4 * next[running] + Phase[running]
        /\ Priority(t, m) = 4 * t[m] + Phase[m]
    BY <1>1 DEF Priority
  <1> QED BY <1>1, <1>2, <1>3 DEF NORMAL

LEMMA CappedLater ==
  ASSUME IInv, NEW d \in Nat
  PROVE  /\ Capped(frame + d) \in 0 .. Forever /\ Capped(frame + d) >= frame
         /\ d = 0 => Capped(frame + d) = frame
         /\ d > 0 => Capped(frame + d) > frame
  BY Types DEF Capped

LEMMA StartUpdatesKeeps == IInv /\ StartUpdates => IInv'
  BY DEF IInv, TypeOK, ObjectsInv, HeapInv, RunningInv, StartUpdates

LEMMA AwakenKeeps ==
  ASSUME IInv, NEW m \in Module, NEW delay \in Delays \cup {0}, Awaken(m, delay)
  PROVE  IInv'
  <1> DEFINE k == heap.at[m]
  <1>1. /\ next' = [next EXCEPT ![m] = Capped(frame + delay)]
        /\ heap' = rebalance(heap, next', k)
        /\ UNCHANGED <<frame, stage, objList, doomed, deleted, running>>
        /\ Acting /\ m \in InHeap /\ m # running /\ (delay = 0 => Phase[m] = NORMAL)
    BY DEF Awaken
  <1>2. Indexed(heap) /\ Ordered(heap, next, 1)
    BY DEF IInv, HeapInv
  <1>3. m \in Held(heap)
    BY <1>1, InHeapIsHeld
  <1>4. k \in 1 .. Len(heap.list) /\ heap.list[k] = m
    BY <1>2, <1>3 DEF Indexed, Held
  <1>5. delay \in Nat
    BY SleepyAssumption
  <1>6. next \in [Module -> 0 .. Forever]
    BY DEF IInv, TypeOK
  <1>7. /\ next' \in [Module -> 0 .. Forever] /\ next'[m] = Capped(frame + delay)
        /\ \A x \in Module : x # m => next'[x] = next[x]
    BY <1>1, <1>5, <1>6, CappedLater
  <1>8. next \in Times /\ next' \in Times
    BY <1>6, <1>7, SleepyAssumption DEF Times
  <1> HIDE DEF k
  <1>9. OrderedBut(heap, next', 1, k)
    BY <1>2, <1>4, <1>7, <1>8, OthersInOrder
  <1>10. /\ Indexed(heap') /\ Held(heap') = Held(heap) /\ Len(heap'.list) = Len(heap.list)
         /\ Ordered(heap', next', 1)
         /\ k # 1 /\ InOrder(next', heap, 1, k) => heap'.list[1] = heap.list[1]
    <2> DEFINE g == rebalance(heap, next', k)
    <2>1. /\ Indexed(g) /\ Held(g) = Held(heap) /\ Len(g.list) = Len(heap.list)
          /\ OrderedBut(heap, next', 1, k) => Ordered(g, next', 1)
          /\ k # 1 /\ InOrder(next', heap, 1, k) => g.list[1] = heap.list[1]
      BY <1>2, <1>4, <1>8, Rebalance, Zenon
    <2> HIDE DEF g
    <2>2. heap' = g
      BY <1>1 DEF g
    <2> QED BY <2>1, <2>2, <1>9
  <1>11. TypeOK'
    BY <1>1, <1>7, <1>10 DEF IInv, TypeOK, Indexed
  <1>12. ObjectsInv'
    BY <1>1 DEF IInv, ObjectsInv
  <1>13. HeapInv'
    <2>1. Held(heap') = {x \in Module : Owner[x] \in ToSet(objList')}
      BY <1>1, <1>10 DEF IInv, HeapInv
    <2> QED BY <2>1, <1>10 DEF HeapInv
  <1>14. RunningInv'
    <2> SUFFICES ASSUME running # None
                 PROVE  /\ stage = "loop" /\ heap'.list # <<>>
                        /\ heap'.list[1] = running /\ next'[running] <= frame
      BY <1>1 DEF RunningInv
    <2>1. /\ stage = "loop" /\ heap.list # <<>> /\ heap.list[1] = running
          /\ next[running] <= frame /\ running \in Module
      BY DEF IInv, RunningInv, TypeOK
    <2>2. next'[running] = next[running]
      BY <2>1, <1>1, <1>7
    <2>3. next'[m] > frame \/ (next'[m] = frame /\ Phase[m] = NORMAL)
      <3>1. delay = 0 \/ delay > 0
        BY <1>5
      <3>2. /\ delay = 0 => Capped(frame + delay) = frame
            /\ delay > 0 => Capped(frame + delay) > frame
        BY <1>5, CappedLater
      <3> QED BY <3>1, <3>2, <1>1, <1>7, Zenon
    <2>4. Priority(next', running) <= Priority(next', m)
      BY <2>2, <2>3, <1>1, <1>8, NotBeforeRunning
    <2>5. k # 1 /\ InOrder(next', heap, 1, k)
      BY <2>1, <2>4, <1>1, <1>4 DEF InOrder
    <2>6. heap'.list # <<>>
      <3>1. heap.list \in Seq(Module) /\ heap'.list \in Seq(Module)
        BY <1>2, <1>10 DEF Indexed, Heaps
      <3> QED BY <3>1, <2>1, <1>10
    <2> QED BY <2>1, <2>2, <2>5, <2>6, <1>10
  <1> QED BY <1>11, <1>12, <1>13, <1>14 DEF IInv

LEMMA CreateObjectKeeps ==
  ASSUME IInv, NEW o \in Objects, CreateObject(o)
  PROVE  IInv'
  <1> DEFINE ms == Modules[o]
  <1>1. /\ objList' = <<o>> \o objList /\ heap' = pushAll(heap, next', ms)
        /\ UNCHANGED <<frame, stage, doomed, deleted, running>>
        /\ Acting /\ o \notin ToSet(objList) \cup deleted
    BY DEF CreateObject
  <1>2. PICK first \in [ToSet(ms) -> 0 .. Forever] :
          /\ \A m \in DOMAIN first : first[m] \in FirstFrames(m)
          /\ next' = [m \in Module |-> IF Owner[m] = o THEN first[m] ELSE next[m]]
    BY DEF CreateObject
  <1>3. Indexed(heap) /\ Ordered(heap, next, 1) /\ Held(heap) = {m \in Module : Owner[m] \in ToSet(objList)}
    BY DEF IInv, HeapInv
  <1>4. /\ ms \in Seq(Module) /\ IsInjective(ms)
        /\ ToSet(ms) = {m \in Module : Owner[m] = o} /\ ToSet(ms) \cap Held(heap) = {}
    BY <1>1, <1>3, SleepyAssumption
  <1>5. next \in [Module -> 0 .. Forever]
    BY DEF IInv, TypeOK
  <1> HIDE DEF ms
  <1>6. next' \in [Module -> 0 .. Forever] /\ \A m \in Module : Owner[m] # o => next'[m] = next[m]
    BY <1>2, <1>4, <1>5
  <1>7. next \in Times /\ next' \in Times
    BY <1>5, <1>6, SleepyAssumption DEF Times
  <1>8. \A m \in ToSet(ms) : next'[m] > frame \/ (next'[m] = frame /\ Phase[m] = NORMAL)
    <2> SUFFICES ASSUME NEW m \in ToSet(ms)
                 PROVE  next'[m] > frame \/ (next'[m] = frame /\ Phase[m] = NORMAL)
      OBVIOUS
    <2>1. next'[m] \in FirstFrames(m)
      BY <1>2, <1>4
    <2>2. CASE Phase[m] = NORMAL /\ next'[m] = Now
      BY <2>2, Types DEF Now
    <2>3. ASSUME NEW d \in Delays, next'[m] = Capped(frame + d)
          PROVE  next'[m] > frame
      <3>1. d \in Nat /\ d > 0
        BY SleepyAssumption
      <3> QED BY <2>3, <3>1, CappedLater
    <2>4. (\E d \in Delays : next'[m] = Capped(frame + d)) \/ (Phase[m] = NORMAL /\ next'[m] = Now)
      BY <2>1 DEF FirstFrames
    <2> QED BY <2>2, <2>3, <2>4
  <1>9. Ordered(heap, next', 1)
    <2>1. \A j \in 1 .. Len(heap.list) : heap.list[j] \in Module /\ Owner[heap.list[j]] # o
      <3>1. \A j \in 1 .. Len(heap.list) : heap.list[j] \in Held(heap)
        <4>1. DOMAIN heap.list = 1 .. Len(heap.list) /\ ToSet(heap.list) = Held(heap)
          BY <1>3, HeldAreListed, ListTypes, <1>7
        <4> QED BY <4>1 DEF ToSet
      <3> QED BY <3>1, <1>1, <1>3
    <2>2. \A j \in 1 .. Len(heap.list) : Priority(next', heap.list[j]) = Priority(next, heap.list[j])
      BY <2>1, <1>6 DEF Priority
    <2> QED BY <2>2, <1>3 DEF Ordered, InOrder
  <1>10. /\ Indexed(heap') /\ Held(heap') = Held(heap) \cup ToSet(ms) /\ Ordered(heap', next', 1)
         /\ heap.list # <<>> /\ (\A m \in ToSet(ms) : Priority(next', heap.list[1]) <= Priority(next', m)) =>
              heap'.list[1] = heap.list[1]
    <2> DEFINE g == pushAll(heap, next', ms)
    <2>1. /\ Indexed(g) /\ Held(g) = Held(heap) \cup ToSet(ms)
          /\ Ordered(heap, next', 1) => Ordered(g, next', 1)
          /\ heap.list # <<>> /\ (\A m \in ToSet(ms) : Priority(next', heap.list[1]) <= Priority(next', m)) =>
               g.list[1] = heap.list[1]
      BY <1>3, <1>4, <1>7, PushAll, Zenon
    <2> HIDE DEF g
    <2>2. heap' = g
      BY <1>1 DEF g
    <2> QED BY <2>1, <2>2, <1>9
  <1>11. /\ objList' \in Seq(Objects) /\ IsInjective(objList') /\ ToSet(objList') = {o} \cup ToSet(objList)
    BY <1>1, AddedFacts, Types DEF IInv, ObjectsInv
  <1>12. TypeOK'
    BY <1>1, <1>6, <1>10, <1>11 DEF IInv, TypeOK, Indexed
  <1>13. ObjectsInv'
    BY <1>1, <1>11 DEF IInv, ObjectsInv
  <1>14. HeapInv'
    BY <1>3, <1>4, <1>10, <1>11 DEF HeapInv
  <1>15. RunningInv'
    <2> SUFFICES ASSUME running # None
                 PROVE  /\ stage = "loop" /\ heap'.list # <<>>
                        /\ heap'.list[1] = running /\ next'[running] <= frame
      BY <1>1 DEF RunningInv
    <2>1. /\ stage = "loop" /\ heap.list # <<>> /\ heap.list[1] = running
          /\ next[running] <= frame /\ running \in Module
      BY DEF IInv, RunningInv, TypeOK
    <2>2. heap.list \in Seq(Module) /\ heap'.list \in Seq(Module)
      BY <1>3, <1>10 DEF Indexed, Heaps
    <2>3. running \in Held(heap)
      BY <2>1, <2>2, <1>3, HeldAreListed DEF ToSet
    <2>4. next'[running] = next[running]
      BY <2>1, <2>3, <1>1, <1>3, <1>6
    <2>5. \A m \in ToSet(ms) : Priority(next', running) <= Priority(next', m)
      BY <2>1, <2>4, <1>1, <1>4, <1>7, <1>8, NotBeforeRunning
    <2>6. heap'.list # <<>>
      BY <2>3, <1>10, HeldIsSomewhere
    <2> QED BY <2>1, <2>4, <2>5, <2>6, <1>10
  <1> QED BY <1>12, <1>13, <1>14, <1>15 DEF IInv

LEMMA DestroyObjectKeeps ==
  ASSUME IInv, NEW o \in Objects, DestroyObject(o)
  PROVE  IInv'
  <1>1. /\ doomed' = Append(doomed, o) /\ o \in ToSet(objList) /\ o \notin ToSet(doomed)
        /\ UNCHANGED <<frame, stage, objList, deleted, next, heap, running>>
    BY DEF DestroyObject
  <1>2. doomed \in Seq(Objects) /\ IsInjective(doomed) /\ ToSet(doomed) \subseteq ToSet(objList)
    BY DEF IInv, TypeOK, ObjectsInv
  <1>3. /\ doomed' \in Seq(Objects) /\ Len(doomed') = Len(doomed) + 1 /\ Len(doomed) \in Nat
        /\ doomed'[Len(doomed) + 1] = o
        /\ \A i \in 1 .. Len(doomed) : doomed'[i] = doomed[i]
        /\ DOMAIN doomed = 1 .. Len(doomed) /\ DOMAIN doomed' = 1 .. Len(doomed')
    BY <1>1, <1>2
  <1>4. \A i \in 1 .. Len(doomed') : i \in 1 .. Len(doomed) \/ i = Len(doomed) + 1
    BY <1>3
  <1>5. ToSet(doomed') \subseteq ToSet(objList)
    BY <1>1, <1>2, <1>3, <1>4 DEF ToSet
  <1>6. \A i \in 1 .. Len(doomed) : doomed[i] # o
    BY <1>1, <1>3 DEF ToSet
  <1>7. IsInjective(doomed')
    BY <1>2, <1>3, <1>4, <1>6 DEF IsInjective
  <1> QED BY <1>1, <1>3, <1>5, <1>7 DEF IInv, TypeOK, ObjectsInv, HeapInv, RunningInv

LEMMA SimpleStepsKeep ==
  IInv /\ (CallUpdate \/ EndUpdates \/ StartDestroying \/ NextFrame) => IInv'
  <1> SUFFICES ASSUME IInv, CallUpdate \/ EndUpdates \/ StartDestroying \/ NextFrame
               PROVE  IInv'
    OBVIOUS
  <1>1. UNCHANGED <<objList, doomed, deleted, next, heap>>
    BY DEF CallUpdate, EndUpdates, StartDestroying, NextFrame
  <1>2. ObjectsInv' /\ HeapInv'
    BY <1>1 DEF IInv, ObjectsInv, HeapInv
  <1>3. CASE CallUpdate
    <2>1. /\ stage = "loop" /\ heap.list # <<>> /\ next[heap.list[1]] <= frame
          /\ running' = heap.list[1] /\ UNCHANGED <<frame, stage>>
      BY <1>3 DEF CallUpdate, NextUpdate
    <2>2. heap.list[1] \in Module
      BY <2>1 DEF IInv, TypeOK, Heaps
    <2>3. TypeOK'
      BY <1>1, <2>1, <2>2 DEF IInv, TypeOK
    <2>4. RunningInv'
      BY <1>1, <2>1 DEF RunningInv
    <2> QED BY <1>2, <2>3, <2>4 DEF IInv
  <1>4. CASE EndUpdates \/ StartDestroying
    <2>1. running = None /\ UNCHANGED <<frame, running>> /\ stage' \in {"after", "destroy"}
      BY <1>4 DEF EndUpdates, StartDestroying, IInv, RunningInv
    <2> QED BY <1>1, <1>2, <2>1 DEF IInv, TypeOK, RunningInv
  <1>5. CASE NextFrame
    <2>1. /\ running = None /\ UNCHANGED running /\ stage' = "before"
          /\ frame < MaxFrame /\ frame' = frame + 1
      BY <1>5 DEF NextFrame, IInv, RunningInv
    <2>2. frame' \in 0 .. MaxFrame
      BY <2>1, SleepyAssumption DEF IInv, TypeOK
    <2> QED BY <1>1, <1>2, <2>1, <2>2 DEF IInv, TypeOK, RunningInv
  <1> QED BY <1>3, <1>4, <1>5

\* The first one is put to sleep.
LEMMA RescheduledKeeps ==
  ASSUME IInv, heap.list # <<>>, NEW sleep \in Nat, Rescheduled(heap.list[1], sleep),
         UNCHANGED <<frame, stage, objList, doomed, deleted>>, running' = None
  PROVE  IInv'
  <1> DEFINE m == heap.list[1]
             g == rebalance(heap, next', 1)
  <1>1. Indexed(heap) /\ Ordered(heap, next, 1)
    BY DEF IInv, HeapInv
  <1>2. 1 \in 1 .. Len(heap.list) /\ m \in Module
    BY DEF IInv, TypeOK, Heaps
  <1>3. next' = [next EXCEPT ![m] = Capped(frame + sleep)] /\ heap' = g
    BY DEF Rescheduled
  <1>4. next \in [Module -> 0 .. Forever]
    BY DEF IInv, TypeOK
  <1> HIDE DEF g, m
  <1>5. next' \in [Module -> 0 .. Forever] /\ \A x \in Module : x # m => next'[x] = next[x]
    BY <1>2, <1>3, <1>4, CappedLater
  <1>6. next \in Times /\ next' \in Times
    BY <1>4, <1>5, SleepyAssumption DEF Times
  <1>7. OrderedBut(heap, next', 1, 1)
    BY <1>1, <1>2, <1>5, <1>6, OthersInOrder DEF m
  <1>8. Indexed(g) /\ Held(g) = Held(heap) /\ (OrderedBut(heap, next', 1, 1) => Ordered(g, next', 1))
    BY <1>1, <1>2, <1>6, Rebalance, Zenon DEF g
  <1>9. TypeOK'
    BY <1>3, <1>5, <1>8 DEF IInv, TypeOK, Indexed
  <1>10. HeapInv'
    BY <1>3, <1>7, <1>8 DEF IInv, HeapInv
  <1> QED BY <1>9, <1>10 DEF IInv, ObjectsInv, RunningInv

LEMMA SkipAndReturnKeep == IInv /\ (SkipUpdate \/ ReturnFromUpdate) => IInv'
  <1>1. ASSUME IInv, SkipUpdate
        PROVE  IInv'
    BY <1>1, RescheduledKeeps DEF SkipUpdate, NextUpdate
  <1>2. ASSUME IInv, ReturnFromUpdate
        PROVE  IInv'
    <2>1. PICK sleep \in Delays : Rescheduled(running, sleep)
      BY <1>2 DEF ReturnFromUpdate
    <2>2. heap.list # <<>> /\ heap.list[1] = running
      BY <1>2 DEF ReturnFromUpdate, IInv, RunningInv
    <2>3. sleep \in Nat
      BY SleepyAssumption
    <2> QED BY <1>2, <2>1, <2>2, <2>3, RescheduledKeeps DEF ReturnFromUpdate
  <1> QED BY <1>1, <1>2

LEMMA DestroyNextKeeps == IInv /\ DestroyNext => IInv'
  <1> SUFFICES ASSUME IInv, DestroyNext PROVE IInv'
    OBVIOUS
  <1> DEFINE o == Head(doomed)
             g == Erased(o)
  <1>1. /\ stage = "destroy" /\ doomed # <<>> /\ heap' = g
        /\ objList' = RemoveFirst(objList, o) /\ deleted' = deleted \cup {o} /\ doomed' = Tail(doomed)
        /\ UNCHANGED <<frame, stage, next, running>>
    BY DEF DestroyNext
  <1>2. /\ doomed \in Seq(Objects) /\ objList \in Seq(Objects)
        /\ IsInjective(objList) /\ IsInjective(doomed)
        /\ ToSet(doomed) \subseteq ToSet(objList) /\ deleted \cap ToSet(objList) = {}
        /\ deleted \subseteq Objects /\ \A x \in ToSet(objList) : x \in Objects
    <2>1. \A s \in Seq(Objects) : \A x \in ToSet(s) : x \in Objects
      BY DEF ToSet
    <2> QED BY <2>1 DEF IInv, TypeOK, ObjectsInv
  <1>3. /\ o \in ToSet(doomed) /\ doomed' \in Seq(Objects) /\ IsInjective(doomed')
        /\ ToSet(doomed') = ToSet(doomed) \ {o}
    BY <1>1, <1>2, TailFacts
  <1>4. /\ objList' \in Seq(Objects) /\ IsInjective(objList')
        /\ ToSet(objList') = ToSet(objList) \ {o}
    <2> HIDE DEF o
    <2> QED BY <1>1, <1>2, <1>3, RemoveFirstFacts
  <1>5. /\ Indexed(heap) /\ Ordered(heap, next, 1) /\ next \in Times
        /\ Held(heap) = {m \in Module : Owner[m] \in ToSet(objList)}
    BY Types DEF IInv, HeapInv
  <1> HIDE DEF o
  <1>6. Indexed(g) /\ Held(g) = Held(heap) \ {m \in Module : Owner[m] = o} /\ Ordered(g, next, 1)
    BY <1>5, EraseAll, Zenon
  <1> HIDE DEF g
  <1>7. running = None
    BY <1>1 DEF IInv, RunningInv
  <1>8. TypeOK'
    BY <1>1, <1>2, <1>3, <1>4, <1>6 DEF IInv, TypeOK, Indexed
  <1>9. ObjectsInv'
    BY <1>1, <1>2, <1>3, <1>4 DEF ObjectsInv
  <1>10. HeapInv'
    BY <1>1, <1>4, <1>5, <1>6 DEF HeapInv
  <1>11. RunningInv'
    BY <1>1, <1>7 DEF RunningInv
  <1> QED BY <1>8, <1>9, <1>10, <1>11 DEF IInv

LEMMA LoadGameKeeps == IInv /\ LoadGame => IInv'
  <1> SUFFICES ASSUME IInv, LoadGame PROVE IInv'
    OBVIOUS
  <1> DEFINE ms == Listed(Reverse(objList))
             at == [m \in Module |-> IF m \in ToSet(ms) THEN CHOOSE i \in 1 .. Len(ms) : ms[i] = m ELSE 0]
             h == [list |-> ms, at |-> at]
             g == remake(h, next)
  <1>1. /\ stage = "before" /\ ms # <<>> /\ objList' = Reverse(objList) /\ heap' = g
        /\ UNCHANGED <<frame, stage, doomed, deleted, next, running>>
    BY DEF LoadGame
  <1>2. objList \in Seq(Objects) /\ IsInjective(objList) /\ next \in Times
    BY Types DEF IInv, ObjectsInv
  <1>3. /\ objList' \in Seq(Objects) /\ IsInjective(objList') /\ ToSet(objList') = ToSet(objList)
    BY <1>1, <1>2, ReverseFacts
  <1>4. /\ ms \in Seq(Module) /\ IsInjective(ms) /\ ToSet(ms) = {m \in Module : Owner[m] \in ToSet(objList)}
    <2> DEFINE objs == Reverse(objList)
    <2>1. objs \in Seq(Objects) /\ IsInjective(objs) /\ ToSet(objs) = ToSet(objList)
      BY <1>1, <1>3
    <2> HIDE DEF objs
    <2>2. /\ Listed(objs) \in Seq(Module) /\ IsInjective(Listed(objs))
          /\ ToSet(Listed(objs)) = {m \in Module : Owner[m] \in ToSet(objList)}
      BY <2>1, ListAll
    <2> QED BY <2>2 DEF objs
  <1> HIDE DEF ms
  <1>5. DOMAIN ms = 1 .. Len(ms) /\ Len(ms) \in Nat /\ \A i \in 1 .. Len(ms) : ms[i] \in ToSet(ms) /\ ms[i] \in Module
    BY <1>4 DEF ToSet
  <1>6. \A m \in ToSet(ms) : at[m] \in 1 .. Len(ms) /\ ms[at[m]] = m
    <2> TAKE m \in ToSet(ms)
    <2>1. m \in Module /\ \E i \in 1 .. Len(ms) : ms[i] = m
      BY <1>4, <1>5 DEF ToSet
    <2>2. at[m] = CHOOSE i \in 1 .. Len(ms) : ms[i] = m
      BY <2>1
    <2> HIDE DEF at
    <2> QED BY <2>1, <2>2
  <1>7. \A m \in Module : m \notin ToSet(ms) => at[m] = 0
    OBVIOUS
  <1>8. at \in [Module -> Nat]
    <2>1. \A m \in Module : at[m] \in Nat
      <3> HIDE DEF at
      <3> QED BY <1>5, <1>6, <1>7
    <2>2. at = [m \in Module |-> at[m]]
      OBVIOUS
    <2> HIDE DEF at
    <2> QED BY <2>1, <2>2
  <1> HIDE DEF at
  <1>9. h.list = ms /\ h.at = at /\ h \in Heaps
    BY <1>4, <1>8 DEF Heaps
  <1> HIDE DEF h
  <1>10. Indexed(h)
    <2>1. \A i \in 1 .. Len(ms) : at[ms[i]] = i
      BY <1>4, <1>5, <1>6 DEF IsInjective
    <2>2. \A m \in Module : at[m] # 0 => at[m] \in 1 .. Len(ms) /\ ms[at[m]] = m
      BY <1>6, <1>7
    <2> QED BY <2>1, <2>2, <1>9 DEF Indexed
  <1>11. Held(h) = ToSet(ms)
    BY <1>4, <1>5, <1>6, <1>7, <1>9 DEF Held
  <1>12. Indexed(g) /\ Held(g) = Held(h) /\ Ordered(g, next, 1)
    BY <1>1, <1>2, <1>9, <1>10, Remake, Zenon
  <1> HIDE DEF g
  <1>13. running = None
    BY <1>1 DEF IInv, RunningInv
  <1>14. TypeOK'
    BY <1>1, <1>3, <1>12 DEF IInv, TypeOK, Indexed
  <1>15. ObjectsInv'
    BY <1>1, <1>3 DEF IInv, ObjectsInv
  <1>16. HeapInv'
    BY <1>1, <1>3, <1>4, <1>11, <1>12 DEF HeapInv
  <1>17. RunningInv'
    BY <1>1, <1>13 DEF RunningInv
  <1> QED BY <1>14, <1>15, <1>16, <1>17 DEF IInv

LEMMA NextIInv ==
  ASSUME IInv, [Next]_vars
  PROVE  IInv'
  <1>1. CASE Next
    BY <1>1, StartUpdatesKeeps, AwakenKeeps, CreateObjectKeeps, DestroyObjectKeeps, SimpleStepsKeep,
       SkipAndReturnKeep, DestroyNextKeeps, LoadGameKeeps, Zenon DEF Next
  <1>2. CASE UNCHANGED vars
    BY <1>2 DEF vars, IInv, TypeOK, ObjectsInv, HeapInv, RunningInv
  <1> QED BY <1>1, <1>2

LEMMA Invariance == Spec => []IInv
  BY InitIInv, NextIInv, PTL DEF Spec

-----------------------------------------------------------------------------
(* What the schedule needs of the heap.                                       *)

LEMMA Scheduled == IInv => InHeap = {m \in Module : Owner[m] \in ToSet(objList)}
  BY InHeapIsHeld DEF IInv, HeapInv

LEMMA ScheduledNext == IInv' => InHeap' = {m \in Module : Owner[m] \in ToSet(objList')}
  <1>1. (IInv => InHeap = {m \in Module : Owner[m] \in ToSet(objList)})'
    BY Scheduled, PTL
  <1> QED BY <1>1

\* The root comes first.
LEMMA RootIsFirst ==
  ASSUME IInv, NEW m \in InHeap
  PROVE  /\ heap.list # <<>> /\ heap.list[1] \in InHeap
         /\ Priority(next, heap.list[1]) <= Priority(next, m)
  <1> DEFINE N == Len(heap.list)
             P(i) == Priority(next, heap.list[i])
             Below == {i \in 1 .. N : ~ (P(1) <= P(i))}
  <1>1. /\ Indexed(heap) /\ Ordered(heap, next, 1) /\ next \in Times
    BY Types DEF IInv, HeapInv
  <1>2. /\ heap.list \in Seq(Module) /\ N \in Nat /\ DOMAIN heap.list = 1 .. N
        /\ \A i \in 1 .. N : P(i) \in Nat
    BY <1>1, ListTypes
  <1>3. PICK k \in 1 .. N : heap.list[k] = m
    BY <1>2 DEF InHeap, ToSet
  <1>4. 1 \in 1 .. N
    BY <1>2, <1>3
  <1>5. Below = {}
    <2> SUFFICES ASSUME Below # {} PROVE FALSE
      OBVIOUS
    <2>1. PICK i \in Below : \A j \in Below : i <= j
      <3>1. Below \in SUBSET Nat
        OBVIOUS
      <3> HIDE DEF Below
      <3> QED BY <3>1, LeastNatural
    <2>2. i \in 1 .. N /\ ~ (P(1) <= P(i))
      BY <2>1
    <2>3. i # 1
      BY <1>2, <1>4, <2>2
    <2>4. i \div 2 \in 1 .. N /\ Child(i \div 2, i) /\ i \div 2 < i
      <3>1. i \div 2 \in Nat /\ Child(i \div 2, i) /\ i \div 2 < i
        BY <2>2, Halves
      <3>2. i \div 2 # 0
        BY <2>2, <2>3
      <3> QED BY <3>1, <3>2, <2>2, <1>2
    <2>5. P(i \div 2) <= P(i)
      BY <2>2, <2>4, <1>1 DEF Ordered, InOrder
    <2>6. i \div 2 \notin Below
      BY <2>1, <2>2, <2>4
    <2>7. P(1) <= P(i \div 2)
      BY <2>4, <2>6
    <2> HIDE DEF P
    <2> QED BY <2>2, <2>4, <2>5, <2>7, <1>2, <1>4
  <1>6. P(1) <= P(k)
    BY <1>5
  <1>7. heap.list # <<>>
    BY <1>2, <1>3
  <1> QED BY <1>2, <1>3, <1>4, <1>6, <1>7 DEF InHeap, ToSet

LEMMA HigherIsNotAfter ==
  ASSUME IInv, NEW m \in Module, NEW n \in Module, Priority(next, m) <= Priority(next, n)
  PROVE  ~ Schedule!Before(n, m) /\ next[m] <= next[n]
  <1>1. /\ Priority(next, m) = 4 * next[m] + Phase[m] /\ Priority(next, n) = 4 * next[n] + Phase[n]
        /\ next[m] \in Nat /\ next[n] \in Nat /\ Phase[m] \in 0 .. 3 /\ Phase[n] \in 0 .. 3
    BY Types, SleepyAssumption DEF Times, Priority
  <1>2. Schedule!Before(n, m) <=> next[n] < next[m] \/ (next[n] = next[m] /\ Phase[n] < Phase[m])
    BY DEF Schedule!Before
  <1>3. 4 * next[m] + Phase[m] <= 4 * next[n] + Phase[n]
    BY <1>1
  <1>4. next[m] <= next[n] /\ (next[n] = next[m] => Phase[m] <= Phase[n])
    BY <1>1, <1>3
  <1> QED BY <1>1, <1>2, <1>4

-----------------------------------------------------------------------------
(* Every step is one of the schedule's, or none.                              *)

LEMMA InitIsScheduled == Init => Schedule!Init
  BY DEF Init, EmptyHeap, InHeap, ToSet, Schedule!Init

LEMMA StartIsStart == StartUpdates => Schedule!StartCalls
  BY DEF StartUpdates, InHeap, Schedule!StartCalls

\* Who is called is due and nobody is before him.
LEMMA FirstIsDue ==
  ASSUME IInv, NextUpdate
  PROVE  /\ heap.list[1] \in Module /\ Schedule!Due(heap.list[1])
         /\ \A n \in InHeap : ~ Schedule!Before(n, heap.list[1])
         /\ stage = "loop" /\ running = None
  <1>1. stage = "loop" /\ running = None /\ heap.list # <<>> /\ next[heap.list[1]] <= frame
    BY DEF NextUpdate
  <1>2. heap.list \in Seq(Module)
    BY DEF IInv, TypeOK, Heaps
  <1>3. heap.list[1] \in Module /\ heap.list[1] \in InHeap
    BY <1>1, <1>2 DEF InHeap, ToSet
  <1>4. \A n \in InHeap : n \in Module
    BY <1>2 DEF InHeap, ToSet
  <1>5. \A n \in InHeap : ~ Schedule!Before(n, heap.list[1])
    BY <1>3, <1>4, RootIsFirst, HigherIsNotAfter
  <1> QED BY <1>1, <1>3, <1>5 DEF Schedule!Due

LEMMA CallIsCall == IInv /\ CallUpdate => \E m \in Module : Schedule!Call(m)
  <1> SUFFICES ASSUME IInv, CallUpdate PROVE Schedule!Call(heap.list[1])
    BY FirstIsDue DEF CallUpdate
  <1> QED BY FirstIsDue DEF CallUpdate, Schedule!Call, InHeap

LEMMA SkipIsSkip == IInv /\ IInv' /\ SkipUpdate => \E m \in Module : Schedule!Skip(m)
  <1> SUFFICES ASSUME IInv, IInv', SkipUpdate PROVE Schedule!Skip(heap.list[1])
    BY FirstIsDue DEF SkipUpdate
  <1>1. InHeap' = InHeap
    BY Scheduled, ScheduledNext DEF SkipUpdate
  <1> QED BY <1>1, FirstIsDue DEF SkipUpdate, Rescheduled, Capped, Schedule!Skip, Schedule!Capped

LEMMA ReturnIsReturn ==
  IInv /\ IInv' /\ ReturnFromUpdate => \E sleep \in 1 .. Forever : Schedule!Return(sleep)
  <1> SUFFICES ASSUME IInv, IInv', ReturnFromUpdate
               PROVE  \E sleep \in 1 .. Forever : Schedule!Return(sleep)
    OBVIOUS
  <1>1. PICK sleep \in Delays : Rescheduled(running, sleep)
    BY DEF ReturnFromUpdate
  <1>2. sleep \in 1 .. Forever
    BY SleepyAssumption
  <1>3. InHeap' = InHeap
    BY Scheduled, ScheduledNext DEF ReturnFromUpdate
  <1>4. Schedule!Return(sleep)
    BY <1>1, <1>3 DEF ReturnFromUpdate, Rescheduled, Capped, Schedule!Return, Schedule!Capped
  <1> QED BY <1>2, <1>4

LEMMA EndIsEnd == IInv /\ EndUpdates => Schedule!EndCalls
  <1> SUFFICES ASSUME IInv, EndUpdates PROVE Schedule!EndCalls
    OBVIOUS
  <1>1. /\ stage = "loop" /\ running = None /\ ~ NextUpdate /\ stage' = "after"
        /\ UNCHANGED <<frame, objList, doomed, deleted, next, heap, running>>
    BY DEF EndUpdates
  <1>2. ASSUME NEW m \in InHeap, next[m] <= frame
        PROVE  FALSE
    <2>1. heap.list # <<>> /\ Priority(next, heap.list[1]) <= Priority(next, m)
      BY RootIsFirst
    <2>2. heap.list[1] \in Module /\ m \in Module
      BY <2>1 DEF InHeap, ToSet, IInv, TypeOK, Heaps
    <2>3. next[heap.list[1]] <= next[m]
      BY <2>1, <2>2, HigherIsNotAfter
    <2>4. next[heap.list[1]] \in Nat /\ next[m] \in Nat /\ frame \in Nat
      BY <2>2, Types DEF Times
    <2>5. next[heap.list[1]] <= frame
      BY <1>2, <2>3, <2>4
    <2> QED BY <1>1, <2>1, <2>5 DEF NextUpdate
  <1> QED BY <1>1, <1>2 DEF InHeap, Schedule!EndCalls, Schedule!Due

LEMMA AwakenIsWake ==
  ASSUME IInv, IInv', NEW m \in Module, NEW delay \in Delays \cup {0}, Awaken(m, delay)
  PROVE  \E when \in frame .. frame + Forever : Schedule!Wake(m, when)
  <1>1. frame + delay \in frame .. frame + Forever
    BY SleepyAssumption, Types
  <1>2. InHeap' = InHeap
    BY Scheduled, ScheduledNext DEF Awaken
  <1>3. Schedule!Wake(m, frame + delay)
    BY <1>2 DEF Awaken, AlreadyAwake, Capped, Schedule!Wake, Schedule!Capped
  <1> QED BY <1>1, <1>3

LEMMA CreateIsEnter ==
  ASSUME IInv, IInv', NEW o \in Objects, CreateObject(o)
  PROVE  \E ms \in SUBSET Module : Schedule!Enter(ms)
  <1> DEFINE ms == {m \in Module : Owner[m] = o}
  <1>1. /\ objList' = <<o>> \o objList /\ o \notin ToSet(objList)
        /\ UNCHANGED <<frame, stage, doomed, deleted, running>>
    BY DEF CreateObject
  <1>2. ToSet(objList') = {o} \cup ToSet(objList)
    BY <1>1, AddedFacts, Types DEF IInv, ObjectsInv
  <1>3. ms \subseteq Module \ InHeap /\ InHeap' = InHeap \cup ms
    BY <1>1, <1>2, Scheduled, ScheduledNext
  <1>4. next' \in [Module -> 0 .. Forever]
    BY DEF IInv, TypeOK
  <1>5. PICK first \in [ToSet(Modules[o]) -> 0 .. Forever] :
          /\ \A m \in DOMAIN first : first[m] \in FirstFrames(m)
          /\ next' = [m \in Module |-> IF Owner[m] = o THEN first[m] ELSE next[m]]
    BY DEF CreateObject
  <1>6. ToSet(Modules[o]) = ms
    BY SleepyAssumption
  <1>7. ASSUME NEW m \in Module
        PROVE  IF m \in ms THEN next'[m] >= frame ELSE next'[m] = next[m]
    <2>1. CASE m \in ms
      <3>1. next'[m] \in FirstFrames(m)
        BY <2>1, <1>5, <1>6
      <3>2. Now >= frame
        BY Types DEF Now
      <3>3. \A d \in Delays : Capped(frame + d) >= frame
        <4>1. \A d \in Delays : d \in Nat
          BY SleepyAssumption
        <4> QED BY <4>1, CappedLater
      <3> QED BY <2>1, <3>1, <3>2, <3>3 DEF FirstFrames
    <2>2. CASE m \notin ms
      BY <2>2, <1>5
    <2> QED BY <2>1, <2>2
  <1> HIDE DEF ms
  <1>8. Schedule!Enter(ms)
    BY <1>1, <1>3, <1>4, <1>7 DEF Schedule!Enter
  <1> QED BY <1>3, <1>8

LEMMA DestroyIsLeave == IInv /\ IInv' /\ DestroyNext => \E ms \in SUBSET Module : Schedule!Leave(ms)
  <1> SUFFICES ASSUME IInv, IInv', DestroyNext
               PROVE  \E ms \in SUBSET Module : Schedule!Leave(ms)
    OBVIOUS
  <1> DEFINE o == Head(doomed)
             ms == {m \in Module : Owner[m] = o}
  <1>1. /\ stage = "destroy" /\ doomed # <<>> /\ objList' = RemoveFirst(objList, o)
        /\ UNCHANGED <<frame, stage, next, running>>
    BY DEF DestroyNext
  <1>2. o \in ToSet(objList)
    BY <1>1, TailFacts, Types DEF IInv, ObjectsInv
  <1>3. ToSet(objList') = ToSet(objList) \ {o}
    <2> HIDE DEF o
    <2> QED BY <1>1, <1>2, RemoveFirstFacts, Types DEF IInv, ObjectsInv
  <1>4. InHeap' = InHeap \ ms
    BY <1>3, Scheduled, ScheduledNext
  <1>5. Schedule!Leave(ms)
    BY <1>1, <1>4 DEF Schedule!Leave
  <1> QED BY <1>5

LEMMA OthersStutter ==
  IInv /\ IInv' /\ (StartDestroying \/ LoadGame \/ (\E o \in Objects : DestroyObject(o)) \/ UNCHANGED vars)
    => UNCHANGED <<frame, IF stage = "destroy" THEN "after" ELSE stage, InHeap, next, running>>
  <1> SUFFICES ASSUME IInv, IInv',
                      StartDestroying \/ LoadGame \/ (\E o \in Objects : DestroyObject(o)) \/ UNCHANGED vars
               PROVE  UNCHANGED <<frame, IF stage = "destroy" THEN "after" ELSE stage, InHeap, next, running>>
    OBVIOUS
  <1>1. ToSet(objList') = ToSet(objList)
    BY ReverseFacts, Types DEF IInv, ObjectsInv, StartDestroying, LoadGame, DestroyObject, vars
  <1>2. InHeap' = InHeap
    BY <1>1, Scheduled, ScheduledNext
  <1> QED BY <1>2 DEF StartDestroying, LoadGame, DestroyObject, vars

LEMMA StepIsScheduled ==
  ASSUME IInv, IInv', [Next]_vars
  PROVE  [Schedule!Next]_(Schedule!vars)
  <1>1. CASE StartUpdates
    BY <1>1, StartIsStart DEF Schedule!Next
  <1>2. CASE CallUpdate
    BY <1>2, CallIsCall DEF Schedule!Next
  <1>3. CASE SkipUpdate
    BY <1>3, SkipIsSkip DEF Schedule!Next
  <1>4. CASE ReturnFromUpdate
    BY <1>4, ReturnIsReturn DEF Schedule!Next
  <1>5. CASE EndUpdates
    BY <1>5, EndIsEnd DEF Schedule!Next
  <1>6. CASE DestroyNext
    BY <1>6, DestroyIsLeave DEF Schedule!Next
  <1>7. CASE NextFrame
    <2>1. /\ stage = "destroy" /\ stage' = "before" /\ frame < MaxFrame /\ frame' = frame + 1
          /\ UNCHANGED <<objList, doomed, deleted, next, heap, running>>
      BY <1>7 DEF NextFrame
    <2>2. Schedule!NextFrame
      BY <2>1, Types DEF InHeap, Schedule!NextFrame
    <2> QED BY <2>2 DEF Schedule!Next
  <1>8. ASSUME NEW m \in Module, NEW delay \in Delays \cup {0}, Awaken(m, delay)
        PROVE  Schedule!Next
    BY <1>8, AwakenIsWake DEF Schedule!Next
  <1>9. ASSUME NEW o \in Objects, CreateObject(o)
        PROVE  Schedule!Next
    BY <1>9, CreateIsEnter DEF Schedule!Next
  <1>10. CASE StartDestroying \/ LoadGame \/ (\E o \in Objects : DestroyObject(o)) \/ UNCHANGED vars
    BY <1>10, OthersStutter DEF Schedule!vars
  <1> QED BY <1>1, <1>2, <1>3, <1>4, <1>5, <1>6, <1>7, <1>8, <1>9, <1>10 DEF Next

-----------------------------------------------------------------------------
(* The theorems.                                                              *)

\* The variables of the game logic's scheduler keep their types, whatever wakes,
\* creates and destroys modules and however they are put into the heap.
THEOREM TypeCorrectness == Spec => []TypeOK
  <1>1. IInv => TypeOK
    BY DEF IInv
  <1> QED BY <1>1, Invariance, PTL

\* The vector m_sleepyUpdates is a heap with every module's m_indexInLogic in it
\* after every rebalanceSleepyUpdate, pushSleepyUpdate, eraseSleepyUpdate and
\* remakeSleepyUpdate, for any number of modules: what validateSleepyUpdate asserts.
THEOREM HeapStaysValid == Spec => []ValidHeap
  <1>1. IInv => ValidHeap
    <2> SUFFICES ASSUME IInv PROVE ValidHeap
      OBVIOUS
    <2>1. Indexed(heap) /\ Ordered(heap, next, 1)
      BY DEF IInv, HeapInv
    <2>2. heap.list \in Seq(Module) /\ Len(heap.list) \in Nat
      BY <2>1 DEF Indexed, Heaps
    <2>3. ASSUME NEW i \in 1 .. Len(heap.list), i > 1
          PROVE  Priority(next, heap.list[i \div 2]) <= Priority(next, heap.list[i])
      <3>1. i \div 2 \in 1 .. Len(heap.list) /\ Child(i \div 2, i)
        <4>1. i \div 2 \in Nat /\ Child(i \div 2, i) /\ i \div 2 < i
          BY Halves
        <4>2. i \div 2 # 0
          BY <2>3
        <4> QED BY <4>1, <4>2, <2>2
      <3> QED BY <3>1, <2>1 DEF Ordered, InOrder
    <2> QED BY <2>1, <2>3 DEF ValidHeap, Indexed
  <1> QED BY <1>1, Invariance, PTL

\* While an update runs its module stays at the root, where GameLogic::update
\* rebalances it from when it returns: nothing the update can do moves it.
THEOREM RunningStaysFirst == Spec => []RunningIsFirst
  <1>1. IInv => RunningIsFirst
    BY DEF IInv, RunningInv, RunningIsFirst
  <1> QED BY <1>1, Invariance, PTL

\* No module of an object in the list is ever missing in the heap, in it twice or
\* left there by processDestroyList.
THEOREM AllAreScheduled == Spec => []AllScheduled
  <1>1. IInv => AllScheduled
    <2> SUFFICES ASSUME IInv PROVE AllScheduled
      OBVIOUS
    <2>1. Indexed(heap)
      BY DEF IInv, HeapInv
    <2>2. InHeap = {m \in Module : Owner[m] \in ToSet(objList)}
      BY Scheduled
    <2>3. \A m \in Module : m \notin InHeap => heap.at[m] = 0
      BY InHeapIsHeld DEF Held
    <2>4. IsInjective(heap.list)
      <3>1. heap.list \in Seq(Module) /\ DOMAIN heap.list = 1 .. Len(heap.list)
        BY <2>1 DEF Indexed, Heaps
      <3> QED BY <3>1, <2>1 DEF Indexed, IsInjective
    <2> QED BY <2>2, <2>3, <2>4 DEF AllScheduled
  <1> QED BY <1>1, Invariance, PTL

\* The heap keeps the schedule UpdateSchedule states: whoever is called is the one
\* whose turn it is, and the loop ends only when nobody is due.
THEOREM HeapKeepsSchedule == Spec => ImplementsSchedule
  <1>1. Init => Schedule!Init
    BY InitIsScheduled
  <1>2. IInv /\ IInv' /\ [Next]_vars => [Schedule!Next]_(Schedule!vars)
    BY StepIsScheduled
  <1> QED BY <1>1, <1>2, Invariance, PTL DEF Spec, Schedule!Spec, ImplementsSchedule

-----------------------------------------------------------------------------
(* What the schedule promises, and with it the heap.                          *)

Part == IF stage = "destroy" THEN "after" ELSE stage

ScheduleInv == Schedule!TypeOK /\ Schedule!NobodyOverdue

LEMMA InitScheduleInv == Schedule!Init => ScheduleInv
  BY SleepyAssumption DEF Schedule!Init, ScheduleInv, Schedule!TypeOK, Schedule!NobodyOverdue

LEMMA CappedIsFrame ==
  ASSUME NEW f \in Nat
  PROVE  /\ Schedule!Capped(f) \in 0 .. Forever
         /\ \A g \in 0 .. Forever : f >= g => Schedule!Capped(f) >= g
  BY SleepyAssumption DEF Schedule!Capped

\* Whoever is woken, skipped or put to sleep, it is not for a frame that has gone.
LEMMA WokenInTime ==
  ASSUME ScheduleInv, NEW m \in Module, NEW f \in Nat, f >= frame,
         next' = [next EXCEPT ![m] = Schedule!Capped(f)],
         UNCHANGED <<frame, Part, InHeap>>, running' \in InHeap' \cup {None},
         running' # None => Part' = "loop"
  PROVE  ScheduleInv'
  <1> USE SleepyAssumption DEF Part
  <1>1. frame \in 0 .. Forever /\ next \in [Module -> 0 .. Forever] /\ InHeap \subseteq Module
    BY DEF ScheduleInv, Schedule!TypeOK
  <1>2. Schedule!Capped(f) \in 0 .. Forever /\ Schedule!Capped(f) >= frame
    BY <1>1, CappedIsFrame DEF ScheduleInv
  <1>3. next' \in [Module -> 0 .. Forever]
    BY <1>1, <1>2
  <1>4. Schedule!TypeOK'
    BY <1>3 DEF ScheduleInv, Schedule!TypeOK
  <1>5. ASSUME NEW n \in InHeap'
        PROVE  next'[n] >= (IF Part = "after" THEN frame ELSE frame - 1)'
    <2>1. n \in InHeap /\ next[n] >= IF Part = "after" THEN frame ELSE frame - 1
      BY DEF ScheduleInv, Schedule!NobodyOverdue
    <2>2. CASE n = m
      <3>1. next'[n] = Schedule!Capped(f)
        BY <1>1, <2>2
      <3> QED BY <3>1, <1>1, <1>2
    <2>3. CASE n # m
      <3>1. next'[n] = next[n]
        BY <1>1, <2>1, <2>3
      <3> QED BY <3>1, <2>1
    <2> QED BY <2>2, <2>3
  <1> QED BY <1>4, <1>5 DEF ScheduleInv, Schedule!NobodyOverdue

LEMMA NextScheduleInv ==
  ASSUME ScheduleInv, [Schedule!Next]_(Schedule!vars)
  PROVE  ScheduleInv'
  <1> USE SleepyAssumption DEF Part
  <1>0. /\ frame \in 0 .. Forever /\ next \in [Module -> 0 .. Forever]
        /\ InHeap \subseteq Module
    BY DEF ScheduleInv, Schedule!TypeOK
  <1>1. CASE Schedule!StartCalls
    BY <1>1 DEF Schedule!StartCalls, ScheduleInv, Schedule!TypeOK, Schedule!NobodyOverdue
  <1>2. CASE Schedule!EndCalls
    <2>1. Schedule!TypeOK'
      BY <1>2 DEF Schedule!EndCalls, ScheduleInv, Schedule!TypeOK
    <2>2. \A m \in InHeap : next[m] >= frame
      BY <1>0, <1>2 DEF Schedule!EndCalls, Schedule!Due
    <2> QED BY <2>1, <2>2, <1>2 DEF Schedule!EndCalls, ScheduleInv, Schedule!NobodyOverdue
  <1>3. CASE Schedule!NextFrame
    <2>1. Schedule!TypeOK'
      BY <1>3 DEF Schedule!NextFrame, ScheduleInv, Schedule!TypeOK
    <2>2. \A m \in InHeap : next[m] >= frame
      BY <1>3 DEF Schedule!NextFrame, ScheduleInv, Schedule!NobodyOverdue
    <2> QED BY <2>1, <2>2, <1>0, <1>3 DEF Schedule!NextFrame, ScheduleInv, Schedule!NobodyOverdue
  <1>4. ASSUME NEW m \in Module, Schedule!Call(m)
        PROVE  ScheduleInv'
    BY <1>4 DEF Schedule!Call, Schedule!Due, ScheduleInv, Schedule!TypeOK, Schedule!NobodyOverdue
  <1>5. ASSUME NEW m \in Module, Schedule!Skip(m)
        PROVE  ScheduleInv'
    <2>1. frame + 1 \in Nat /\ frame + 1 >= frame
      BY <1>0
    <2>2. running \in InHeap \cup {None} /\ (running # None => Part = "loop")
      BY DEF ScheduleInv, Schedule!TypeOK
    <2> QED BY <2>1, <2>2, <1>5, WokenInTime DEF Schedule!Skip
  <1>6. ASSUME NEW m \in Module, NEW when \in frame .. frame + Forever, Schedule!Wake(m, when)
        PROVE  ScheduleInv'
    <2>1. when \in Nat /\ when >= frame
      BY <1>0
    <2>2. running \in InHeap \cup {None} /\ (running # None => Part = "loop")
      BY DEF ScheduleInv, Schedule!TypeOK
    <2> QED BY <2>1, <2>2, <1>6, WokenInTime DEF Schedule!Wake
  <1>7. ASSUME NEW sleep \in 1 .. Forever, Schedule!Return(sleep)
        PROVE  ScheduleInv'
    <2>1. frame + sleep \in Nat /\ frame + sleep >= frame
      BY <1>0
    <2>2. running \in Module
      BY <1>7 DEF Schedule!Return, ScheduleInv, Schedule!TypeOK
    <2> QED BY <2>1, <2>2, <1>7, WokenInTime DEF Schedule!Return
  <1>8. ASSUME NEW ms \in SUBSET Module, Schedule!Leave(ms)
        PROVE  ScheduleInv'
    BY <1>8 DEF Schedule!Leave, ScheduleInv, Schedule!TypeOK, Schedule!NobodyOverdue
  <1>9. ASSUME NEW ms \in SUBSET Module, Schedule!Enter(ms)
        PROVE  ScheduleInv'
    <2>1. Schedule!TypeOK'
      BY <1>9 DEF Schedule!Enter, ScheduleInv, Schedule!TypeOK
    <2>2. ASSUME NEW m \in InHeap'
          PROVE  next'[m] >= (IF Part = "after" THEN frame ELSE frame - 1)'
      <3>1. m \in Module
        BY <1>0, <1>9 DEF Schedule!Enter
      <3>2. CASE m \in ms
        <4>1. next'[m] >= frame /\ next'[m] \in 0 .. Forever
          BY <1>9, <3>1, <3>2 DEF Schedule!Enter
        <4> QED BY <4>1, <1>0, <1>9 DEF Schedule!Enter
      <3>3. CASE m \notin ms
        <4>1. m \in InHeap /\ next'[m] = next[m]
          BY <1>9, <3>1, <3>3 DEF Schedule!Enter
        <4> QED BY <4>1, <1>9 DEF Schedule!Enter, ScheduleInv, Schedule!NobodyOverdue
      <3> QED BY <3>2, <3>3
    <2> QED BY <2>1, <2>2 DEF ScheduleInv, Schedule!NobodyOverdue
  <1>10. CASE UNCHANGED (Schedule!vars)
    BY <1>10 DEF Schedule!vars, ScheduleInv, Schedule!TypeOK, Schedule!NobodyOverdue
  <1> QED BY <1>1, <1>2, <1>3, <1>4, <1>5, <1>6, <1>7, <1>8, <1>9, <1>10 DEF Schedule!Next

LEMMA ScheduleInvariance == Schedule!Spec => []ScheduleInv
  BY InitScheduleInv, NextScheduleInv, PTL DEF Schedule!Spec

\* Whatever keeps the schedule forgets nobody: no module is passed over in a frame
\* it is due in, whoever is woken, created or destroyed meanwhile.
THEOREM ScheduleForgetsNobody == Schedule!Spec => []Schedule!NobodyOverdue
  <1>1. ScheduleInv => Schedule!NobodyOverdue
    BY DEF ScheduleInv
  <1> QED BY <1>1, ScheduleInvariance, PTL

\* So GameLogic::update leaves no module in the heap uncalled in a frame it is due
\* in, for any modules, phases and sleeps.
THEOREM NobodyIsOverdue == Spec => []Schedule!NobodyOverdue
  BY HeapKeepsSchedule, ScheduleForgetsNobody, PTL DEF ImplementsSchedule

=============================================================================
