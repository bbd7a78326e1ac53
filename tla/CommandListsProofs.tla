--------------------------- MODULE CommandListsProofs ---------------------------
(***************************************************************************)
(* A list in use is sorted and holds what it should, for any players,       *)
(* types, acks and size of the ID space, however its commands arrived and   *)
(* through the wrap of the IDs.                                             *)
(*                                                                          *)
(* The lemmas on addMessage speak of a list l that is the sorted list of a  *)
(* set H of commands, with acks in between.  The place of a new command is  *)
(* the least one whose command it does not pass; that there is one follows  *)
(* from the order of the natural numbers being well-founded.                *)
(***************************************************************************)
EXTENDS CommandLists, SequenceTheorems, WellFoundedInduction, TLAPS

Com(h)  == CommandOf(h[1], h[2])
Pairs   == Players \X (1 .. MaxIssued)
Entries == Commands(Types \cup AckTypes, Players)

\* The order of a list.  Acks of one sender are in any order.
InOrder(a, b) ==
  \/ a.type < b.type
  \/ a.type = b.type /\ a.player < b.player
  \/ /\ a.type = b.type /\ a.player = b.player
     /\ DoesCommandRequireACommandID(a.type) => isCommandIdNewer(b.id, a.id)

\* The commands of one player in H are less than half of the IDs apart.
Close(H) == H \subseteq Pairs /\ \A g, h \in H : g[1] = h[1] => g[2] - h[2] < Window

\* An entry of a list of H.
Entry(c, H) == c \in Acks \/ \E h \in H : c = Com(h)

\* l is the sorted list of H, with acks.
Lists(l, H) ==
  /\ l \in Seq(Entries)
  /\ \A i \in 1 .. Len(l) : Entry(l[i], H)
  /\ \A h \in H : \E i \in 1 .. Len(l) : l[i] = Com(h)
  /\ \A i, j \in 1 .. Len(l) : i < j => InOrder(l[i], l[j])

\* No ack is in the list twice.
AcksOnce(l) == \A i, j \in 1 .. Len(l) : i < j /\ l[i] \in Acks => l[i] # l[j]

Inv ==
  /\ issued \in [Players -> 0 .. MaxIssued]
  /\ lastMessageInserted \in 0 .. Len(list)
  /\ Close(held) /\ Lists(list, held)

-----------------------------------------------------------------------------
(* Numbers.                                                                 *)

LEMMA LeastNatural ==
  ASSUME NEW S \in SUBSET Nat, S # {}
  PROVE  \E n \in S : \A m \in S : n <= m
  <1> DEFINE R == {ss \in Nat \X Nat : ss[1] < ss[2]}
  <1>1. PICK n \in S : \A m \in S : ~ (<<m, n>> \in R)
    <2>1. IsWellFoundedOn(R, Nat)
      BY NatLessThanWellFounded DEF OpToRel
    <2> HIDE DEF R
    <2> QED BY <2>1, WFMin
  <1>2. \A m \in S : ~ (m < n)
    <2> TAKE m \in S
    <2>1. <<m, n>> \in Nat \X Nat
      OBVIOUS
    <2> QED BY <1>1, <2>1
  <1> QED BY <1>2

LEMMA DivMod ==
  ASSUME NEW L \in Nat \ {0}, NEW a \in Int
  PROVE  a = L * (a \div L) + (a % L) /\ (a % L) \in 0 .. (L - 1) /\ (a \div L) \in Int
  BY SMT

LEMMA SmallMod ==
  ASSUME NEW L \in Nat \ {0}, NEW a \in Int, - L < a, a < L
  PROVE  (a % L) = IF a < 0 THEN a + L ELSE a
  BY SMT

\* A multiple of L less than 2L away from 0 is 0, L or -L.
LEMMA SmallMultiple ==
  ASSUME NEW L \in Nat \ {0}, NEW k \in Int, - (2 * L) < L * k, L * k < 2 * L
  PROVE  L * k \in {- L, 0, L}
  <1>1. k < 2
    <2> SUFFICES ASSUME k >= 2 PROVE FALSE
      OBVIOUS
    <2>1. L * (k - 2) >= 0
      BY SMT
    <2>2. L * (k - 2) = L * k - L * 2
      BY SMT
    <2> QED BY <2>1, <2>2
  <1>2. k > -2
    <2> SUFFICES ASSUME k <= -2 PROVE FALSE
      OBVIOUS
    <2>1. L * (k + 2) <= 0
      BY SMT
    <2>2. L * (k + 2) = L * k + L * 2
      BY SMT
    <2> QED BY <2>1, <2>2
  <1>3. k = -1 \/ k = 0 \/ k = 1
    BY <1>1, <1>2
  <1> QED BY <1>3

\* The residues of two numbers less than L apart differ by their difference, but
\* for L.
LEMMA ModDifference ==
  ASSUME NEW L \in Nat \ {0}, NEW a \in Int, NEW b \in Int, - L < a - b, a - b < L
  PROVE  LET d == (a % L) - (b % L)
         IN  d \in {a - b - L, a - b, a - b + L} /\ - L < d /\ d < L
  <1> DEFINE x == a \div L
             y == b \div L
             r == a % L
             s == b % L
  <1>1. a = L * x + r /\ x \in Int /\ r \in 0 .. (L - 1)
    BY DivMod
  <1>2. b = L * y + s /\ y \in Int /\ s \in 0 .. (L - 1)
    BY DivMod
  <1> HIDE DEF x, y, r, s
  <1>3. L * (x - y) = L * x - L * y /\ x - y \in Int /\ L * x \in Int /\ L * y \in Int
    BY <1>1, <1>2, SMT
  <1>4. L * (x - y) = (a - b) - (r - s)
    BY <1>1, <1>2, <1>3
  <1>5. r \in Int /\ s \in Int /\ - L < r - s /\ r - s < L
    BY <1>1, <1>2
  <1>6. - (2 * L) < L * (x - y) /\ L * (x - y) < 2 * L
    BY <1>4, <1>5
  <1>7. L * (x - y) \in {- L, 0, L}
    BY <1>3, <1>6, SmallMultiple
  <1>8. r - s \in {a - b - L, a - b, a - b + L}
    BY <1>4, <1>5, <1>7
  <1> QED BY <1>5, <1>8 DEF r, s

LEMMA Halves == IDSpace \in Nat \ {0} /\ Window \in Nat /\ 2 * Window <= IDSpace
  BY ListAssumption DEF Window

\* For numbers less than half of the IDs apart the comparison of their IDs is
\* right, and equal IDs are equal numbers.
LEMMA NewerIsLater ==
  ASSUME NEW n \in Int, NEW k \in Int, n - k < Window, k - n < Window
  PROVE  /\ isCommandIdNewer(n % IDSpace, k % IDSpace) <=> k < n
         /\ (n % IDSpace) = (k % IDSpace) => n = k
  <1> DEFINE L == IDSpace
             d == (n % L) - (k % L)
  <1>1. L \in Nat \ {0} /\ Window \in Nat /\ 2 * Window <= L
    BY Halves
  <1> HIDE DEF L
  <1>2. d \in {n - k - L, n - k, n - k + L} /\ - L < d /\ d < L
    <2>1. - L < n - k /\ n - k < L
      BY <1>1
    <2> QED BY <1>1, <2>1, ModDifference
  <1>3. isCommandIdNewer(n % L, k % L) <=> (d % L) # 0 /\ (d % L) < Window
    BY DEF isCommandIdNewer, Window, L
  <1>4. (n % L) = (k % L) => d = 0
    <2>1. (n % L) \in Int
      BY <1>1, DivMod
    <2> QED BY <2>1
  <1> HIDE DEF d
  <1>5. d \in Int
    BY <1>1, <1>2
  <1>6. (d % L) = IF d < 0 THEN d + L ELSE d
    BY <1>1, <1>2, <1>5, SmallMod
  <1> QED BY <1>1, <1>2, <1>3, <1>4, <1>5, <1>6 DEF L

-----------------------------------------------------------------------------
(* Sequences.                                                               *)

LEMMA SubSequence ==
  ASSUME NEW S, NEW s \in Seq(S), NEW m \in Int, NEW n \in Int,
         1 <= m, n <= Len(s), m <= n + 1
  PROVE  /\ SubSeq(s, m, n) \in Seq(S) /\ Len(SubSeq(s, m, n)) = n - m + 1
         /\ \A i \in 1 .. n - m + 1 : SubSeq(s, m, n)[i] = s[m + i - 1]
  <1>1. \A i \in m .. n : s[i] \in S
    BY LenProperties, ElementOfSeq
  <1> DEFINE t == SubSeq(s, m, n)
  <1>2. /\ t \in Seq(S) /\ Len(t) = IF m <= n THEN n - m + 1 ELSE 0
        /\ \A i \in 1 .. n - m + 1 : t[i] = s[m + i - 1]
    BY <1>1, SubSeqProperties
  <1> HIDE DEF t
  <1>3. Len(t) = n - m + 1
    BY <1>2
  <1> QED BY <1>2, <1>3 DEF t

LEMMA Inserted ==
  ASSUME NEW S, NEW s \in Seq(S), NEW k \in 1 .. Len(s) + 1, NEW e \in S
  PROVE  /\ InsertAt(s, k, e) \in Seq(S)
         /\ Len(InsertAt(s, k, e)) = Len(s) + 1
         /\ \A i \in 1 .. Len(s) + 1 :
              InsertAt(s, k, e)[i] = IF i < k THEN s[i] ELSE IF i = k THEN e ELSE s[i - 1]
  <1> DEFINE n == Len(s)
             front == SubSeq(s, 1, k - 1)
             rear == SubSeq(s, k, n)
             half == front \o <<e>>
  <1>1. n \in Nat /\ k \in 1 .. n + 1
    BY LenProperties
  <1>2. /\ front \in Seq(S) /\ Len(front) = k - 1
        /\ \A i \in 1 .. k - 1 : front[i] = s[1 + i - 1]
    <2>1. 1 \in Int /\ k - 1 \in Int /\ k - 1 <= n /\ 1 <= k - 1 + 1 /\ k - 1 - 1 + 1 = k - 1
      BY <1>1
    <2> HIDE DEF n
    <2>2. /\ front \in Seq(S) /\ Len(front) = k - 1 - 1 + 1
          /\ \A i \in 1 .. k - 1 - 1 + 1 : front[i] = s[1 + i - 1]
      BY <2>1, SubSequence DEF n
    <2> HIDE DEF front
    <2> QED BY <2>1, <2>2
  <1>3. /\ rear \in Seq(S) /\ Len(rear) = n - k + 1
        /\ \A i \in 1 .. n - k + 1 : rear[i] = s[k + i - 1]
    BY <1>1, SubSequence
  <1>4. /\ <<e>> \in Seq(S) /\ Len(<<e>>) = 1 /\ <<e>>[1] = e
    OBVIOUS
  <1> HIDE DEF front, rear
  <1>5. /\ half \in Seq(S) /\ Len(half) = k
        /\ \A i \in 1 .. k : half[i] = IF i <= k - 1 THEN front[i] ELSE <<e>>[i - (k - 1)]
    <2>1. /\ half \in Seq(S) /\ Len(half) = Len(front) + Len(<<e>>)
          /\ \A i \in 1 .. Len(front) + Len(<<e>>) :
               half[i] = IF i <= Len(front) THEN front[i] ELSE <<e>>[i - Len(front)]
      BY <1>2, <1>4, ConcatProperties
    <2>2. Len(front) + Len(<<e>>) = k
      BY <1>1, <1>2, <1>4
    <2> HIDE DEF half
    <2> QED BY <1>2, <2>1, <2>2
  <1>6. /\ half[k] = e /\ \A i \in 1 .. k - 1 : half[i] = s[i]
    <2>1. k \in 1 .. k /\ ~ (k <= k - 1) /\ k - (k - 1) = 1
      BY <1>1
    <2>2. half[k] = <<e>>[k - (k - 1)]
      BY <1>5, <2>1
    <2>3. \A i \in 1 .. k - 1 : i \in 1 .. k /\ i <= k - 1 /\ 1 + i - 1 = i
      BY <1>1
    <2> QED BY <1>2, <1>4, <1>5, <2>1, <2>2, <2>3
  <1> HIDE DEF half
  <1>7. /\ half \o rear \in Seq(S) /\ Len(half \o rear) = n + 1
        /\ \A i \in 1 .. n + 1 :
             (half \o rear)[i] = IF i <= k THEN half[i] ELSE rear[i - k]
    <2>1. /\ half \o rear \in Seq(S) /\ Len(half \o rear) = Len(half) + Len(rear)
          /\ \A i \in 1 .. Len(half) + Len(rear) :
               (half \o rear)[i] = IF i <= Len(half) THEN half[i] ELSE rear[i - Len(half)]
      BY <1>3, <1>5, ConcatProperties
    <2>2. Len(half) + Len(rear) = n + 1
      BY <1>1, <1>3, <1>5
    <2> QED BY <1>5, <2>1, <2>2
  <1>8. InsertAt(s, k, e) = half \o rear
    BY DEF InsertAt, half, front, rear, n
  <1>9. ASSUME NEW i \in 1 .. n + 1
        PROVE  (half \o rear)[i] = IF i < k THEN s[i] ELSE IF i = k THEN e ELSE s[i - 1]
    <2>1. CASE i < k
      BY <1>1, <1>6, <1>7, <2>1
    <2>2. CASE i = k
      BY <1>1, <1>6, <1>7, <2>2
    <2>3. CASE i > k
      <3>1. i - k \in 1 .. n - k + 1 /\ k + (i - k) - 1 = i - 1
        BY <1>1, <2>3
      <3>2. ~ (i < k) /\ i # k /\ ~ (i <= k)
        BY <1>1, <2>3
      <3> HIDE DEF n
      <3> QED BY <1>3, <1>7, <3>1, <3>2
    <2>4. i < k \/ i = k \/ i > k
      BY <1>1
    <2> QED BY <2>1, <2>2, <2>3, <2>4
  <1> QED BY <1>7, <1>8, <1>9 DEF n

LEMMA RemovedAt ==
  ASSUME NEW S, NEW s \in Seq(S), NEW k \in 1 .. Len(s)
  PROVE  /\ RemoveAt(s, k) \in Seq(S)
         /\ Len(RemoveAt(s, k)) = Len(s) - 1
         /\ \A i \in 1 .. Len(s) - 1 : RemoveAt(s, k)[i] = IF i < k THEN s[i] ELSE s[i + 1]
  <1> DEFINE n == Len(s)
             front == SubSeq(s, 1, k - 1)
             rear == SubSeq(s, k + 1, n)
  <1>1. n \in Nat /\ k \in 1 .. n
    BY LenProperties
  <1>2. /\ front \in Seq(S) /\ Len(front) = k - 1
        /\ \A i \in 1 .. k - 1 : front[i] = s[i]
    <2>1. 1 \in Int /\ k - 1 \in Int /\ k - 1 <= n /\ 1 <= k - 1 + 1 /\ k - 1 - 1 + 1 = k - 1
      BY <1>1
    <2> HIDE DEF n
    <2>2. /\ front \in Seq(S) /\ Len(front) = k - 1 - 1 + 1
          /\ \A i \in 1 .. k - 1 - 1 + 1 : front[i] = s[1 + i - 1]
      BY <2>1, SubSequence DEF n
    <2>3. \A i \in 1 .. k - 1 : 1 + i - 1 = i
      OBVIOUS
    <2> HIDE DEF front
    <2> QED BY <2>1, <2>2, <2>3
  <1>3. /\ rear \in Seq(S) /\ Len(rear) = n - k
        /\ \A i \in 1 .. n - k : rear[i] = s[k + i]
    <2> DEFINE m == k + 1
    <2>1. m \in Int /\ n \in Int /\ 1 <= m /\ n <= Len(s) /\ m <= n + 1 /\ n - m + 1 = n - k
      BY <1>1
    <2>2. \A i \in 1 .. n - k : m + i - 1 = k + i
      BY <1>1
    <2>3. rear = SubSeq(s, m, n)
      OBVIOUS
    <2> HIDE DEF m, n, rear
    <2>4. /\ SubSeq(s, m, n) \in Seq(S) /\ Len(SubSeq(s, m, n)) = n - m + 1
          /\ \A i \in 1 .. n - m + 1 : SubSeq(s, m, n)[i] = s[m + i - 1]
      BY <2>1, SubSequence
    <2> QED BY <2>1, <2>2, <2>3, <2>4
  <1> HIDE DEF front, rear
  <1>4. /\ front \o rear \in Seq(S) /\ Len(front \o rear) = n - 1
        /\ \A i \in 1 .. n - 1 :
             (front \o rear)[i] = IF i <= k - 1 THEN front[i] ELSE rear[i - (k - 1)]
    <2>1. /\ front \o rear \in Seq(S) /\ Len(front \o rear) = Len(front) + Len(rear)
          /\ \A i \in 1 .. Len(front) + Len(rear) :
               (front \o rear)[i] = IF i <= Len(front) THEN front[i] ELSE rear[i - Len(front)]
      BY <1>2, <1>3, ConcatProperties
    <2>2. Len(front) + Len(rear) = n - 1
      BY <1>1, <1>2, <1>3
    <2> QED BY <1>2, <2>1, <2>2
  <1>5. RemoveAt(s, k) = front \o rear
    BY DEF RemoveAt, front, rear, n
  <1>6. ASSUME NEW i \in 1 .. n - 1
        PROVE  (front \o rear)[i] = IF i < k THEN s[i] ELSE s[i + 1]
    <2>1. CASE i < k
      BY <1>1, <1>2, <1>4, <2>1
    <2>2. CASE ~ (i < k)
      <3>1. i - (k - 1) \in 1 .. n - k /\ k + (i - (k - 1)) = i + 1 /\ ~ (i <= k - 1)
        BY <1>1, <2>2
      <3> QED BY <1>3, <1>4, <2>2, <3>1
    <2> QED BY <2>1, <2>2
  <1> QED BY <1>4, <1>5, <1>6 DEF n

-----------------------------------------------------------------------------
(* The order.                                                               *)

LEMMA ComType ==
  ASSUME NEW h \in Pairs
  PROVE  /\ h = <<h[1], h[2]>> /\ h[1] \in Players /\ h[2] \in 1 .. MaxIssued
         /\ Com(h) \in Entries /\ Com(h).type = TypeOf[h[1]][h[2]]
         /\ Com(h).type \in Nat /\ Com(h).type \notin AckTypes
         /\ Com(h).player = h[1] /\ h[1] \in Nat /\ h[2] \in Int
         /\ Com(h).id = h[2] % IDSpace /\ Com(h).number = h[2] % IDSpace
  <1>1. h = <<h[1], h[2]>> /\ h[1] \in Players /\ h[2] \in 1 .. MaxIssued
    BY DEF Pairs
  <1>2. h[1] \in Nat /\ h[2] \in Int
    BY <1>1, IssueAssumption
  <1>3. TypeOf[h[1]][h[2]] \in Types
    <2>1. TypeOf[h[1]] \in [1 .. MaxIssued -> Types]
      BY <1>1, IssueAssumption
    <2> QED BY <1>1, <2>1
  <1>4. (h[2] % IDSpace) \in 0 .. (IDSpace - 1)
    BY <1>2, Halves, DivMod
  <1>5. /\ Com(h).type = TypeOf[h[1]][h[2]] /\ Com(h).player = h[1]
        /\ Com(h).id = h[2] % IDSpace /\ Com(h).number = h[2] % IDSpace
    BY DEF Com, CommandOf
  <1>6. Com(h) \in Entries
    BY <1>1, <1>3, <1>4 DEF Com, CommandOf, Entries, Commands
  <1> QED BY <1>1, <1>2, <1>3, <1>5, <1>6, IssueAssumption

LEMMA AckType ==
  ASSUME NEW a \in Acks
  PROVE  a \in Entries /\ a.type \in Nat /\ a.type \in AckTypes /\ a.player \in Nat /\ a.id = 0
  <1>1. a \in Commands(AckTypes, Players) /\ a.id = 0
    BY IssueAssumption
  <1> QED BY <1>1, IssueAssumption, ListAssumption DEF Commands, Entries

\* What tells acks from commands.
LEMMA EntryType ==
  ASSUME NEW H, H \subseteq Pairs, NEW c, Entry(c, H)
  PROVE  /\ c \in Entries /\ c.type \in Nat /\ c.player \in Nat
         /\ c.type \in AckTypes => c \in Acks
         /\ c.type \notin AckTypes => \E h \in H : c = Com(h)
  BY AckType, ComType DEF Entry

\* For two commands of H the IDs tell what their numbers do.
LEMMA ComOrder ==
  ASSUME NEW H, Close(H), NEW g \in H, NEW h \in H
  PROVE  /\ InOrder(Com(g), Com(h)) <=> Before(g, h)
         /\ g[1] = h[1] => (isCommandIdNewer(Com(h).id, Com(g).id) <=> g[2] < h[2])
         /\ isEqualCommandMsg(Com(g), Com(h)) => g = h
         /\ Com(g) = Com(h) => g = h
  <1>1. g \in Pairs /\ h \in Pairs
    BY DEF Close
  <1>2. g[1] = h[1] =>
          /\ isCommandIdNewer(Com(h).id, Com(g).id) <=> g[2] < h[2]
          /\ Com(h).id = Com(g).id => h[2] = g[2]
    <2> SUFFICES ASSUME g[1] = h[1]
                 PROVE  /\ isCommandIdNewer(Com(h).id, Com(g).id) <=> g[2] < h[2]
                        /\ Com(h).id = Com(g).id => h[2] = g[2]
      OBVIOUS
    <2>1. g[2] - h[2] < Window /\ h[2] - g[2] < Window
      BY DEF Close
    <2>2. /\ g[2] \in Int /\ h[2] \in Int
          /\ Com(g).id = g[2] % IDSpace /\ Com(h).id = h[2] % IDSpace
      BY <1>1, ComType
    <2> QED BY <2>1, <2>2, NewerIsLater
  <1>3. InOrder(Com(g), Com(h)) <=> Before(g, h)
    BY <1>1, <1>2, ComType DEF InOrder, Before, DoesCommandRequireACommandID
  <1>4. isEqualCommandMsg(Com(g), Com(h)) => g = h
    BY <1>1, <1>2, ComType DEF isEqualCommandMsg, DoesCommandRequireACommandID
  <1>5. Com(g) = Com(h) => g = h
    BY <1>1, <1>2, ComType
  <1> QED BY <1>2, <1>3, <1>4, <1>5

LEMMA OrderTransitive ==
  ASSUME NEW H, Close(H), NEW a, NEW b, NEW c, Entry(a, H), Entry(b, H), Entry(c, H),
         InOrder(a, b), InOrder(b, c)
  PROVE  InOrder(a, c)
  <1>1. /\ a.type \in Nat /\ b.type \in Nat /\ c.type \in Nat
        /\ a.player \in Nat /\ b.player \in Nat /\ c.player \in Nat
    BY EntryType DEF Close
  <1>2. CASE ~ (a.type = c.type /\ a.player = c.player)
    BY <1>1, <1>2 DEF InOrder
  <1>3. CASE a.type = c.type /\ a.player = c.player
    <2>1. a.type = b.type /\ a.player = b.player
      BY <1>1, <1>3 DEF InOrder
    <2>2. CASE a.type \in AckTypes
      BY <1>3, <2>2 DEF InOrder, DoesCommandRequireACommandID
    <2>3. CASE a.type \notin AckTypes
      <3>1. PICK f \in H, g \in H, h \in H : a = Com(f) /\ b = Com(g) /\ c = Com(h)
        <4>1. b.type \notin AckTypes /\ c.type \notin AckTypes
          BY <1>3, <2>1, <2>3
        <4>2. PICK f \in H : a = Com(f)
          BY <2>3, EntryType DEF Close
        <4>3. PICK g \in H : b = Com(g)
          BY <4>1, EntryType DEF Close
        <4>4. PICK h \in H : c = Com(h)
          BY <4>1, EntryType DEF Close
        <4> QED BY <4>2, <4>3, <4>4
      <3>2. /\ f \in Pairs /\ g \in Pairs /\ h \in Pairs
            /\ f[1] = g[1] /\ g[1] = h[1] /\ f[2] \in Int /\ g[2] \in Int /\ h[2] \in Int
        BY <1>3, <2>1, <3>1, ComType DEF Close
      <3>3. f[2] < g[2] /\ g[2] < h[2]
        <4>1. isCommandIdNewer(b.id, a.id) /\ isCommandIdNewer(c.id, b.id)
          BY <1>1, <1>3, <2>1, <2>3 DEF InOrder, DoesCommandRequireACommandID
        <4>2. isCommandIdNewer(Com(g).id, Com(f).id) <=> f[2] < g[2]
          BY <3>2, ComOrder
        <4>3. isCommandIdNewer(Com(h).id, Com(g).id) <=> g[2] < h[2]
          BY <3>2, ComOrder
        <4> QED BY <3>1, <4>1, <4>2, <4>3
      <3>4. f[2] < h[2]
        BY <3>2, <3>3
      <3>5. isCommandIdNewer(c.id, a.id)
        <4>1. isCommandIdNewer(Com(h).id, Com(f).id) <=> f[2] < h[2]
          BY <3>2, ComOrder
        <4> QED BY <3>1, <3>4, <4>1
      <3> QED BY <1>3, <3>5 DEF InOrder
    <2> QED BY <2>2, <2>3
  <1> QED BY <1>2, <1>3

\* A command is not before itself.
LEMMA OrderStrict ==
  ASSUME NEW H, Close(H), NEW h \in H, InOrder(Com(h), Com(h))
  PROVE  FALSE
  <1>1. Before(h, h)
    BY ComOrder
  <1>2. h \in Pairs
    BY DEF Close
  <1> QED BY <1>1, <1>2, ComType DEF Before

\* The walk of addMessage passes what comes before c, and stops at c or at
\* something it comes before.
LEMMA PassesInOrder ==
  ASSUME NEW H, Close(H), NEW c, Entry(c, H), NEW l, NEW i, Entry(l[i], H)
  PROVE  /\ Passes(l, i, c) => InOrder(l[i], c)
         /\ ~ Passes(l, i, c) => c = l[i] \/ InOrder(c, l[i])
  <1> DEFINE d == l[i]
  <1>1. /\ c.type \in Nat /\ d.type \in Nat /\ c.player \in Nat /\ d.player \in Nat
    BY EntryType DEF Close
  <1>2. CASE ~ (c.type = d.type /\ c.player = d.player)
    BY <1>1, <1>2 DEF Passes, InOrder
  <1>3. CASE c.type = d.type /\ c.player = d.player /\ c.type \in AckTypes
    BY <1>1, <1>3 DEF Passes, InOrder, DoesCommandRequireACommandID
  <1>4. CASE c.type = d.type /\ c.player = d.player /\ c.type \notin AckTypes
    <2>1. PICK g \in H, h \in H : c = Com(g) /\ d = Com(h)
      BY <1>4, EntryType DEF Close
    <2>2. /\ g \in Pairs /\ h \in Pairs /\ g[1] = h[1] /\ g[2] \in Int /\ h[2] \in Int
          /\ c.number = c.id /\ d.number = d.id
          /\ g = <<g[1], g[2]>> /\ h = <<h[1], h[2]>>
      BY <1>4, <2>1, ComType DEF Close
    <2>3. /\ isCommandIdNewer(c.id, d.id) <=> h[2] < g[2]
          /\ isCommandIdNewer(d.id, c.id) <=> g[2] < h[2]
      BY <2>1, <2>2, ComOrder
    <2>4. Passes(l, i, c) <=> isCommandIdNewer(c.id, d.id)
      BY <1>1, <1>4, <2>2 DEF Passes
    <2>5. /\ isCommandIdNewer(c.id, d.id) => InOrder(d, c)
          /\ isCommandIdNewer(d.id, c.id) => InOrder(c, d)
      BY <1>4 DEF InOrder
    <2>6. g[2] = h[2] => c = d
      BY <2>1, <2>2
    <2> QED BY <2>2, <2>3, <2>4, <2>5, <2>6
  <1> QED BY <1>2, <1>3, <1>4

-----------------------------------------------------------------------------
(* The operations keep the list sorted.                                     *)

\* Where the walk stops: at something c does not pass, or at the end.
LEMMA Stops ==
  ASSUME NEW l \in Seq(Entries), NEW c
  PROVE  /\ Position(l, c) \in 1 .. (Len(l) + 1)
         /\ Position(l, c) <= Len(l) => ~ Passes(l, Position(l, c), c)
         /\ \A j \in 1 .. (Position(l, c) - 1) : Passes(l, j, c)
  <1> DEFINE S == {i \in 1 .. (Len(l) + 1) : i <= Len(l) => ~ Passes(l, i, c)}
  <1>1. Len(l) \in Nat
    BY LenProperties
  <1>2. Len(l) + 1 \in S
    BY <1>1
  <1>3. S \subseteq Nat
    BY <1>1
  <1>4. PICK i \in S : \A m \in S : i <= m
    BY <1>2, <1>3, LeastNatural
  <1>5. \A j \in 1 .. (i - 1) : Passes(l, j, c)
    <2> SUFFICES ASSUME NEW j \in 1 .. (i - 1), ~ Passes(l, j, c) PROVE FALSE
      OBVIOUS
    <2>1. j \in S
      BY <1>1
    <2> QED BY <1>1, <1>4, <2>1
  <1>6. /\ i \in 1 .. (Len(l) + 1)
        /\ i <= Len(l) => ~ Passes(l, i, c)
    OBVIOUS
  <1> HIDE DEF S
  <1> QED BY <1>5, <1>6 DEF Position

\* Of G = H and one more command, or of H and an ack.
LEMMA InsertedInOrder ==
  ASSUME NEW H, NEW G, NEW l, Lists(l, H), NEW k \in 1 .. Len(l) + 1, NEW c \in Entries,
         H \subseteq G, Entry(c, G), \A g \in G : g \in H \/ c = Com(g),
         \A j \in 1 .. Len(l) : j < k => InOrder(l[j], c),
         \A j \in 1 .. Len(l) : k <= j => InOrder(c, l[j])
  PROVE  Lists(InsertAt(l, k, c), G) /\ Len(InsertAt(l, k, c)) = Len(l) + 1
  <1> DEFINE m == InsertAt(l, k, c)
             n == Len(l)
  <1>1. l \in Seq(Entries) /\ n \in Nat
    BY LenProperties DEF Lists
  <1>2. /\ m \in Seq(Entries) /\ Len(m) = n + 1
        /\ \A i \in 1 .. n + 1 : m[i] = IF i < k THEN l[i] ELSE IF i = k THEN c ELSE l[i - 1]
    BY <1>1, Inserted
  <1>3. \A i \in 1 .. n : Entry(l[i], H)
    BY DEF Lists
  <1>4. \A g \in H : \E i \in 1 .. n : l[i] = Com(g)
    BY DEF Lists
  <1>5. \A i, j \in 1 .. n : i < j => InOrder(l[i], l[j])
    BY DEF Lists
  <1>0. k \in 1 .. n + 1
    OBVIOUS
  <1> HIDE DEF m, n
  <1>6. \A i \in 1 .. n + 1 : Entry(m[i], G)
    <2> TAKE i \in 1 .. n + 1
    <2>1. CASE i < k
      <3>1. m[i] = l[i] /\ i \in 1 .. n
        BY <1>0, <1>1, <1>2, <2>1
      <3> QED BY <1>3, <3>1 DEF Entry
    <2>2. CASE i = k
      BY <1>0, <1>2, <2>2
    <2>3. CASE i > k
      <3>1. m[i] = l[i - 1] /\ i - 1 \in 1 .. n
        BY <1>0, <1>1, <1>2, <2>3
      <3> QED BY <1>3, <3>1 DEF Entry
    <2> QED BY <1>0, <1>1, <2>1, <2>2, <2>3
  <1>7. \A g \in G : \E i \in 1 .. n + 1 : m[i] = Com(g)
    <2> TAKE g \in G
    <2>1. CASE c = Com(g)
      <3>1. k \in 1 .. n + 1 /\ m[k] = c
        BY <1>0, <1>1, <1>2
      <3> QED BY <2>1, <3>1
    <2>2. CASE g \in H
      <3>1. PICK i \in 1 .. n : l[i] = Com(g)
        BY <1>4, <2>2
      <3>2. CASE i < k
        <4>1. i \in 1 .. n + 1 /\ m[i] = l[i]
          BY <1>0, <1>1, <1>2, <3>2
        <4> QED BY <3>1, <4>1
      <3>3. CASE ~ (i < k)
        <4>1. i + 1 \in 1 .. n + 1 /\ ~ (i + 1 < k) /\ i + 1 # k /\ i + 1 - 1 = i
          BY <1>0, <1>1, <3>3
        <4>2. m[i + 1] = l[i + 1 - 1]
          BY <1>2, <4>1
        <4> QED BY <3>1, <4>1, <4>2
      <3> QED BY <3>2, <3>3
    <2> QED BY <2>1, <2>2
  <1>8. \A i, j \in 1 .. n + 1 : i < j => InOrder(m[i], m[j])
    <2> SUFFICES ASSUME NEW i \in 1 .. n + 1, NEW j \in 1 .. n + 1, i < j
                 PROVE  InOrder(m[i], m[j])
      OBVIOUS
    <2>1. CASE j < k
      <3>1. m[i] = l[i] /\ m[j] = l[j] /\ i \in 1 .. n /\ j \in 1 .. n
        BY <1>0, <1>1, <1>2, <2>1
      <3> QED BY <1>5, <3>1
    <2>2. CASE j = k
      <3>1. m[i] = l[i] /\ m[j] = c /\ i \in 1 .. n /\ i < k
        BY <1>0, <1>1, <1>2, <2>2
      <3> QED BY <3>1 DEF n
    <2>3. CASE j > k
      <3>1. m[j] = l[j - 1] /\ j - 1 \in 1 .. n /\ k <= j - 1
        BY <1>0, <1>1, <1>2, <2>3
      <3>2. CASE i < k
        <4>1. m[i] = l[i] /\ i \in 1 .. n /\ i < j - 1
          BY <1>0, <1>1, <1>2, <2>3, <3>2
        <4> QED BY <1>5, <3>1, <4>1
      <3>3. CASE i = k
        <4>1. m[i] = c
          BY <1>2, <3>3
        <4> QED BY <3>1, <4>1 DEF n
      <3>4. CASE i > k
        <4>1. m[i] = l[i - 1] /\ i - 1 \in 1 .. n /\ i - 1 < j - 1
          BY <1>0, <1>1, <1>2, <3>4
        <4> QED BY <1>5, <3>1, <4>1
      <3> QED BY <1>0, <1>1, <3>2, <3>3, <3>4
    <2> QED BY <1>0, <1>1, <2>1, <2>2, <2>3
  <1>9. Lists(m, G)
    BY <1>2, <1>6, <1>7, <1>8 DEF Lists
  <1> QED BY <1>2, <1>9 DEF m, n

\* Everything before the place the walk finds comes before c, the rest after it.
LEMMA PlaceInOrder ==
  ASSUME NEW H, NEW G, Close(G), H \subseteq G, NEW l, Lists(l, H), NEW c, Entry(c, G),
         Position(l, c) <= Len(l) => c # l[Position(l, c)]
  PROVE  /\ \A j \in 1 .. Len(l) : j < Position(l, c) => InOrder(l[j], c)
         /\ \A j \in 1 .. Len(l) : Position(l, c) <= j => InOrder(c, l[j])
  <1> DEFINE p == Position(l, c)
             n == Len(l)
  <1>1. l \in Seq(Entries) /\ n \in Nat
    BY LenProperties DEF Lists
  <1>2. /\ p \in 1 .. n + 1 /\ (p <= n => ~ Passes(l, p, c) /\ c # l[p])
        /\ \A j \in 1 .. p - 1 : Passes(l, j, c)
    BY <1>1, Stops
  <1>3. \A j \in 1 .. n : Entry(l[j], G)
    BY DEF Lists, Entry
  <1>4. \A i, j \in 1 .. n : i < j => InOrder(l[i], l[j])
    BY DEF Lists
  <1> HIDE DEF p, n
  <1>5. \A j \in 1 .. n : j < p => InOrder(l[j], c)
    <2> SUFFICES ASSUME NEW j \in 1 .. n, j < p PROVE InOrder(l[j], c)
      OBVIOUS
    <2>1. j \in 1 .. p - 1
      BY <1>2
    <2> QED BY <1>2, <1>3, <2>1, PassesInOrder
  <1>6. \A j \in 1 .. n : p <= j => InOrder(c, l[j])
    <2> SUFFICES ASSUME NEW j \in 1 .. n, p <= j PROVE InOrder(c, l[j])
      OBVIOUS
    <2>1. p \in 1 .. n
      BY <1>1, <1>2
    <2>2. InOrder(c, l[p])
      <3>1. ~ Passes(l, p, c) /\ c # l[p] /\ Entry(l[p], G)
        BY <1>2, <1>3, <2>1
      <3> QED BY <3>1, PassesInOrder
    <2>3. CASE j = p
      BY <2>2, <2>3
    <2>4. CASE p < j
      BY <1>3, <1>4, <2>1, <2>2, <2>4, OrderTransitive
    <2> QED BY <1>2, <2>3, <2>4
  <1> QED BY <1>5, <1>6 DEF p, n

\* The shortcut finds the same place.
LEMMA ShortcutInOrder ==
  ASSUME NEW H, NEW pn, Close(H \cup {pn}), NEW l, Lists(l, H), NEW last \in 0 .. Len(l),
         FollowsLast(l, last, Com(pn))
  PROVE  /\ last \in 1 .. Len(l)
         /\ \A j \in 1 .. Len(l) : j < last + 1 => InOrder(l[j], Com(pn))
         /\ \A j \in 1 .. Len(l) : last + 1 <= j => InOrder(Com(pn), l[j])
  <1> DEFINE n == Len(l)
             c == Com(pn)
             G == H \cup {pn}
  <1>1. l \in Seq(Entries) /\ n \in Nat
    BY LenProperties DEF Lists
  <1>2. last \in 1 .. n
    BY <1>1 DEF FollowsLast
  <1>3. \A j \in 1 .. n : Entry(l[j], H) /\ Entry(l[j], G)
    BY DEF Lists, Entry
  <1>4. \A i, j \in 1 .. n : i < j => InOrder(l[i], l[j])
    BY DEF Lists
  <1>5. H \subseteq Pairs /\ pn \in Pairs /\ pn \in G /\ H \subseteq G
    BY DEF Close
  <1>6. Entry(c, G) /\ c.type \notin AckTypes /\ c.type \in Nat /\ c.player \in Nat
    BY <1>5, ComType DEF Entry
  <1>7. /\ l[last].type = c.type /\ l[last].player = c.player
        /\ isCommandIdNewer(c.id, l[last].id)
        /\ \/ last = n
           \/ l[last + 1].type > c.type
           \/ l[last + 1].player > c.player
           \/ isCommandIdNewer(l[last + 1].id, c.id)
    BY DEF FollowsLast
  <1>0. Close(G)
    OBVIOUS
  <1> HIDE DEF n, c, G
  <1>8. InOrder(l[last], c)
    BY <1>7 DEF InOrder
  <1>9. \A j \in 1 .. n : j < last + 1 => InOrder(l[j], c)
    <2> SUFFICES ASSUME NEW j \in 1 .. n, j < last + 1 PROVE InOrder(l[j], c)
      OBVIOUS
    <2>1. CASE j = last
      BY <1>8, <2>1
    <2>2. CASE j < last
      BY <1>0, <1>2, <1>3, <1>4, <1>6, <1>8, <2>2, OrderTransitive
    <2> QED BY <1>2, <2>1, <2>2
  <1>10. ASSUME last # n
         PROVE  last + 1 \in 1 .. n /\ InOrder(c, l[last + 1])
    <2> DEFINE d == l[last + 1]
    <2>1. last + 1 \in 1 .. n
      BY <1>1, <1>2, <1>10
    <2>2. InOrder(l[last], d)
      BY <1>2, <1>4, <2>1
    <2>3. d.type \in Nat /\ d.player \in Nat
      BY <1>3, <1>5, <2>1, EntryType
    <2>4. \/ d.type > c.type \/ d.player > c.player \/ isCommandIdNewer(d.id, c.id)
      BY <1>7, <1>10
    <2> HIDE DEF d
    <2>5. InOrder(c, d)
      BY <1>6, <1>7, <2>2, <2>3, <2>4 DEF InOrder
    <2> QED BY <2>1, <2>5 DEF d
  <1>11. \A j \in 1 .. n : last + 1 <= j => InOrder(c, l[j])
    <2> SUFFICES ASSUME NEW j \in 1 .. n, last + 1 <= j PROVE InOrder(c, l[j])
      OBVIOUS
    <2>1. last # n
      BY <1>1, <1>2
    <2>2. CASE j = last + 1
      BY <1>10, <2>1, <2>2
    <2>3. CASE last + 1 < j
      BY <1>0, <1>3, <1>4, <1>6, <1>10, <2>1, <2>3, OrderTransitive
    <2> QED BY <1>2, <2>2, <2>3
  <1> QED BY <1>2, <1>9, <1>11 DEF n, c

\* Whatever the last insertion was, a command lands in its place, and a second
\* copy of it nowhere.
LEMMA AddMessage ==
  ASSUME NEW H, NEW pn, Close(H \cup {pn}), NEW l, Lists(l, H), NEW last \in 0 .. Len(l)
  PROVE  LET r == addMessage(l, last, Com(pn))
         IN  Lists(r.list, H \cup {pn}) /\ r.last \in 0 .. Len(r.list)
  <1> DEFINE n == Len(l)
             c == Com(pn)
             G == H \cup {pn}
             r == addMessage(l, last, c)
             p == Position(l, c)
             q == IF p > n THEN n ELSE p
  <1>1. l \in Seq(Entries) /\ n \in Nat
    BY LenProperties DEF Lists
  <1>2. H \subseteq Pairs /\ pn \in Pairs /\ pn \in G /\ H \subseteq G
    BY DEF Close
  <1>3. Entry(c, G) /\ c.type \notin AckTypes /\ c \in Entries /\ \A g \in G : g \in H \/ c = Com(g)
    BY <1>2, ComType DEF Entry
  <1>4. CASE l = << >>
    <2>1. r = [list |-> <<c>>, last |-> 1]
      BY <1>4 DEF addMessage
    <2>2. n = 0
      BY <1>4
    <2>3. H = {}
      BY <2>2 DEF Lists
    <2>4. <<c>> \in Seq(Entries) /\ Len(<<c>>) = 1 /\ <<c>>[1] = c
      BY <1>3
    <2>5. \A g \in G : g = pn
      BY <2>3
    <2> HIDE DEF c, G, r
    <2>6. Lists(<<c>>, G)
      <3>1. \A i \in 1 .. 1 : i = 1
        OBVIOUS
      <3>2. 1 \in 1 .. 1
        OBVIOUS
      <3>3. \A g \in G : c = Com(g)
        BY <2>5 DEF c
      <3>4. \A i \in 1 .. 1 : Entry(<<c>>[i], G)
        BY <1>3, <2>4, <3>1
      <3>5. \A g \in G : \E i \in 1 .. 1 : <<c>>[i] = Com(g)
        BY <2>4, <3>2, <3>3
      <3>6. \A i, j \in 1 .. 1 : ~ (i < j)
        OBVIOUS
      <3> QED BY <2>4, <3>4, <3>5, <3>6 DEF Lists
    <2>7. r.list = <<c>> /\ r.last = 1
      BY <2>1
    <2> QED BY <2>4, <2>6, <2>7 DEF r, c, G
  <1>5. CASE l # << >> /\ FollowsLast(l, last, c)
    <2>1. r = [list |-> InsertAt(l, last + 1, c), last |-> last + 1]
      BY <1>5 DEF addMessage
    <2>2. /\ last \in 1 .. n
          /\ \A j \in 1 .. n : j < last + 1 => InOrder(l[j], c)
          /\ \A j \in 1 .. n : last + 1 <= j => InOrder(c, l[j])
      BY <1>5, ShortcutInOrder
    <2> DEFINE k == last + 1
    <2>3. k \in 1 .. n + 1
      BY <1>1, <2>2
    <2>4. r.list = InsertAt(l, k, c) /\ r.last = k
      BY <2>1
    <2>6. /\ \A j \in 1 .. n : j < k => InOrder(l[j], c)
          /\ \A j \in 1 .. n : k <= j => InOrder(c, l[j])
      BY <2>2
    <2> HIDE DEF c, G, r, k, p, q
    <2>7. Lists(InsertAt(l, k, c), G) /\ Len(InsertAt(l, k, c)) = n + 1
      BY <1>2, <1>3, <2>3, <2>6, InsertedInOrder
    <2>5. Lists(r.list, G) /\ Len(r.list) = n + 1
      BY <2>4, <2>7
    <2> QED BY <1>1, <2>3, <2>4, <2>5 DEF r, c, G
  <1>6. CASE l # << >> /\ ~ FollowsLast(l, last, c) /\ isEqualCommandMsg(l[q], c)
    <2>1. r = [list |-> l, last |-> last]
      BY <1>6 DEF addMessage
    <2>2. q \in 1 .. n
      <3>1. p \in 1 .. n + 1
        BY <1>1, Stops
      <3>2. n # 0
        BY <1>1, <1>6, EmptySeq
      <3> HIDE DEF p, n
      <3> QED BY <1>1, <3>1, <3>2 DEF n
    <2>3. l[q].type \notin AckTypes
      <3>1. ~ (DoesCommandRequireACommandID(c.type) = FALSE)
        BY <1>3 DEF DoesCommandRequireACommandID
      <3>2. l[q].type \in AckTypes => l[q].type = c.type
        BY <1>6 DEF isEqualCommandMsg, DoesCommandRequireACommandID
      <3> QED BY <1>3, <3>2
    <2>4. PICK h \in H : l[q] = Com(h)
      <3>1. Entry(l[q], H)
        BY <2>2 DEF Lists
      <3> QED BY <1>2, <2>3, <3>1, EntryType
    <2>5. h = pn
      BY <1>2, <1>6, <2>4, ComOrder
    <2>6. G = H
      BY <2>4, <2>5
    <2>7. r.list = l /\ r.last = last
      BY <2>1
    <2> HIDE DEF c, G, r
    <2> QED BY <2>6, <2>7 DEF c, G, r
  <1>7. CASE l # << >> /\ ~ FollowsLast(l, last, c) /\ ~ isEqualCommandMsg(l[q], c)
    <2>1. r = [list |-> InsertAt(l, p, c), last |-> p]
      BY <1>7 DEF addMessage
    <2>2. p \in 1 .. n + 1
      BY <1>1, Stops
    <2>3. p <= n => c # l[p]
      <3>1. isEqualCommandMsg(c, c)
        BY DEF isEqualCommandMsg
      <3>2. p <= n => q = p
        BY <1>1, <2>2
      <3> HIDE DEF p, q, n, c
      <3> QED BY <1>7, <3>1, <3>2
    <2>4. /\ \A j \in 1 .. n : j < p => InOrder(l[j], c)
          /\ \A j \in 1 .. n : p <= j => InOrder(c, l[j])
      BY <1>2, <1>3, <2>3, PlaceInOrder
    <2>5. r.list = InsertAt(l, p, c) /\ r.last = p
      BY <2>1
    <2> HIDE DEF c, G, r, p
    <2>6. Lists(r.list, G) /\ Len(r.list) = n + 1
      BY <1>2, <1>3, <2>2, <2>4, <2>5, InsertedInOrder
    <2> QED BY <1>1, <2>2, <2>5, <2>6 DEF r, c, G
  <1> QED BY <1>4, <1>5, <1>6, <1>7

\* An ack goes to its place too; the shortcut never takes it, its ID being the
\* same as any other's.
LEMMA AddMessageAck ==
  ASSUME NEW H, Close(H), NEW l, Lists(l, H), NEW last \in 0 .. Len(l), NEW a \in Acks
  PROVE  LET r == addMessage(l, last, a)
         IN  Lists(r.list, H) /\ r.last \in 0 .. Len(r.list)
  <1> DEFINE n == Len(l)
             r == addMessage(l, last, a)
             p == Position(l, a)
             q == IF p > n THEN n ELSE p
  <1>1. l \in Seq(Entries) /\ n \in Nat
    BY LenProperties DEF Lists
  <1>2. a \in Entries /\ a.type \in AckTypes /\ a.id = 0 /\ Entry(a, H)
    BY AckType DEF Entry
  <1>3. ~ FollowsLast(l, last, a)
    <2> SUFFICES ASSUME FollowsLast(l, last, a) PROVE FALSE
      OBVIOUS
    <2>1. last \in 1 .. n /\ l[last].type = a.type /\ isCommandIdNewer(a.id, l[last].id)
      BY <1>1 DEF FollowsLast
    <2>2. Entry(l[last], H)
      BY <2>1 DEF Lists
    <2>3. l[last].id = 0
      BY <1>2, <2>1, <2>2, EntryType, AckType DEF Close
    <2>4. ~ isCommandIdNewer(0, 0)
      BY Halves, SmallMod DEF isCommandIdNewer
    <2> QED BY <1>2, <2>1, <2>3, <2>4
  <1>4. CASE l = << >>
    <2>1. r = [list |-> <<a>>, last |-> 1]
      BY <1>4 DEF addMessage
    <2>2. n = 0
      BY <1>4
    <2>3. H = {}
      BY <2>2 DEF Lists
    <2>4. <<a>> \in Seq(Entries) /\ Len(<<a>>) = 1 /\ <<a>>[1] = a
      BY <1>2
    <2> HIDE DEF r
    <2>5. Lists(<<a>>, H)
      <3>1. \A i \in 1 .. 1 : i = 1
        OBVIOUS
      <3>2. \A i \in 1 .. 1 : Entry(<<a>>[i], H)
        BY <1>2, <2>4, <3>1
      <3>3. \A i, j \in 1 .. 1 : ~ (i < j)
        OBVIOUS
      <3> QED BY <2>3, <2>4, <3>2, <3>3 DEF Lists
    <2>6. r.list = <<a>> /\ r.last = 1
      BY <2>1
    <2> QED BY <2>4, <2>5, <2>6 DEF r
  <1>5. CASE l # << >> /\ isEqualCommandMsg(l[q], a)
    <2>1. r = [list |-> l, last |-> last]
      BY <1>3, <1>5 DEF addMessage
    <2>2. r.list = l /\ r.last = last
      BY <2>1
    <2> HIDE DEF r
    <2> QED BY <2>2 DEF r
  <1>6. CASE l # << >> /\ ~ isEqualCommandMsg(l[q], a)
    <2>1. r = [list |-> InsertAt(l, p, a), last |-> p]
      BY <1>3, <1>6 DEF addMessage
    <2>2. p \in 1 .. n + 1
      BY <1>1, Stops
    <2>3. p <= n => a # l[p]
      <3>1. isEqualCommandMsg(a, a)
        BY DEF isEqualCommandMsg
      <3>2. p <= n => q = p
        BY <1>1, <2>2
      <3> HIDE DEF p, q, n
      <3> QED BY <1>6, <3>1, <3>2
    <2>4. /\ \A j \in 1 .. n : j < p => InOrder(l[j], a)
          /\ \A j \in 1 .. n : p <= j => InOrder(a, l[j])
      BY <1>2, <2>3, PlaceInOrder
    <2>5. r.list = InsertAt(l, p, a) /\ r.last = p
      BY <2>1
    <2> HIDE DEF r, p
    <2>6. Lists(r.list, H) /\ Len(r.list) = n + 1
      BY <1>2, <2>2, <2>4, <2>5, InsertedInOrder, SMTT(30)
    <2> QED BY <1>1, <2>2, <2>5, <2>6 DEF r
  <1> QED BY <1>4, <1>5, <1>6

\* What is removed is gone, and nothing else.
LEMMA RemoveMessageInOrder ==
  ASSUME NEW H, Close(H), NEW l, Lists(l, H), NEW last \in 0 .. Len(l),
         NEW pn \in H, NEW k \in 1 .. Len(l), l[k] = Com(pn)
  PROVE  LET r == removeMessage(l, last, k)
         IN  Lists(r.list, H \ {pn}) /\ r.last \in 0 .. Len(r.list)
  <1> DEFINE n == Len(l)
             m == RemoveAt(l, k)
             G == H \ {pn}
             place(i) == IF i < k THEN i ELSE i + 1
  <1>1. l \in Seq(Entries) /\ n \in Nat /\ k \in 1 .. n /\ last \in 0 .. n
    BY LenProperties DEF Lists
  <1>2. /\ m \in Seq(Entries) /\ Len(m) = n - 1
        /\ \A i \in 1 .. n - 1 : m[i] = IF i < k THEN l[i] ELSE l[i + 1]
    BY <1>1, RemovedAt
  <1>3. \A i \in 1 .. n : Entry(l[i], H)
    BY DEF Lists
  <1>4. \A g \in H : \E i \in 1 .. n : l[i] = Com(g)
    BY DEF Lists
  <1>5. \A i, j \in 1 .. n : i < j => InOrder(l[i], l[j])
    BY DEF Lists
  <1> HIDE DEF m, n
  <1>6. \A i \in 1 .. n - 1 : place(i) \in 1 .. n /\ place(i) # k /\ m[i] = l[place(i)]
    BY <1>1, <1>2
  <1>7. \A i, j \in 1 .. n - 1 : i < j => place(i) < place(j)
    BY <1>1
  <1>8. \A i \in 1 .. n : i # k => l[i] # Com(pn)
    <2> SUFFICES ASSUME NEW i \in 1 .. n, i # k, l[i] = Com(pn) PROVE FALSE
      OBVIOUS
    <2>1. InOrder(Com(pn), Com(pn))
      <3>1. i < k \/ k < i
        BY <1>1
      <3> QED BY <1>1, <1>5, <3>1
    <2> QED BY <2>1, OrderStrict
  <1>9. m \in Seq(Entries) /\ \A i \in 1 .. n - 1 : Entry(m[i], G)
    <2> SUFFICES ASSUME NEW i \in 1 .. n - 1 PROVE Entry(m[i], G)
      BY <1>2
    <2> DEFINE j == place(i)
    <2>1. j \in 1 .. n /\ j # k /\ m[i] = l[j]
      BY <1>6
    <2> HIDE DEF j
    <2> QED BY <1>3, <1>8, <2>1 DEF Entry
  <1>10. \A g \in G : \E i \in 1 .. n - 1 : m[i] = Com(g)
    <2> TAKE g \in G
    <2>1. PICK i \in 1 .. n : l[i] = Com(g)
      BY <1>4
    <2>2. i # k
      BY <2>1, ComOrder
    <2>3. CASE i < k
      <3>1. i \in 1 .. n - 1 /\ m[i] = l[i]
        BY <1>1, <1>2, <2>3
      <3> QED BY <2>1, <3>1
    <2>4. CASE k < i
      <3>1. i - 1 \in 1 .. n - 1 /\ ~ (i - 1 < k) /\ i - 1 + 1 = i
        BY <1>1, <2>4
      <3>2. m[i - 1] = l[i - 1 + 1]
        BY <1>2, <3>1
      <3> QED BY <2>1, <3>1, <3>2
    <2> QED BY <1>1, <2>2, <2>3, <2>4
  <1>11. \A i, j \in 1 .. n - 1 : i < j => InOrder(m[i], m[j])
    <2> SUFFICES ASSUME NEW i \in 1 .. n - 1, NEW j \in 1 .. n - 1, i < j
                 PROVE  InOrder(m[i], m[j])
      OBVIOUS
    <2>1. /\ place(i) \in 1 .. n /\ m[i] = l[place(i)]
          /\ place(j) \in 1 .. n /\ m[j] = l[place(j)]
      BY <1>6
    <2>2. place(i) < place(j)
      BY <1>7
    <2> HIDE DEF place
    <2> QED BY <1>5, <2>1, <2>2
  <1>12. Lists(m, G)
    BY <1>2, <1>9, <1>10, <1>11 DEF Lists
  <1>13. (IF last = k THEN IF k = n THEN 0 ELSE k
          ELSE IF last > k THEN last - 1 ELSE last) \in 0 .. n - 1
    BY <1>1
  <1> QED BY <1>2, <1>12, <1>13 DEF removeMessage, m, n

-----------------------------------------------------------------------------
(* The invariant.                                                           *)

\* A command that may arrive is close to those held.
LEMMA ArrivableIsClose ==
  ASSUME NEW pn \in Arrivable, issued \in [Players -> 0 .. MaxIssued], Close(held)
  PROVE  Close(held \cup {pn}) /\ Window > 0
  <1>1. /\ pn \in Pairs /\ pn[1] \in Players /\ pn[2] \in 1 .. MaxIssued
        /\ pn[2] \in (issued[pn[1]] - Window + 1) .. issued[pn[1]]
        /\ \A h \in held : h[1] = pn[1] => h[2] \in (pn[2] - Window + 1) .. (pn[2] + Window - 1)
    BY DEF Arrivable, Pairs
  <1>2. issued[pn[1]] \in Int /\ pn[2] \in Int /\ Window \in Nat
    <2>1. issued[pn[1]] \in 0 .. MaxIssued
      BY <1>1
    <2> QED BY <1>1, <2>1, Halves, IssueAssumption
  <1>3. Window > 0
    BY <1>1, <1>2
  <1>4. held \subseteq Pairs /\ \A h \in held : h[2] \in Int
    BY IssueAssumption, ComType DEF Close
  <1>5. ASSUME NEW g \in held \cup {pn}, NEW h \in held \cup {pn}, g[1] = h[1]
        PROVE  g[2] - h[2] < Window
    <2>1. CASE g \in held /\ h \in held
      BY <1>5, <2>1 DEF Close
    <2>2. CASE g = pn /\ h = pn
      BY <1>2, <1>3, <2>2
    <2>3. CASE g = pn /\ h \in held
      BY <1>1, <1>2, <1>4, <1>5, <2>3
    <2>4. CASE g \in held /\ h = pn
      BY <1>1, <1>2, <1>4, <1>5, <2>4
    <2> QED BY <2>1, <2>2, <2>3, <2>4
  <1> QED BY <1>1, <1>3, <1>4, <1>5 DEF Close

LEMMA InvInit == Init => Inv
  <1> SUFFICES ASSUME Init PROVE Inv
    OBVIOUS
  <1>1. issued \in [Players -> 0 .. MaxIssued]
    BY IssueAssumption DEF Init
  <1>2. list = << >> /\ Len(list) = 0 /\ list \in Seq(Entries) /\ lastMessageInserted = 0 /\ held = {}
    BY DEF Init
  <1>3. Close(held) /\ Lists(list, held)
    BY <1>2 DEF Close, Lists
  <1> QED BY <1>1, <1>2, <1>3 DEF Inv

LEMMA InvNext == Inv /\ [Next]_vars => Inv'
  <1> SUFFICES ASSUME Inv, [Next]_vars PROVE Inv'
    OBVIOUS
  <1>1. /\ issued \in [Players -> 0 .. MaxIssued]
        /\ lastMessageInserted \in 0 .. Len(list)
        /\ Close(held) /\ Lists(list, held)
    BY DEF Inv
  <1>2. ASSUME NEW p \in Players, Generate(p) PROVE Inv'
    <2>1. issued' \in [Players -> 0 .. MaxIssued]
      BY <1>1, <1>2, IssueAssumption DEF Generate
    <2> QED BY <1>1, <1>2, <2>1 DEF Generate, Inv
  <1>3. ASSUME NEW p \in Players, NEW n \in 1 .. MaxIssued, Add(p, n) PROVE Inv'
    <2> DEFINE r == addMessage(list, lastMessageInserted, Com(<<p, n>>))
    <2>1. Close(held \cup {<<p, n>>})
      BY <1>1, <1>3, ArrivableIsClose DEF Add
    <2>2. Lists(r.list, held \cup {<<p, n>>}) /\ r.last \in 0 .. Len(r.list)
      BY <1>1, <2>1, AddMessage
    <2>3. list' = r.list /\ lastMessageInserted' = r.last
      BY <1>3 DEF Add, Becomes, Com
    <2> HIDE DEF r
    <2> QED BY <1>1, <1>3, <2>1, <2>2, <2>3 DEF Add, Inv
  <1>4. ASSUME NEW p \in Players, NEW n \in 1 .. MaxIssued, RemoveMessage(p, n) PROVE Inv'
    <2>1. PICK i \in 1 .. Len(list) :
            list[i] = Com(<<p, n>>) /\ Becomes(removeMessage(list, lastMessageInserted, i))
      BY <1>4 DEF RemoveMessage, Com
    <2> DEFINE r == removeMessage(list, lastMessageInserted, i)
    <2>2. Lists(r.list, held \ {<<p, n>>}) /\ r.last \in 0 .. Len(r.list)
      BY <1>1, <1>4, <2>1, RemoveMessageInOrder DEF RemoveMessage
    <2>3. list' = r.list /\ lastMessageInserted' = r.last
      BY <2>1 DEF Becomes
    <2>4. Close(held \ {<<p, n>>})
      BY <1>1 DEF Close
    <2> HIDE DEF r
    <2> QED BY <1>1, <1>4, <2>2, <2>3, <2>4 DEF RemoveMessage, Inv
  <1>5. ASSUME NEW p \in Players, NEW n \in 1 .. MaxIssued, NEW k \in 1 .. MaxIssued,
               AppendOf(p, n, k)
        PROVE  Inv'
    <2> DEFINE g == <<p, n>>
               h == <<p, k>>
               r == addMessage(list, lastMessageInserted, Com(g))
               s == addMessage(r.list, r.last, Com(h))
               H == held \cup {g}
    <2>1. Close(H) /\ Close(held \cup {h})
      BY <1>1, <1>5, ArrivableIsClose DEF AppendOf
    <2>2. H \cup {h} = held \cup {g, h}
      OBVIOUS
    <2>3. Close(H \cup {h})
      <3>1. n < k /\ k - n < Window /\ n \in Int /\ k \in Int
        BY <1>5, IssueAssumption DEF AppendOf
      <3>2. g[1] = p /\ g[2] = n /\ h[1] = p /\ h[2] = k
        OBVIOUS
      <3>3. h[2] - g[2] < Window /\ g[2] - h[2] < Window
        BY <3>1, <3>2, Halves
      <3> HIDE DEF g, h
      <3> QED BY <2>1, <3>3 DEF Close
    <2>4. Lists(r.list, H) /\ r.last \in 0 .. Len(r.list)
      BY <1>1, <2>1, AddMessage
    <2> HIDE DEF H, r
    <2>5. Lists(s.list, H \cup {h}) /\ s.last \in 0 .. Len(s.list)
      BY <2>3, <2>4, AddMessage
    <2>6. list' = s.list /\ lastMessageInserted' = s.last
      BY <1>5 DEF AppendOf, Becomes, Com, appendList, r
    <2>7. held' = H \cup {h} /\ issued' = issued
      BY <1>5, <2>2 DEF AppendOf, H
    <2> HIDE DEF s, g, h
    <2> QED BY <1>1, <2>3, <2>5, <2>6, <2>7 DEF Inv
  <1>6. ASSUME NEW a \in Acks, AddAck(a) PROVE Inv'
    <2> DEFINE r == addMessage(list, lastMessageInserted, a)
    <2>1. Lists(r.list, held) /\ r.last \in 0 .. Len(r.list)
      BY <1>1, AddMessageAck
    <2>2. list' = r.list /\ lastMessageInserted' = r.last
      BY <1>6 DEF AddAck, Becomes
    <2> HIDE DEF r
    <2> QED BY <1>1, <1>6, <2>1, <2>2 DEF AddAck, Inv
  <1>7. CASE Reset
    <2>1. list' = << >> /\ lastMessageInserted' = 0 /\ held' = {} /\ issued' = issued
      BY <1>7 DEF Reset
    <2>2. Len(<< >>) = 0 /\ << >> \in Seq(Entries)
      OBVIOUS
    <2>3. Close({}) /\ Lists(<< >>, {})
      BY <2>2 DEF Close, Lists
    <2> QED BY <1>1, <2>1, <2>2, <2>3 DEF Inv
  <1>8. CASE UNCHANGED vars
    BY <1>1, <1>8 DEF vars, Inv
  <1> QED BY <1>2, <1>3, <1>4, <1>5, <1>6, <1>7, <1>8 DEF Next

\* Every state has the types its variables are declared with.
THEOREM TypeCorrectness == Spec => []TypeOK
  <1>1. Inv => TypeOK
    BY DEF Inv, TypeOK, Close, Lists, Pairs, Entries
  <1> QED BY <1>1, InvInit, InvNext, PTL DEF Spec

\* The list is the one enumeration of the commands put in and not removed, by
\* type, player and age, each once: whatever order and how often they were added
\* in, wherever the last insertion was, through the wrap of the IDs and with any
\* acks in between (addMessage, removeMessage, appendList).
THEOREM ListOrderIsCanonical == Spec => []OrderIsCanonical
  <1>1. Inv => OrderIsCanonical
    <2> SUFFICES ASSUME Inv PROVE OrderIsCanonical
      OBVIOUS
    <2>1. Close(held) /\ Lists(list, held) /\ held \subseteq Pairs
      BY DEF Inv, Close
    <2>2. \A i \in Places : \E h \in held : list[i] = Com(h)
      <3> TAKE i \in Places
      <3>1. Entry(list[i], held) /\ list[i].type \notin AckTypes
        BY <2>1 DEF Places, Lists, DoesCommandRequireACommandID
      <3> QED BY <2>1, <3>1, EntryType
    <2>3. \A h \in held : \E i \in Places : list[i] = Com(h)
      <3> TAKE h \in held
      <3>1. PICK i \in 1 .. Len(list) : list[i] = Com(h)
        BY <2>1 DEF Lists
      <3>2. i \in Places
        BY <2>1, <3>1, ComType DEF Places, DoesCommandRequireACommandID
      <3> QED BY <3>1, <3>2
    <2>4. {list[i] : i \in Places} = {CommandOf(h[1], h[2]) : h \in held}
      BY <2>2, <2>3 DEF Com
    <2>5. ASSUME NEW i \in Places, NEW j \in Places, i < j
          PROVE  \E g, h \in held : /\ list[i] = CommandOf(g[1], g[2])
                                    /\ list[j] = CommandOf(h[1], h[2])
                                    /\ Before(g, h)
      <3>1. PICK g \in held, h \in held : list[i] = Com(g) /\ list[j] = Com(h)
        BY <2>2
      <3>2. InOrder(list[i], list[j])
        BY <2>1, <2>5 DEF Lists, Places
      <3>3. Before(g, h)
        BY <2>1, <3>1, <3>2, ComOrder
      <3> QED BY <3>1, <3>3 DEF Com
    <2> QED BY <2>4, <2>5 DEF OrderIsCanonical
  <1> QED BY <1>1, InvInit, InvNext, PTL DEF Spec

-----------------------------------------------------------------------------
(* Duplicates.  addMessage looks for one in a single place, and of two acks  *)
(* of one type and sender only one is there.                                *)

LEMMA AcksOnceInserted ==
  ASSUME NEW l \in Seq(Entries), AcksOnce(l), NEW k \in 1 .. Len(l) + 1, NEW c \in Entries,
         c \in Acks => c \notin Range(l)
  PROVE  AcksOnce(InsertAt(l, k, c))
  <1> DEFINE m == InsertAt(l, k, c)
             n == Len(l)
  <1>1. l \in Seq(Entries) /\ n \in Nat /\ k \in 1 .. n + 1
    BY LenProperties
  <1>2. /\ Len(m) = n + 1
        /\ \A i \in 1 .. n + 1 : m[i] = IF i < k THEN l[i] ELSE IF i = k THEN c ELSE l[i - 1]
    BY <1>1, Inserted
  <1>3. \A i, j \in 1 .. n : i < j /\ l[i] \in Acks => l[i] # l[j]
    BY DEF AcksOnce
  <1>4. c \in Acks => \A i \in 1 .. n : l[i] # c
    BY LenProperties DEF Range
  <1> HIDE DEF m, n
  <1>5. ASSUME NEW i \in 1 .. n + 1, NEW j \in 1 .. n + 1, i < j, m[i] \in Acks
        PROVE  m[i] # m[j]
    <2>1. CASE j < k
      <3>1. m[i] = l[i] /\ m[j] = l[j] /\ i \in 1 .. n /\ j \in 1 .. n
        BY <1>1, <1>2, <1>5, <2>1
      <3> QED BY <1>3, <1>5, <3>1
    <2>2. CASE j = k
      <3>1. m[i] = l[i] /\ m[j] = c /\ i \in 1 .. n
        BY <1>1, <1>2, <1>5, <2>2
      <3> QED BY <1>4, <1>5, <3>1
    <2>3. CASE j > k
      <3>1. m[j] = l[j - 1] /\ j - 1 \in 1 .. n
        BY <1>1, <1>2, <2>3
      <3>2. CASE i < k
        <4>1. m[i] = l[i] /\ i \in 1 .. n /\ i < j - 1
          BY <1>1, <1>2, <2>3, <3>2
        <4> QED BY <1>3, <1>5, <3>1, <4>1
      <3>3. CASE i = k
        <4>1. m[i] = c
          BY <1>2, <3>3
        <4> QED BY <1>4, <1>5, <3>1, <4>1
      <3>4. CASE i > k
        <4>1. m[i] = l[i - 1] /\ i - 1 \in 1 .. n /\ i - 1 < j - 1
          BY <1>1, <1>2, <1>5, <3>4
        <4> QED BY <1>3, <1>5, <3>1, <4>1
      <3> QED BY <1>1, <3>2, <3>3, <3>4
    <2> QED BY <1>1, <2>1, <2>2, <2>3
  <1> QED BY <1>2, <1>5 DEF AcksOnce, m

\* addMessage changes nothing but to put c in.
LEMMA AddMessageShape ==
  ASSUME NEW l \in Seq(Entries), NEW last \in 0 .. Len(l), NEW c \in Entries
  PROVE  LET r == addMessage(l, last, c)
         IN  r.list = l \/ \E k \in 1 .. Len(l) + 1 : r.list = InsertAt(l, k, c)
  <1> DEFINE n == Len(l)
             r == addMessage(l, last, c)
             p == Position(l, c)
             q == IF p > n THEN n ELSE p
  <1>1. n \in Nat /\ p \in 1 .. n + 1
    BY LenProperties, Stops
  <1>2. CASE l = << >>
    <2>1. r.list = <<c>>
      BY <1>2 DEF addMessage
    <2>2. n = 0 /\ 1 \in 1 .. n + 1
      BY <1>2
    <2> DEFINE k == 1
               m == InsertAt(l, k, c)
    <2>3. k = 1 /\ k \in 1 .. n + 1
      BY <2>2
    <2>4. <<c>> \in Seq(Entries) /\ Len(<<c>>) = 1 /\ <<c>>[1] = c
      OBVIOUS
    <2> HIDE DEF k, r
    <2>5. /\ m \in Seq(Entries) /\ Len(m) = n + 1
          /\ \A i \in 1 .. n + 1 : m[i] = IF i < k THEN l[i] ELSE IF i = k THEN c ELSE l[i - 1]
      BY <2>3, Inserted, SMTT(30)
    <2> HIDE DEF m, n
    <2>6. Len(m) = 1 /\ m[1] = c
      BY <2>2, <2>3, <2>5
    <2>7. \A i \in 1 .. 1 : m[i] = <<c>>[i]
      BY <2>4, <2>6
    <2>8. m = <<c>>
      BY <2>4, <2>5, <2>6, <2>7, SeqEqual
    <2>9. \E j \in 1 .. Len(l) + 1 : r.list = InsertAt(l, j, c)
      BY <2>1, <2>3, <2>8 DEF m, n
    <2> QED BY <2>9 DEF r
  <1>3. CASE l # << >> /\ FollowsLast(l, last, c)
    <2>1. r.list = InsertAt(l, last + 1, c)
      BY <1>3 DEF addMessage
    <2>2. last + 1 \in 1 .. n + 1
      BY <1>1
    <2> QED BY <2>1, <2>2
  <1>4. CASE l # << >> /\ ~ FollowsLast(l, last, c) /\ isEqualCommandMsg(l[q], c)
    BY <1>4 DEF addMessage
  <1>5. CASE l # << >> /\ ~ FollowsLast(l, last, c) /\ ~ isEqualCommandMsg(l[q], c)
    <2>1. r.list = InsertAt(l, p, c)
      BY <1>5 DEF addMessage
    <2> HIDE DEF r, p
    <2>2. \E j \in 1 .. Len(l) + 1 : r.list = InsertAt(l, j, c)
      BY <1>1, <2>1
    <2> QED BY <2>2 DEF r
  <1> QED BY <1>2, <1>3, <1>4, <1>5

\* What addMessage does not look for: two acks of one type and sender.
OneAckEach == \A a, b \in Acks : a.type = b.type /\ a.player = b.player => a = b

LEMMA AckOnce ==
  ASSUME OneAckEach, NEW H, Close(H), NEW l, Lists(l, H), AcksOnce(l),
         NEW last \in 0 .. Len(l), NEW a \in Acks
  PROVE  AcksOnce(addMessage(l, last, a).list)
  <1> DEFINE n == Len(l)
             r == addMessage(l, last, a)
             p == Position(l, a)
             q == IF p > n THEN n ELSE p
  <1>1. l \in Seq(Entries) /\ n \in Nat /\ a \in Entries /\ a.type \in AckTypes
    BY LenProperties, AckType DEF Lists
  <1>2. /\ p \in 1 .. n + 1 /\ (p <= n => ~ Passes(l, p, a))
        /\ \A j \in 1 .. p - 1 : Passes(l, j, a)
    BY <1>1, Stops
  <1>3. CASE \A i \in 1 .. n : l[i] # a
    <2>1. r.list = l \/ \E k \in 1 .. n + 1 : r.list = InsertAt(l, k, a)
      BY <1>1, AddMessageShape
    <2>0. a \notin Range(l)
      BY <1>1, <1>3, LenProperties DEF Range
    <2> HIDE DEF r
    <2>2. AcksOnce(r.list)
      BY <1>1, <2>0, <2>1, AcksOnceInserted
    <2> QED BY <2>2 DEF r
  <1>4. CASE \E i \in 1 .. n : l[i] = a
    <2>1. PICK i \in 1 .. n : l[i] = a
      BY <1>4
    <2>2. ~ isCommandIdNewer(a.number, a.number)
      <3>1. a.number \in Int
        BY <1>1 DEF Entries, Commands
      <3>2. a.number - a.number = 0 /\ (0 % IDSpace) = 0
        BY <3>1, Halves, SmallMod
      <3> QED BY <3>2 DEF isCommandIdNewer
    <2>3. ~ Passes(l, i, a)
      <3>1. a.type \in Nat /\ a.player \in Nat
        BY AckType
      <3> QED BY <2>1, <2>2, <3>1 DEF Passes
    <2>4. p <= i
      BY <1>1, <1>2, <2>3
    <2>5. p \in 1 .. n /\ q = p
      BY <1>1, <1>2, <2>4
    <2>6. l[p] = a
      <3>1. Entry(l[p], H)
        BY <2>5 DEF Lists
      <3>2. ~ Passes(l, p, a)
        BY <1>2, <2>5
      <3>3. InOrder(a, l[p])
        <4>1. a = l[p] \/ InOrder(a, l[p])
          BY <3>1, <3>2, PassesInOrder DEF Entry
        <4>2. InOrder(a, a)
          BY <1>1 DEF InOrder, DoesCommandRequireACommandID
        <4> HIDE DEF p
        <4> QED BY <4>1, <4>2
      <3>4. CASE p = i
        BY <2>1, <3>4
      <3>5. CASE p < i
        <4>1. InOrder(l[p], a)
          BY <2>1, <2>5, <3>5 DEF Lists
        <4>2. l[p].type = a.type /\ l[p].player = a.player
          <5>1. /\ a.type \in Nat /\ l[p].type \in Nat /\ a.player \in Nat /\ l[p].player \in Nat
            BY <3>1, AckType, EntryType DEF Close
          <5> HIDE DEF p
          <5> QED BY <3>3, <4>1, <5>1 DEF InOrder
        <4>3. l[p] \in Acks
          BY <1>1, <3>1, <4>2, EntryType DEF Close
        <4> QED BY <4>2, <4>3 DEF OneAckEach
      <3> QED BY <1>2, <2>4, <3>4, <3>5
    <2>7. isEqualCommandMsg(l[q], a)
      BY <2>5, <2>6 DEF isEqualCommandMsg
    <2>8. ~ FollowsLast(l, last, a)
      <3> SUFFICES ASSUME FollowsLast(l, last, a) PROVE FALSE
        OBVIOUS
      <3>1. last \in 1 .. n /\ l[last].type = a.type /\ isCommandIdNewer(a.id, l[last].id)
        BY <1>1 DEF FollowsLast
      <3>2. Entry(l[last], H)
        BY <3>1 DEF Lists
      <3>3. l[last].id = 0 /\ a.id = 0
        BY <1>1, <3>1, <3>2, EntryType, AckType DEF Close
      <3>4. ~ isCommandIdNewer(0, 0)
        BY Halves, SmallMod DEF isCommandIdNewer
      <3> QED BY <3>1, <3>3, <3>4
    <2>9. l # << >>
      BY <2>1
    <2>10. r.list = l
      <3> HIDE DEF q
      <3> QED BY <2>7, <2>8, <2>9 DEF addMessage, q
    <2> QED BY <2>10
  <1> QED BY <1>3, <1>4

LEMMA AcksOnceWithCommand ==
  ASSUME NEW l \in Seq(Entries), AcksOnce(l), NEW last \in 0 .. Len(l), NEW pn \in Pairs
  PROVE  AcksOnce(addMessage(l, last, Com(pn)).list)
  <1> DEFINE c == Com(pn)
             r == addMessage(l, last, c)
  <1>1. c \in Entries /\ c \notin Acks
    BY ComType, AckType
  <1>2. r.list = l \/ \E k \in 1 .. Len(l) + 1 : r.list = InsertAt(l, k, c)
    BY <1>1, AddMessageShape
  <1> HIDE DEF c, r
  <1>3. AcksOnce(r.list)
    BY <1>1, <1>2, AcksOnceInserted
  <1> QED BY <1>3 DEF r, c

LEMMA AcksOnceRemoved ==
  ASSUME NEW l \in Seq(Entries), AcksOnce(l), NEW k \in 1 .. Len(l)
  PROVE  AcksOnce(RemoveAt(l, k))
  <1> DEFINE m == RemoveAt(l, k)
             n == Len(l)
             place(i) == IF i < k THEN i ELSE i + 1
  <1>1. l \in Seq(Entries) /\ n \in Nat /\ k \in 1 .. n
    BY LenProperties
  <1>2. /\ Len(m) = n - 1
        /\ \A i \in 1 .. n - 1 : m[i] = IF i < k THEN l[i] ELSE l[i + 1]
    BY <1>1, RemovedAt
  <1>3. \A i, j \in 1 .. n : i < j /\ l[i] \in Acks => l[i] # l[j]
    BY DEF AcksOnce
  <1> HIDE DEF m, n
  <1>4. \A i \in 1 .. n - 1 : place(i) \in 1 .. n /\ m[i] = l[place(i)]
    BY <1>1, <1>2
  <1>5. \A i, j \in 1 .. n - 1 : i < j => place(i) < place(j)
    BY <1>1
  <1> HIDE DEF place
  <1>6. \A i, j \in 1 .. n - 1 : i < j /\ m[i] \in Acks => m[i] # m[j]
    BY <1>3, <1>4, <1>5
  <1> QED BY <1>2, <1>6 DEF AcksOnce, m

LEMMA AcksOnceNext == OneAckEach /\ Inv /\ AcksOnce(list) /\ [Next]_vars => AcksOnce(list)'
  <1> SUFFICES ASSUME OneAckEach, Inv, AcksOnce(list), [Next]_vars PROVE AcksOnce(list')
    BY DEF AcksOnce
  <1>1. /\ lastMessageInserted \in 0 .. Len(list) /\ list \in Seq(Entries)
        /\ Close(held) /\ Lists(list, held)
    BY DEF Inv, Lists
  <1>2. ASSUME NEW p \in Players, Generate(p) PROVE AcksOnce(list')
    BY <1>2 DEF Generate
  <1>3. ASSUME NEW p \in Players, NEW n \in 1 .. MaxIssued, Add(p, n) PROVE AcksOnce(list')
    <2>1. <<p, n>> \in Pairs
      BY DEF Pairs
    <2>2. AcksOnce(addMessage(list, lastMessageInserted, Com(<<p, n>>)).list)
      BY <1>1, <2>1, AcksOnceWithCommand
    <2> QED BY <1>3, <2>2 DEF Add, Becomes, Com
  <1>4. ASSUME NEW p \in Players, NEW n \in 1 .. MaxIssued, RemoveMessage(p, n)
        PROVE  AcksOnce(list')
    <2>1. PICK i \in 1 .. Len(list) : Becomes(removeMessage(list, lastMessageInserted, i))
      BY <1>4 DEF RemoveMessage
    <2>2. list' = RemoveAt(list, i)
      BY <2>1 DEF Becomes, removeMessage
    <2> QED BY <1>1, <2>2, AcksOnceRemoved
  <1>5. ASSUME NEW p \in Players, NEW n \in 1 .. MaxIssued, NEW k \in 1 .. MaxIssued,
               AppendOf(p, n, k)
        PROVE  AcksOnce(list')
    <2> DEFINE g == <<p, n>>
               h == <<p, k>>
               r == addMessage(list, lastMessageInserted, Com(g))
    <2>1. g \in Pairs /\ h \in Pairs
      BY DEF Pairs
    <2>2. Close(held \cup {g})
      BY <1>1, <1>5, ArrivableIsClose DEF AppendOf, Inv
    <2>3. Lists(r.list, held \cup {g}) /\ r.last \in 0 .. Len(r.list)
      BY <1>1, <2>2, AddMessage
    <2>4. AcksOnce(r.list)
      BY <1>1, <2>1, AcksOnceWithCommand
    <2> HIDE DEF r
    <2>5. r.list \in Seq(Entries)
      BY <2>3 DEF Lists
    <2>6. AcksOnce(addMessage(r.list, r.last, Com(h)).list)
      BY <2>1, <2>3, <2>4, <2>5, AcksOnceWithCommand
    <2> QED BY <1>5, <2>6 DEF AppendOf, Becomes, appendList, Com, r
  <1>6. ASSUME NEW a \in Acks, AddAck(a) PROVE AcksOnce(list')
    BY <1>1, <1>6, AckOnce DEF AddAck, Becomes
  <1>7. CASE Reset
    BY <1>7 DEF Reset, AcksOnce
  <1>8. CASE UNCHANGED vars
    BY <1>8 DEF vars
  <1> QED BY <1>2, <1>3, <1>4, <1>5, <1>6, <1>7, <1>8 DEF Next

\* No command is in the list twice, nor any ack, as long as no two acks have the
\* same type and sender: a frame's list has no acks at all.  In a connection's
\* queue there may be more, and there the test for a duplicate misses some (the
\* configuration MCCommandLists_acks).
THEOREM NothingIsThereTwice ==
  ASSUME OneAckEach
  PROVE  Spec => []NoDuplicates
  <1>1. Inv /\ AcksOnce(list) => NoDuplicates
    <2> SUFFICES ASSUME Inv, AcksOnce(list) PROVE NoDuplicates
      OBVIOUS
    <2>1. Close(held) /\ Lists(list, held) /\ held \subseteq Pairs /\ list \in Seq(Entries)
      BY DEF Inv, Close, Lists
    <2>2. ASSUME NEW i \in 1 .. Len(list), NEW j \in 1 .. Len(list), i < j,
                 \/ isEqualCommandMsg(list[i], list[j])
                 \/ isEqualCommandMsg(list[j], list[i])
          PROVE  FALSE
      <3>1. Entry(list[i], held) /\ Entry(list[j], held) /\ InOrder(list[i], list[j])
        BY <2>1, <2>2 DEF Lists
      <3>2. CASE list[i].type \in AckTypes
        <4>1. list[j].type \in AckTypes
          BY <2>2, <3>2 DEF isEqualCommandMsg, DoesCommandRequireACommandID
        <4>2. list[i] \in Acks /\ list[j] \in Acks
          BY <2>1, <3>1, <3>2, <4>1, EntryType
        <4>3. list[i] = list[j]
          BY <2>2, <3>2, <4>1, <4>2
             DEF isEqualCommandMsg, DoesCommandRequireACommandID, OneAckEach
        <4> QED BY <2>2, <4>2, <4>3 DEF AcksOnce
      <3>3. CASE list[i].type \notin AckTypes
        <4>1. list[j].type \notin AckTypes
          BY <2>2, <3>3 DEF isEqualCommandMsg, DoesCommandRequireACommandID
        <4>2. PICK g \in held : list[i] = Com(g)
          BY <2>1, <3>1, <3>3, EntryType
        <4>3. PICK h \in held : list[j] = Com(h)
          BY <2>1, <3>1, <4>1, EntryType
        <4>4. g = h
          BY <2>1, <2>2, <4>2, <4>3, ComOrder
        <4> QED BY <2>1, <3>1, <4>2, <4>3, <4>4, OrderStrict
      <3> QED BY <3>2, <3>3
    <2>3. \A i, j \in 1 .. Len(list) : i # j => i < j \/ j < i
      <3>1. Len(list) \in Nat
        BY <2>1, LenProperties
      <3> QED BY <3>1
    <2> QED BY <2>2, <2>3 DEF NoDuplicates
  <1>2. Init => AcksOnce(list)
    BY DEF Init, AcksOnce
  <1> QED BY <1>1, <1>2, InvInit, InvNext, AcksOnceNext, PTL DEF Spec

=============================================================================
