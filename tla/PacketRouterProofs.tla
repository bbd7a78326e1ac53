---------------------------- MODULE PacketRouterProofs ----------------------------
(******************************************************************************)
(* Types, the fallback plan and what is on its way through the packet         *)
(* router, for any players, commands and frames, whoever leaves or crashes    *)
(* and whatever acks are lost.                                                *)
(*                                                                            *)
(* That the next router is found inside the plan needs the order of the       *)
(* plan: removing a player keeps it in slot order without a gap, so that      *)
(* the place behind the present router, who is first, holds the next          *)
(* lowest slot; and a player in the game is never taken out of his own plan.  *)
(*                                                                            *)
(* That nothing is stranded needs that nobody but the router has a copy to    *)
(* relay (OneRelays): his acks alone are for both stages, and he gives them   *)
(* when those he relayed to have theirs.  That holds of three players, as     *)
(* whoever routed before is gone, and until the first router is dropped.      *)
(******************************************************************************)
EXTENDS PacketRouter, TLAPS, SequenceTheorems

Message == [command : Command, relay : SUBSET Player]

Increasing(s) == \A i, j \in DOMAIN s : i < j => s[i] < s[j]

Types ==
  /\ frame \in [Player -> 1 .. MaxFrame + 1]
  /\ status \in [Player -> {"playing", "left", "crashed"}]
  /\ has \in [Player -> SUBSET Command]
  /\ fallback \in [Player -> Seq(Player)]
  /\ router \in [Player -> Player \cup {NoRouter}]
  /\ conn \in [Player -> [Player -> {"open", "quitting", "none"}]]
  /\ queue \in [Player -> [Player -> SUBSET Message]]
  /\ pending \in [Player -> SUBSET Command]
  /\ wire \in [Player -> SUBSET Message]

\* Every plan is in slot order; a player in the game is in his own, and its
\* first routes.
PlanInv ==
  \A p \in Player :
    /\ Increasing(fallback[p])
    /\ In(p) => p \in Range(fallback[p]) /\ router[p] = fallback[p][1]

\* What a connection keeps sending was sent.
QueueInv == \A p, q \in Player : queue[p][q] \subseteq wire[q]

\* Somebody's ack is missing for everything relayed.
RelayedInv ==
  /\ DOMAIN relayed = Player
  /\ \A p \in Player :
       /\ DOMAIN relayed[p] \subseteq Command
       /\ \A c \in DOMAIN relayed[p] : relayed[p][c] \in (SUBSET Player) \ {{}}

Inv == Types /\ PlanInv /\ QueueInv /\ RelayedInv

-----------------------------------------------------------------------------
(* A plan without one of its players.                                       *)

LEMMA PlayersAreNumbers == Player \subseteq Nat /\ Plan \in Seq(Player) /\ 0 \in Player
  <1>1. /\ Plan \in Seq(Nat) /\ Plan # <<>> /\ Plan[1] = 0
    BY PacketRouterAssumption
  <1>2. DOMAIN Plan = 1 .. Len(Plan) /\ Len(Plan) \in Nat /\ Plan \in [1 .. Len(Plan) -> Nat]
    BY <1>1, LenProperties
  <1>3. Len(Plan) # 0
    BY <1>1, EmptySeq
  <1>4. \A i \in 1 .. Len(Plan) : Plan[i] \in Player
    BY <1>2 DEF Player, Range
  <1>5. Plan \in Seq(Player)
    BY <1>1, <1>2, <1>4, SeqDef
  <1> QED BY <1>1, <1>2, <1>3, <1>4, <1>5 DEF Player, Range

\* What RemoveAt leaves.
LEMMA RemovedAt ==
  ASSUME NEW s \in Seq(Player), NEW k \in DOMAIN s
  PROVE  /\ RemoveAt(s, k) \in Seq(Player)
         /\ Len(RemoveAt(s, k)) = Len(s) - 1
         /\ \A i \in 1 .. Len(s) - 1 : RemoveAt(s, k)[i] = IF i < k THEN s[i] ELSE s[i + 1]
  <1> DEFINE n == Len(s)
             front == SubSeq(s, 1, k - 1)
             rear == SubSeq(s, k + 1, n)
  <1>1. n \in Nat /\ DOMAIN s = 1 .. n /\ k \in 1 .. n /\ \A i \in 1 .. n : s[i] \in Player
    BY LenProperties, ElementOfSeq
  <1> HIDE DEF n
  <1>2. /\ front \in Seq(Player) /\ Len(front) = k - 1
        /\ \A i \in 1 .. k - 1 : front[i] = s[i]
    <2>1. \A i \in 1 .. k - 1 : s[i] \in Player
      BY <1>1
    <2>2. /\ front \in Seq(Player)
          /\ Len(front) = IF 1 <= k - 1 THEN k - 1 - 1 + 1 ELSE 0
          /\ \A i \in 1 .. k - 1 - 1 + 1 : front[i] = s[1 + i - 1]
      BY <1>1, <2>1, SubSeqProperties
    <2> HIDE DEF front
    <2> QED BY <1>1, <2>2
  <1>3. /\ rear \in Seq(Player) /\ Len(rear) = n - k
        /\ \A i \in 1 .. n - k : rear[i] = s[k + i]
    <2>1. \A i \in k + 1 .. n : s[i] \in Player
      BY <1>1
    <2>2. /\ rear \in Seq(Player)
          /\ Len(rear) = IF k + 1 <= n THEN n - (k + 1) + 1 ELSE 0
          /\ \A i \in 1 .. n - (k + 1) + 1 : rear[i] = s[k + 1 + i - 1]
      BY <1>1, <2>1, SubSeqProperties
    <2> HIDE DEF rear
    <2>3. ASSUME NEW i \in 1 .. n - k PROVE rear[i] = s[k + i]
      <3>1. i \in 1 .. n - (k + 1) + 1 /\ k + 1 + i - 1 = k + i
        BY <1>1
      <3> QED BY <2>2, <3>1
    <2> QED BY <1>1, <2>2, <2>3
  <1>4. RemoveAt(s, k) = front \o rear
    BY DEF RemoveAt, n
  <1> HIDE DEF front, rear
  <1>5. /\ front \o rear \in Seq(Player) /\ Len(front \o rear) = Len(front) + Len(rear)
        /\ \A i \in 1 .. Len(front) + Len(rear) :
             (front \o rear)[i] = IF i <= Len(front) THEN front[i] ELSE rear[i - Len(front)]
    BY <1>2, <1>3, ConcatProperties
  <1>6. Len(front) + Len(rear) = n - 1
    BY <1>1, <1>2, <1>3
  <1>7. ASSUME NEW i \in 1 .. n - 1
        PROVE  (front \o rear)[i] = IF i < k THEN s[i] ELSE s[i + 1]
    <2>1. CASE i < k
      BY <1>1, <1>2, <1>5, <1>6, <2>1
    <2>2. CASE ~ (i < k)
      <3>1. i - (k - 1) \in 1 .. n - k /\ k + (i - (k - 1)) = i + 1 /\ ~ (i <= k - 1)
        BY <1>1, <2>2
      <3> QED BY <1>2, <1>3, <1>5, <1>6, <2>2, <3>1, SMTT(30)
    <2> QED BY <2>1, <2>2
  <1> QED BY <1>4, <1>5, <1>6, <1>7 DEF n

LEMMA PlanWithout ==
  ASSUME Inv, NEW p \in Player, NEW x \in Range(fallback[p])
  PROVE  /\ FallbackWithout(p, x) \in Seq(Player)
         /\ Increasing(FallbackWithout(p, x))
         /\ Range(FallbackWithout(p, x)) = Range(fallback[p]) \ {x}
         /\ NextRouter(p, x) \in Player \cup {NoRouter}
         /\ \A y \in Range(fallback[p]) \ {x} :
              /\ x = fallback[p][1] => NextRouter(p, x) = FallbackWithout(p, x)[1]
              /\ x # fallback[p][1] => fallback[p][1] = FallbackWithout(p, x)[1]
  <1> DEFINE s == fallback[p]
             n == Len(s)
             k == Place(p, x)
             t == FallbackWithout(p, x)
  <1>1. s \in Seq(Player) /\ Increasing(s)
    BY DEF Inv, Types, PlanInv
  <1>2. n \in Nat /\ DOMAIN s = 1 .. n /\ \A i \in 1 .. n : s[i] \in Player /\ s[i] \in Nat
    BY <1>1, LenProperties, ElementOfSeq, PlayersAreNumbers
  <1>3. k \in 1 .. n /\ s[k] = x
    BY <1>2 DEF Place, Range
  <1>4. NextRouter(p, x) = IF k + 1 \in DOMAIN s THEN s[k + 1] ELSE NoRouter
    BY DEF NextRouter
  <1>5. t = RemoveAt(s, k)
    BY DEF FallbackWithout
  <1> HIDE DEF s, n, k, t
  <1>6. /\ t \in Seq(Player) /\ Len(t) = n - 1
        /\ \A i \in 1 .. n - 1 : t[i] = IF i < k THEN s[i] ELSE s[i + 1]
    BY <1>1, <1>2, <1>3, <1>5, RemovedAt DEF n
  <1>7. DOMAIN t = 1 .. n - 1
    BY <1>6, LenProperties
  <1>8. \A i, j \in 1 .. n : i < j => s[i] < s[j]
    BY <1>1, <1>2 DEF Increasing
  <1>9. Increasing(t)
    BY <1>2, <1>3, <1>6, <1>7, <1>8, SMTT(30) DEF Increasing
  <1>10. \A i \in 1 .. n : i # k => s[i] # x
    BY <1>2, <1>3, <1>8
  <1>11. Range(t) = Range(s) \ {x}
    <2>1. ASSUME NEW i \in 1 .. n - 1
          PROVE  t[i] \in Range(s) /\ t[i] # x
      <3>1. i \in 1 .. n /\ i + 1 \in 1 .. n
        BY <1>2
      <3>2. CASE i < k
        <4>1. t[i] = s[i] /\ i # k /\ i \in DOMAIN s
          BY <1>2, <1>3, <1>6, <3>1, <3>2
        <4> QED BY <1>10, <3>1, <4>1 DEF Range
      <3>3. CASE ~ (i < k)
        <4>1. i + 1 # k
          BY <1>2, <1>3, <3>3
        <4> QED BY <1>2, <1>3, <1>6, <1>10, <3>1, <3>3, <4>1 DEF Range
      <3> QED BY <3>2, <3>3
    <2>2. ASSUME NEW i \in 1 .. n, i # k
          PROVE  \E j \in 1 .. n - 1 : t[j] = s[i]
      <3>1. CASE i < k
        <4>1. i \in 1 .. n - 1
          BY <1>2, <1>3, <3>1
        <4> QED BY <1>6, <3>1, <4>1
      <3>2. CASE i > k
        <4>1. i - 1 \in 1 .. n - 1 /\ ~ (i - 1 < k) /\ (i - 1) + 1 = i
          BY <1>2, <1>3, <3>2
        <4> QED BY <1>6, <4>1
      <3> QED BY <1>3, <2>2, <3>1, <3>2
    <2>3. Range(t) \subseteq Range(s) \ {x}
      BY <1>7, <2>1 DEF Range
    <2>4. Range(s) \ {x} \subseteq Range(t)
      BY <1>2, <1>3, <1>7, <2>2 DEF Range
    <2> QED BY <2>3, <2>4
  <1>12. ASSUME NEW y \in Range(s) \ {x}
         PROVE  /\ x = s[1] => NextRouter(p, x) = t[1]
                /\ x # s[1] => s[1] = t[1]
    <2>1. PICK i \in 1 .. n : s[i] # s[k]
      BY <1>2, <1>3 DEF Range
    <2>2. 1 \in 1 .. n - 1 /\ n >= 2
      BY <1>2, <1>3, <2>1
    <2>3. x = s[1] => k = 1
      BY <1>2, <1>10, <2>2
    <2>4. x # s[1] => 1 < k
      BY <1>2, <1>3
    <2> QED BY <1>2, <1>4, <1>6, <2>2, <2>3, <2>4
  <1>13. NextRouter(p, x) \in Player \cup {NoRouter}
    BY <1>2, <1>4
  <1> QED BY <1>6, <1>9, <1>11, <1>12, <1>13 DEF s, t

-----------------------------------------------------------------------------
(* Sending keeps the types, and what connections send on the wires.         *)

Connections == [Player -> {"open", "quitting", "none"}]
Queues      == [Player -> SUBSET Message]

LEMMA Sends ==
  ASSUME Types, NEW conns, NEW queues \in Queues, NEW sent,
         \A q \in Player : sent[q] \subseteq Message,
         \A q \in Player : queues[q] \subseteq wire[q]
  PROVE  /\ Queued(conns, queues, sent) \in Queues
         /\ OnWire(conns, sent) \in Queues
         /\ \A q \in Player : Queued(conns, queues, sent)[q] \subseteq OnWire(conns, sent)[q]
         /\ \A q \in Player : wire[q] \subseteq OnWire(conns, sent)[q]
BY DEF Queued, OnWire, Types, Queues

LEMMA SentTypes ==
  ASSUME NEW p \in Player, NEW r, NEW cs \in SUBSET Command
  PROVE  \A q \in Player : Sent(p, r, cs)[q] \subseteq Message
BY DEF Sent, Message

\* One player's queues change, to what is on the wires.
LEMMA QueuesOnWire ==
  ASSUME Inv, NEW p \in Player, NEW qs \in Queues, queue' = [queue EXCEPT ![p] = qs],
         wire' \in Queues,
         \A q \in Player : qs[q] \subseteq wire'[q] /\ wire[q] \subseteq wire'[q]
  PROVE  queue' \in [Player -> Queues] /\ QueueInv'
BY DEF Inv, Types, QueueInv, Queues

LEMMA InitInv == Init => Inv
  <1> SUFFICES ASSUME Init PROVE Inv
    OBVIOUS
  <1>1. Player \subseteq Nat /\ Plan \in Seq(Player) /\ 0 \in Player /\ Plan[1] = 0
    BY PlayersAreNumbers, PacketRouterAssumption
  <1>2. 1 \in 1 .. MaxFrame + 1
    BY PacketRouterAssumption
  <1>3. Types
    BY <1>1, <1>2 DEF Init, Types
  <1>4. PlanInv
    BY <1>1, PacketRouterAssumption DEF Init, PlanInv, Increasing, Player
  <1>5. QueueInv /\ RelayedInv
    BY DEF Init, QueueInv, RelayedInv
  <1> QED BY <1>3, <1>4, <1>5 DEF Inv

LEMMA IssueInv ==
  ASSUME Inv, NEW c \in Command, Issue(c)
  PROVE  Inv'
  <1> DEFINE p == Owner[c]
             sent == Sent(p, router[p], {c})
             qs == Queued(conn[p], queue[p], sent)
  <1>1. p \in Player
    BY PacketRouterAssumption
  <1>2. /\ has' = [has EXCEPT ![p] = @ \cup {c}]
        /\ queue' = [queue EXCEPT ![p] = Queued(conn[p], @, sent)]
        /\ wire' = OnWire(conn[p], sent)
        /\ pending' = [pending EXCEPT ![p] = IF ThroughRouter(p, router[p]) THEN @ \cup {c} ELSE @]
        /\ UNCHANGED <<frame, status, fallback, router, conn, relayed>>
    BY Zenon DEF Issue
  <1>3. Types /\ queue[p] \in Queues /\ \A q \in Player : queue[p][q] \subseteq wire[q]
    BY <1>1 DEF Inv, Types, QueueInv, Queues
  <1>4. \A q \in Player : sent[q] \subseteq Message
    BY <1>1, SentTypes
  <1> HIDE DEF sent
  <1>5. /\ qs \in Queues /\ wire' \in Queues
        /\ \A q \in Player : qs[q] \subseteq wire'[q] /\ wire[q] \subseteq wire'[q]
    BY <1>2, <1>3, <1>4, Sends
  <1>6. queue' = [queue EXCEPT ![p] = qs]
    BY <1>2
  <1> HIDE DEF qs
  <1>7. queue' \in [Player -> Queues] /\ QueueInv'
    BY <1>1, <1>5, <1>6, QueuesOnWire
  <1>8. Types'
    BY <1>1, <1>2, <1>5, <1>7 DEF Inv, Types, Queues
  <1>9. PlanInv' /\ RelayedInv'
    BY <1>2 DEF Inv, PlanInv, RelayedInv, In
  <1> QED BY <1>7, <1>8, <1>9 DEF Inv

LEMMA ReceiveInv ==
  ASSUME Inv, NEW p \in Player, NEW m \in wire[p], NEW acked \in BOOLEAN, Receive(p, m, acked)
  PROVE  Inv'
  <1> DEFINE c    == m.command
             t    == AckTo(p, c)
             to   == ActualRelay(p, m)
             sent == [q \in Player |-> IF q \in to THEN {[command |-> c, relay |-> {q}]} ELSE {}]
             qs   == Queued(conn[p], queue[p], sent)
             queues == [queue EXCEPT ![p] = qs]
  <1>1. /\ IF acked THEN AckArrives(p, t) /\ AckTaken(p, t, m, queues) ELSE NoAck(queues)
        /\ wire' = OnWire(conn[p], sent)
        /\ has' = IF Accepted(p, c) /\ p \in m.relay
                    THEN [has EXCEPT ![p] = @ \cup {c}] ELSE has
        /\ relayed' = [q \in Player |->
                         CASE q = p -> AddedTo(p, c, to)
                           [] q = t /\ acked /\ IsBoth(p, m) -> Cleared(t, p, c)
                           [] OTHER -> relayed[q]]
        /\ UNCHANGED <<frame, status, fallback, router, conn, issued>>
    BY DEF Receive
  <1>2. m \in Message /\ c \in Command /\ m.relay \subseteq Player
    BY DEF Inv, Types, Message
  <1>3. to \in SUBSET Player
    BY <1>2 DEF ActualRelay
  <1>4. \A q \in Player : sent[q] \subseteq Message
    BY <1>2, <1>3 DEF Message
  <1>5. Types /\ queue[p] \in Queues /\ \A q \in Player : queue[p][q] \subseteq wire[q]
    BY DEF Inv, Types, QueueInv, Queues
  <1> HIDE DEF c, t, to, sent
  <1>6. /\ qs \in Queues /\ wire' \in Queues
        /\ \A q \in Player : qs[q] \subseteq wire'[q] /\ wire[q] \subseteq wire'[q]
    BY <1>1, <1>4, <1>5, Sends
  <1> HIDE DEF qs
  <1>7. /\ queues \in [Player -> Queues]
        /\ \A r, q \in Player : queues[r][q] \subseteq wire'[q]
    BY <1>6 DEF Inv, Types, QueueInv, Queues
  <1> HIDE DEF queues
  <1>8. /\ queue' \in [Player -> Queues]
        /\ \A r, q \in Player : queue'[r][q] \subseteq queues[r][q]
    <2>1. CASE queue' = queues
      BY <1>7, <2>1
    <2>2. CASE queue' = OffQueue(t, p, c, queues)
      BY <1>7, <2>2 DEF OffQueue, Queues
    <2> QED BY <1>1, <2>1, <2>2 DEF NoAck, AckTaken, c
  <1>9. QueueInv'
    BY <1>7, <1>8 DEF QueueInv
  <1>10. pending' \in [Player -> SUBSET Command]
    <2>1. CASE acked
      <3>1. PICK alsoOwner \in BOOLEAN :
              pending' = [q \in Player |->
                            IF IsBoth(p, m) /\ (q = t \/ (alsoOwner /\ q = Owner[c]))
                              THEN Settled(q, c) ELSE pending[q]]
        BY <1>1, <2>1 DEF AckTaken, c
      <3> QED BY <1>5, <3>1 DEF Settled, Types
    <2>2. CASE ~ acked
      BY <1>1, <1>5, <2>2 DEF NoAck, Types
    <2> QED BY <2>1, <2>2
  <1>11. Types'
    BY <1>1, <1>2, <1>5, <1>6, <1>8, <1>10 DEF Types, Queues
  <1>12. PlanInv'
    BY <1>1 DEF Inv, PlanInv, In
  <1>13. RelayedInv'
    <2> SUFFICES ASSUME NEW q \in Player
                 PROVE  /\ DOMAIN relayed'[q] \subseteq Command
                        /\ \A d \in DOMAIN relayed'[q] : relayed'[q][d] \in (SUBSET Player) \ {{}}
      BY <1>1 DEF RelayedInv
    <2>1. /\ DOMAIN relayed[q] \subseteq Command
          /\ \A d \in DOMAIN relayed[q] : relayed[q][d] \in (SUBSET Player) \ {{}}
      BY DEF Inv, RelayedInv
    <2>2. CASE relayed'[q] = AddedTo(q, c, to)
      BY <1>2, <1>3, <2>1, <2>2 DEF AddedTo, c
    <2>3. CASE relayed'[q] = Cleared(q, p, c)
      BY <2>1, <2>3 DEF Cleared, StillToAck
    <2>4. CASE relayed'[q] = relayed[q]
      BY <2>1, <2>4
    <2> QED BY <1>1, <2>2, <2>3, <2>4
  <1> QED BY <1>9, <1>11, <1>12, <1>13 DEF Inv

-----------------------------------------------------------------------------
(* Players go.                                                              *)

LEMMA DropInv ==
  ASSUME Inv, NEW p \in Player, In(p), NEW x \in Player, x # p, x \in Range(fallback[p]),
         NEW state \in {"quitting", "none"}, NEW kept \in SUBSET queue[p][x],
         Drop(p, x, state, kept)
  PROVE  /\ conn' \in [Player -> Connections]
         /\ queue' \in [Player -> Queues] /\ wire' \in Queues
         /\ router' \in [Player -> Player \cup {NoRouter}]
         /\ fallback' \in [Player -> Seq(Player)]
         /\ QueueInv'
         /\ \A q \in Player :
              /\ Increasing(fallback'[q])
              /\ In(q) => q \in Range(fallback'[q]) /\ router'[q] = fallback'[q][1]
  <1> DEFINE conns  == [conn[p] EXCEPT ![x] = IF @ = "none" THEN @ ELSE state]
             queues == [queue[p] EXCEPT ![x] = kept]
             sent   == Sent(p, RouterWithout(p, x), Resent(p, x))
             qs     == Queued(conns, queues, sent)
  <1>1. /\ conn' = [conn EXCEPT ![p] = conns]
        /\ queue' = [queue EXCEPT ![p] = qs]
        /\ wire' = OnWire(conns, sent)
        /\ router' = [router EXCEPT ![p] = RouterWithout(p, x)]
        /\ fallback' = [fallback EXCEPT ![p] = FallbackWithout(p, x)]
    BY Zenon DEF Drop
  <1>2. conns \in Connections
    BY DEF Inv, Types, Connections
  <1>3. queues \in Queues /\ \A q \in Player : queues[q] \subseteq wire[q]
    BY DEF Inv, Types, QueueInv, Queues
  <1>4. \A q \in Player : sent[q] \subseteq Message
    <2>1. Resent(p, x) \in SUBSET Command
      BY DEF Resent, Inv, Types
    <2> QED BY <2>1, SentTypes
  <1> HIDE DEF conns, queues, sent
  <1>5. /\ qs \in Queues /\ wire' \in Queues
        /\ \A q \in Player : qs[q] \subseteq wire'[q] /\ wire[q] \subseteq wire'[q]
    BY <1>1, <1>3, <1>4, Sends DEF Inv
  <1> HIDE DEF qs
  <1>6. queue' \in [Player -> Queues] /\ QueueInv'
    BY <1>1, <1>5, QueuesOnWire
  <1>7. conn' \in [Player -> Connections]
    BY <1>1, <1>2 DEF Inv, Types, Connections
  <1>8. /\ FallbackWithout(p, x) \in Seq(Player) /\ Increasing(FallbackWithout(p, x))
        /\ p \in Range(FallbackWithout(p, x))
        /\ RouterWithout(p, x) \in Player \cup {NoRouter}
        /\ RouterWithout(p, x) = FallbackWithout(p, x)[1]
    <2>1. p \in Range(fallback[p]) \ {x} /\ router[p] = fallback[p][1]
          /\ router[p] \in Player \cup {NoRouter}
      BY DEF Inv, PlanInv, Types
    <2> QED BY <2>1, PlanWithout DEF RouterWithout
  <1>9. /\ router' \in [Player -> Player \cup {NoRouter}]
        /\ fallback' \in [Player -> Seq(Player)]
    BY <1>1, <1>8 DEF Inv, Types
  <1>10. \A q \in Player :
           /\ Increasing(fallback'[q])
           /\ In(q) => q \in Range(fallback'[q]) /\ router'[q] = fallback'[q][1]
    <2> TAKE q \in Player
    <2>1. CASE q = p
      BY <1>1, <1>8, <2>1 DEF Inv, Types
    <2>2. CASE q # p
      BY <1>1, <2>2 DEF Inv, Types, PlanInv
    <2> QED BY <2>1, <2>2
  <1> QED BY <1>5, <1>6, <1>7, <1>9, <1>10

LEMMA ExecuteInv ==
  ASSUME Inv, NEW p \in Player, ExecuteFrame(p)
  PROVE  Inv'
  <1>1. /\ In(p) /\ frame[p] <= MaxFrame /\ frame' = [frame EXCEPT ![p] = frame[p] + 1]
        /\ UNCHANGED <<has, pending, relayed, issued>>
    BY DEF ExecuteFrame
  <1>2. frame' \in [Player -> 1 .. MaxFrame + 1]
    BY <1>1, PacketRouterAssumption DEF Inv, Types
  <1>3. RelayedInv'
    BY <1>1 DEF Inv, RelayedInv
  <1>4. CASE UNCHANGED <<status, conn, queue, wire, router, fallback>>
    BY <1>1, <1>2, <1>3, <1>4 DEF Inv, Types, PlanInv, QueueInv, In
  <1>5. CASE LeaveGame(p)
    <2>1. /\ status' = [status EXCEPT ![p] = "left"]
          /\ conn' = [conn EXCEPT ![p] = [q \in Player |-> IF @[q] = "open" THEN "quitting" ELSE @[q]]]
          /\ queue' = [queue EXCEPT ![p] = [q \in Player |-> OwnOf(p, @[q])]]
          /\ router' = [router EXCEPT ![p] = RouterWithout(p, p)]
          /\ fallback' = [fallback EXCEPT ![p] = FallbackWithout(p, p)]
          /\ wire' = wire
      BY <1>5 DEF LeaveGame
    <2>2. p \in Range(fallback[p]) /\ router[p] \in Player \cup {NoRouter}
      BY <1>1 DEF Inv, PlanInv, Types
    <2>3. /\ FallbackWithout(p, p) \in Seq(Player) /\ Increasing(FallbackWithout(p, p))
          /\ RouterWithout(p, p) \in Player \cup {NoRouter}
      BY <2>2, PlanWithout DEF RouterWithout
    <2>4. /\ status' \in [Player -> {"playing", "left", "crashed"}]
          /\ conn' \in [Player -> [Player -> {"open", "quitting", "none"}]]
          /\ router' \in [Player -> Player \cup {NoRouter}]
          /\ fallback' \in [Player -> Seq(Player)]
      BY <2>1, <2>3 DEF Inv, Types
    <2>5. queue' \in [Player -> [Player -> SUBSET Message]] /\ QueueInv'
      BY <2>1 DEF OwnOf, Inv, Types, QueueInv
    <2>6. Types'
      BY <1>1, <1>2, <2>1, <2>4, <2>5 DEF Inv, Types
    <2>7. PlanInv'
      <3> SUFFICES ASSUME NEW q \in Player
                   PROVE  /\ Increasing(fallback'[q])
                          /\ In(q)' => q \in Range(fallback'[q]) /\ router'[q] = fallback'[q][1]
        BY DEF PlanInv
      <3>1. CASE q = p
        BY <2>1, <2>3, <3>1 DEF Inv, Types, In
      <3>2. CASE q # p
        BY <2>1, <3>2 DEF Inv, Types, PlanInv, In
      <3> QED BY <3>1, <3>2
    <2> QED BY <1>3, <2>5, <2>6, <2>7 DEF Inv
  <1>6. ASSUME NEW x \in Leavers(p, frame[p]) \ {p}, Drop(p, x, "quitting", queue[p][x]),
               UNCHANGED status
        PROVE  Inv'
    <2>1. x \in Player /\ x \in Range(fallback[p])
      <3>1. x \in Player /\ x \notin Gone(p)
        BY PacketRouterAssumption DEF Leavers
      <3> QED BY <3>1 DEF Gone
    <2>2. /\ conn' \in [Player -> Connections]
          /\ queue' \in [Player -> Queues] /\ wire' \in Queues
          /\ router' \in [Player -> Player \cup {NoRouter}]
          /\ fallback' \in [Player -> Seq(Player)]
          /\ QueueInv'
          /\ \A q \in Player :
               /\ Increasing(fallback'[q])
               /\ In(q) => q \in Range(fallback'[q]) /\ router'[q] = fallback'[q][1]
      BY <1>1, <1>6, <2>1, DropInv
    <2>3. Types'
      BY <1>1, <1>2, <1>6, <2>2 DEF Inv, Types, Connections, Queues
    <2>4. PlanInv'
      BY <1>6, <2>2 DEF PlanInv, In
    <2> QED BY <1>3, <2>2, <2>3, <2>4 DEF Inv
  <1> QED BY <1>4, <1>5, <1>6 DEF ExecuteFrame

LEMMA DisconnectInv ==
  ASSUME Inv, NEW p \in Player, NEW x \in Player, Disconnect(p, x)
  PROVE  Inv'
  <1>1. /\ In(p) /\ status[x] = "crashed" /\ x \notin Gone(p)
        /\ Drop(p, x, "none", {})
        /\ has' = [has EXCEPT ![p] = {c \in @ : Owner[c] # x}]
        /\ UNCHANGED <<frame, status, pending, relayed, issued>>
    BY DEF Disconnect
  <1>2. x # p /\ x \in Range(fallback[p])
    BY <1>1 DEF In, Gone
  <1>3. /\ conn' \in [Player -> Connections]
        /\ queue' \in [Player -> Queues] /\ wire' \in Queues
        /\ router' \in [Player -> Player \cup {NoRouter}]
        /\ fallback' \in [Player -> Seq(Player)]
        /\ QueueInv'
        /\ \A q \in Player :
             /\ Increasing(fallback'[q])
             /\ In(q) => q \in Range(fallback'[q]) /\ router'[q] = fallback'[q][1]
    BY <1>1, <1>2, DropInv
  <1>4. Types'
    BY <1>1, <1>3 DEF Inv, Types, Connections, Queues
  <1>5. PlanInv' /\ RelayedInv'
    BY <1>1, <1>3 DEF Inv, PlanInv, RelayedInv, In
  <1> QED BY <1>3, <1>4, <1>5 DEF Inv

LEMMA NextInv == Inv /\ [Next]_vars => Inv'
  <1> SUFFICES ASSUME Inv, [Next]_vars PROVE Inv'
    OBVIOUS
  <1>1. CASE UNCHANGED vars
    BY <1>1 DEF vars, links, Inv, Types, PlanInv, QueueInv, RelayedInv, In
  <1>2. ASSUME NEW p \in Player, NEW q \in Player, DeleteConnection(p, q)
        PROVE  Inv'
    BY <1>2 DEF DeleteConnection, Inv, Types, PlanInv, QueueInv, RelayedInv, In
  <1>3. ASSUME NEW x \in Player, Crash(x)
        PROVE  Inv'
    <2>1. /\ status' = [status EXCEPT ![x] = "crashed"]
          /\ UNCHANGED <<frame, has, fallback, router, conn, queue, pending, relayed, wire, issued>>
      BY <1>3 DEF Crash, links
    <2>2. \A q \in Player : In(q)' => In(q)
      BY <2>1 DEF Inv, Types, In
    <2>3. Types' /\ QueueInv' /\ RelayedInv'
      BY <2>1 DEF Inv, Types, QueueInv, RelayedInv
    <2>4. PlanInv'
      BY <2>1, <2>2 DEF Inv, PlanInv
    <2> QED BY <2>3, <2>4 DEF Inv
  <1> QED BY <1>1, <1>2, <1>3, IssueInv, ReceiveInv, ExecuteInv, DisconnectInv DEF Next

-----------------------------------------------------------------------------
\* Every variable keeps its type, no plan holds a player twice, and no command
\* is kept as relayed once everybody's acks are there.
THEOREM TypeCorrectness == Spec => []TypeOK
  <1>1. Inv => TypeOK
    <2> SUFFICES ASSUME Inv PROVE TypeOK
      OBVIOUS
    <2>1. ASSUME NEW p \in Player
          PROVE  IsInjective(fallback[p]) /\ Range(fallback[p]) \subseteq Player
      <3>1. fallback[p] \in Seq(Player) /\ Increasing(fallback[p])
        BY DEF Inv, Types, PlanInv
      <3>2. /\ DOMAIN fallback[p] = 1 .. Len(fallback[p]) /\ Len(fallback[p]) \in Nat
            /\ \A i \in 1 .. Len(fallback[p]) : fallback[p][i] \in Player /\ fallback[p][i] \in Nat
        BY <3>1, LenProperties, ElementOfSeq, PlayersAreNumbers
      <3>3. IsInjective(fallback[p])
        BY <3>1, <3>2 DEF Increasing, IsInjective
      <3> QED BY <3>2, <3>3 DEF Range
    <2>2. \A p \in Player : \A q \in Player : queue[p][q] \subseteq wire[q]
      BY DEF Inv, QueueInv
    <2> QED BY <2>1, <2>2 DEF Inv, Types, RelayedInv, TypeOK
  <1> QED BY <1>1, InitInv, NextInv, PTL DEF Spec

\* However many players leave and crash, a player in the game routes through the
\* lowest slot still in the game for him, and finds the next one inside his plan.
THEOREM RoutersAreInPlan == Spec => []RouterInPlan
  <1>1. Inv => RouterInPlan
    <2> SUFFICES ASSUME Inv, NEW p \in Player, In(p)
                 PROVE  /\ fallback[p] # <<>> /\ router[p] = fallback[p][1]
                        /\ \A q \in Range(fallback[p]) : router[p] <= q
      BY DEF RouterInPlan
    <2> DEFINE s == fallback[p]
    <2>1. s \in Seq(Player) /\ Increasing(s) /\ p \in Range(s) /\ router[p] = s[1]
      BY DEF Inv, Types, PlanInv
    <2>2. /\ DOMAIN s = 1 .. Len(s) /\ Len(s) \in Nat
          /\ \A i \in 1 .. Len(s) : s[i] \in Player /\ s[i] \in Nat
      BY <2>1, LenProperties, ElementOfSeq, PlayersAreNumbers
    <2> HIDE DEF s
    <2>3. \A i \in 1 .. Len(s) : s[1] <= s[i]
      BY <2>1, <2>2 DEF Increasing
    <2>4. s # <<>>
      BY <2>1, <2>2, EmptySeq DEF Range
    <2> QED BY <2>1, <2>2, <2>3, <2>4 DEF Range, s
  <1> QED BY <1>1, InitInv, NextInv, PTL DEF Spec

-----------------------------------------------------------------------------
(* What is on its way.                                                      *)

\* A copy is for its receiver alone, or for all but the owner to be relayed.  One
\* to be relayed was sent to a router of the owner, and one that is not comes
\* from an owner who routes himself or from who had one to relay to him.
CopyOk(y, m) ==
  /\ m.command \in issued /\ y \in m.relay /\ Owner[m.command] \notin m.relay
  /\ m.relay = {y} \/ m.relay = Player \ {Owner[m.command]}
  /\ In(Owner[m.command]) /\ m.relay # {y} =>
       /\ y = router[Owner[m.command]] \/ y \in Gone(Owner[m.command])
       /\ Plan[1] \notin Gone(Owner[m.command]) => y = Plan[1]
  /\ In(Owner[m.command]) /\ m.relay # Player \ {Owner[m.command]} =>
       \/ router[Owner[m.command]] = Owner[m.command]
       \/ \E x \in Player \ {y} : \E n \in wire[x] : n.command = m.command /\ y \in n.relay

CopyInv == \A y \in Player : \A m \in wire[y] : CopyOk(y, m)

\* A player in the game has open connections to those who are in it for him, and
\* one who has left has none.
LinkInv ==
  \A p \in Player :
    /\ conn[p][p] = "none"
    /\ In(p) => \A q \in Player \ {p} : IsOpen(p, q) <=> q \in Range(fallback[p])
    /\ status[p] = "left" => OpenTo(p) = {}

\* Pending is what is one's own, relayed what one has, to whom he got it for; and
\* a frame was executed with the commands of those who are in the game still.
HoldInv ==
  /\ issued \subseteq Command
  /\ \A p \in Player :
       /\ has[p] \subseteq issued
       /\ \A c \in pending[p] : c \in issued /\ Owner[c] = p
       /\ \A c \in DOMAIN relayed[p] :
            /\ In(Owner[c]) => c \in has[p]
            /\ \A s \in relayed[p][c] :
                 s # p /\ \E m \in wire[p] : m.command = c /\ s \in m.relay
       /\ In(p) => \A c \in Command :
            Frame[c] < frame[p] /\ Owner[c] \notin Gone(p) => c \in has[p]

Needs(q, c) ==
  Lacks(q, c) /\ ~ Dropped(q) /\ (Len(Plan) <= 3 \/ ~ Dropped(Plan[1]))

\* The owner sends c to q, or to the router until he has it; the router, until q
\* has it, sends it on and waits for his ack, and so long it is pending.
Conveyed(q, c) ==
  LET p == Owner[c]
      r == router[p]
  IN  IF r \in {p, q} THEN Carries(p, q, c)
      ELSE /\ c \in pending[p]
           /\ In(r) => IF c \in has[r]
                         THEN /\ Carries(r, q, c)
                              /\ c \in DOMAIN relayed[r] /\ q \in relayed[r][c]
                         ELSE Carries(p, r, c)

ConveyInv == \A c \in Command : \A q \in Player : Needs(q, c) => Conveyed(q, c)

WayInv == LinkInv /\ CopyInv /\ HoldInv

-----------------------------------------------------------------------------
(* Players, plans and routers.                                              *)

LEMMA ThreePlayers ==
  ASSUME Len(Plan) <= 3, NEW p \in Player, NEW q \in Player, NEW r \in Player, NEW y \in Player,
         p # q, p # r, q # r
  PROVE  y \in {p, q, r}
  <1>1. DOMAIN Plan = 1 .. Len(Plan) /\ Len(Plan) \in Nat
    BY PlayersAreNumbers, LenProperties
  <1>2. DOMAIN Plan \subseteq {1, 2, 3}
    BY <1>1
  <1>3. PICK i, j, k, l \in {1, 2, 3} : p = Plan[i] /\ q = Plan[j] /\ r = Plan[k] /\ y = Plan[l]
    BY <1>2 DEF Player, Range
  <1> QED BY <1>3

\* The first of a player's plan is in it and is the lowest; the first of all
\* routes as long as he is in it.
LEMMA FirstOfPlanRoutes ==
  ASSUME Inv, NEW p \in Player, In(p)
  PROVE  /\ router[p] \in Range(fallback[p]) /\ router[p] \in Player
         /\ Plan[1] \in Range(fallback[p]) => router[p] = Plan[1]
  <1> DEFINE s == fallback[p]
  <1>1. s \in Seq(Player) /\ Increasing(s) /\ p \in Range(s) /\ router[p] = s[1]
    BY DEF Inv, Types, PlanInv
  <1>2. /\ DOMAIN s = 1 .. Len(s) /\ Len(s) \in Nat
        /\ \A i \in 1 .. Len(s) : s[i] \in Player /\ s[i] \in Nat
    BY <1>1, LenProperties, ElementOfSeq, PlayersAreNumbers
  <1> HIDE DEF s
  <1>3. 1 \in 1 .. Len(s)
    BY <1>1, <1>2 DEF Range
  <1>4. ASSUME Plan[1] \in Range(s) PROVE s[1] = Plan[1]
    <2>1. PICK i \in 1 .. Len(s) : s[i] = 0
      BY <1>2, <1>4, PacketRouterAssumption DEF Range
    <2>2. s[1] <= s[i]
      BY <1>1, <1>2, <1>3 DEF Increasing
    <2> QED BY <1>2, <1>3, <2>1, <2>2, PacketRouterAssumption
  <1> QED BY <1>1, <1>2, <1>3, <1>4 DEF Range, s

\* While q lacks c and p routes through r, nobody but r has a copy to relay,
\* and r has no other.
LEMMA OneRelays ==
  ASSUME Inv, WayInv, NEW q \in Player, NEW c \in Command, Needs(q, c),
         router[Owner[c]] \notin {Owner[c], q}
  PROVE  /\ \A y \in Player : \A m \in wire[y] : \A z \in m.relay :
              m.command = c /\ z # y => y = router[Owner[c]]
         /\ \A m \in wire[router[Owner[c]]] :
              m.command = c => m.relay = Player \ {Owner[c]}
         /\ Len(Plan) > 3 => /\ router[Owner[c]] = Plan[1]
                             /\ \A s \in Player : In(s) /\ s # Plan[1] => router[s] = Plan[1]
  <1> DEFINE p == Owner[c]
             r == router[p]
  <1>1. p \in Player /\ In(p) /\ p # q /\ ~ Dropped(q)
    BY PacketRouterAssumption DEF Needs, Lacks
  <1>2. r \in Player /\ r \in Range(fallback[p])
    BY <1>1, FirstOfPlanRoutes
  <1>3. Len(Plan) \in Nat /\ Plan[1] \in Player
    BY PlayersAreNumbers, LenProperties, PacketRouterAssumption
  <1>4. ASSUME Len(Plan) > 3
        PROVE  \A s \in Player : s # Plan[1] => Plan[1] \in Range(fallback[s])
    BY <1>3, <1>4 DEF Needs, Dropped, Gone
  <1>5. ASSUME Len(Plan) > 3, NEW s \in Player, In(s), s # Plan[1]
        PROVE  router[s] = Plan[1]
    BY <1>4, <1>5, FirstOfPlanRoutes
  <1>6. ASSUME Len(Plan) > 3
        PROVE  r = Plan[1] /\ p # Plan[1]
    <2>1. CASE p = Plan[1]
      <3>1. p \in Range(fallback[p])
        BY <1>1 DEF Inv, PlanInv
      <3> QED BY <1>1, <2>1, <3>1, FirstOfPlanRoutes
    <2>2. CASE p # Plan[1]
      BY <1>1, <1>5, <1>6, <2>2
    <2> QED BY <2>1, <2>2
  <1>7. ASSUME NEW y \in Player, NEW m \in wire[y], NEW z \in m.relay, m.command = c, z # y
        PROVE  y = r
    <2>1. /\ y \in m.relay /\ p \notin m.relay
          /\ y = r \/ y \in Gone(p)
          /\ Plan[1] \notin Gone(p) => y = Plan[1]
      <3>1. m.relay # {y}
        BY <1>7
      <3> QED BY <1>1, <1>7, <3>1, Zenon DEF WayInv, CopyInv, CopyOk
    <2>2. CASE Len(Plan) <= 3
      <3>1. y \in {p, q, r}
        BY <1>1, <1>2, <2>2, ThreePlayers
      <3>2. y # p /\ y # q
        BY <1>1, <2>1 DEF Dropped
      <3> QED BY <3>1, <3>2
    <2>3. CASE Len(Plan) > 3
      BY <1>1, <1>4, <1>6, <2>1, <2>3 DEF Gone
    <2> QED BY <1>3, <2>2, <2>3
  <1>8. ASSUME NEW m \in wire[r], m.command = c PROVE m.relay = Player \ {p}
    <2> SUFFICES ASSUME m.relay # Player \ {p} PROVE FALSE
      OBVIOUS
    <2>1. r = p \/ \E x \in Player \ {r} : \E n \in wire[x] : n.command = c /\ r \in n.relay
      BY <1>1, <1>2, <1>8, Zenon DEF WayInv, CopyInv, CopyOk
    <2>2. PICK x \in Player \ {r} : \E n \in wire[x] : n.command = c /\ r \in n.relay
      BY <2>1
    <2> QED BY <1>7, <2>2
  <1> QED BY <1>5, <1>6, <1>7, <1>8

\* Somebody who lacks what he needs is not the owner, nor dropped by anybody.
LEMMA WhoNeeds ==
  ASSUME Inv, LinkInv, NEW q \in Player, NEW c \in Command, Needs(q, c)
  PROVE  /\ Owner[c] \in Player /\ Owner[c] # q
         /\ In(q) /\ In(Owner[c]) /\ c \in issued /\ c \notin has[q]
         /\ frame[q] <= Frame[c] /\ Exists(q, Owner[c])
         /\ \A s \in Player \ {q} : q \in Range(fallback[s]) /\ (In(s) => IsOpen(s, q))
  <1>1. /\ Owner[c] \in Player /\ Owner[c] # q
        /\ In(q) /\ In(Owner[c]) /\ c \in issued /\ c \notin has[q]
        /\ frame[q] <= Frame[c] /\ Owner[c] \in Range(fallback[q])
    BY PacketRouterAssumption DEF Needs, Lacks, Gone
  <1>2. Exists(q, Owner[c])
    BY <1>1 DEF LinkInv, Exists, IsOpen
  <1>3. \A s \in Player \ {q} : q \in Range(fallback[s])
    BY DEF Needs, Dropped, Gone
  <1> QED BY <1>1, <1>2, <1>3 DEF LinkInv

\* Nobody begins to need what was issued already.
LEMMA NeededBefore ==
  ASSUME Inv, Inv', NEW q \in Player, NEW c \in Command, Needs(q, c)',
         \A s \in Player : In(s)' => In(s),
         \A s \in Player : Range(fallback'[s]) \subseteq Range(fallback[s]),
         c \in issued, c \in has[q] => c \in has'[q], frame[q] <= frame'[q]
  PROVE  Needs(q, c)
  <1>1. \A x \in Player : Dropped(x) => Dropped(x)'
    BY DEF Dropped, Gone
  <1>2. Owner[c] \in Player /\ Plan[1] \in Player
    BY PacketRouterAssumption, PlayersAreNumbers
  <1>3. frame[q] \in Int /\ frame'[q] \in Int /\ Frame[c] \in Int
    BY PacketRouterAssumption DEF Inv, Types
  <1>4. Lacks(q, c)
    BY <1>2, <1>3 DEF Needs, Lacks, Gone
  <1> QED BY <1>1, <1>2, <1>4 DEF Needs

\* A copy stays what it is while routers only go and wires only fill.
LEMMA CopyStays ==
  ASSUME Inv, NEW y \in Player, NEW m \in wire[y], CopyOk(y, m),
         issued \subseteq issued', \A x \in Player : wire[x] \subseteq wire'[x],
         In(Owner[m.command])' => In(Owner[m.command]),
         Range(fallback'[Owner[m.command]]) \subseteq Range(fallback[Owner[m.command]]),
         In(Owner[m.command])' =>
           \/ router'[Owner[m.command]] = router[Owner[m.command]]
           \/ /\ router[Owner[m.command]] # Owner[m.command]
              /\ router[Owner[m.command]] \in Gone(Owner[m.command])'
  PROVE  CopyOk(y, m)'
  <1> DEFINE p == Owner[m.command]
  <1>1. Gone(p) \subseteq Gone(p)'
    BY DEF Gone
  <1>2. m.command \in issued' /\ y \in m.relay /\ p \notin m.relay
        /\ (m.relay = {y} \/ m.relay = Player \ {p})
    BY DEF CopyOk
  <1>3. ASSUME In(p)', m.relay # {y}
        PROVE  /\ y = router'[p] \/ y \in Gone(p)'
               /\ Plan[1] \notin Gone(p)' => y = Plan[1]
    BY <1>1, <1>3 DEF CopyOk
  <1>4. ASSUME In(p)', m.relay # Player \ {p}
        PROVE  \/ router'[p] = p
               \/ \E x \in Player \ {y} : \E n \in wire'[x] : n.command = m.command /\ y \in n.relay
    <2>1. CASE router[p] = p
      BY <1>4, <2>1
    <2>2. CASE router[p] # p
      BY <1>4, <2>2, Zenon DEF CopyOk
    <2> QED BY <2>1, <2>2
  <1> QED BY <1>2, <1>3, <1>4 DEF CopyOk

\* What connections send stays when sets of what they send only grow.
LEMMA CarriesStays ==
  ASSUME NEW a, NEW b, NEW c, Carries(a, b, c), queue[a][b] \subseteq queue'[a][b]
  PROVE  Carries(a, b, c)'
BY DEF Carries

LEMMA OneMessage ==
  ASSUME NEW c, NEW relay
  PROVE  [command : {c}, relay : {relay}] = {[command |-> c, relay |-> relay]}
  <1>1. ASSUME NEW m \in [command : {c}, relay : {relay}]
        PROVE  m = [command |-> c, relay |-> relay]
    OBVIOUS
  <1>2. [command |-> c, relay |-> relay] \in [command : {c}, relay : {relay}]
    OBVIOUS
  <1> QED BY <1>1, <1>2

LEMMA InitWay == Init => WayInv /\ ConveyInv
  <1> SUFFICES ASSUME Init PROVE WayInv /\ ConveyInv
    OBVIOUS
  <1>1. Range(Plan) = Player /\ Frame \in [Command -> RunAhead + 1 .. MaxFrame]
        /\ RunAhead \in Nat
    BY PacketRouterAssumption DEF Player
  <1>2. LinkInv
    BY <1>1 DEF Init, LinkInv, In, IsOpen
  <1>3. CopyInv
    BY DEF Init, CopyInv
  <1>4. HoldInv
    <2> SUFFICES ASSUME NEW p \in Player, NEW c \in Command, Frame[c] < frame[p] PROVE FALSE
      BY DEF Init, HoldInv
    <2> QED BY <1>1 DEF Init
  <1>5. ConveyInv
    BY DEF Init, ConveyInv, Needs, Lacks
  <1> QED BY <1>2, <1>3, <1>4, <1>5 DEF WayInv

-----------------------------------------------------------------------------
(* A command is issued.                                                     *)

LEMMA IssueWay ==
  ASSUME Inv, Inv', WayInv, ConveyInv, NEW c \in Command, Issue(c)
  PROVE  WayInv' /\ ConveyInv'
  <1> DEFINE p == Owner[c]
             r == router[p]
             sent == Sent(p, r, {c})
  <1>1. /\ In(p) /\ c \notin issued /\ issued' = issued \cup {c}
        /\ has' = [has EXCEPT ![p] = @ \cup {c}]
        /\ queue' = [queue EXCEPT ![p] = Queued(conn[p], @, sent)]
        /\ wire' = OnWire(conn[p], sent)
        /\ pending' = [pending EXCEPT ![p] = IF ThroughRouter(p, r) THEN @ \cup {c} ELSE @]
        /\ UNCHANGED <<frame, status, fallback, router, conn, relayed>>
    BY Zenon DEF Issue
  <1>2. p \in Player /\ r \in Player /\ r \in Range(fallback[p])
    BY <1>1, FirstOfPlanRoutes, PacketRouterAssumption
  <1>3. ThroughRouter(p, r) <=> r # p
    BY <1>1, <1>2 DEF ThroughRouter, Exists, WayInv, LinkInv, IsOpen
  <1>4. \A y \in Player :
          sent[y] = IF r # p THEN IF y = r THEN {[command |-> c, relay |-> Player \ {p}]} ELSE {}
                    ELSE IF y # p THEN {[command |-> c, relay |-> {y}]} ELSE {}
    BY <1>3, OneMessage DEF Sent
  <1>5. /\ \A y \in Player : wire[y] \subseteq wire'[y]
        /\ \A y \in Player : \A m \in wire'[y] \ wire[y] : m \in sent[y]
        /\ \A y \in Player : IsOpen(p, y) => sent[y] \subseteq queue'[p][y]
        /\ \A a, y \in Player : queue[a][y] \subseteq queue'[a][y]
    BY <1>1, <1>2 DEF OnWire, Queued, IsOpen, Inv, Types
  <1> HIDE DEF sent
  <1>6. LinkInv'
    BY <1>1 DEF WayInv, LinkInv, In, IsOpen, OpenTo
  <1>7. CopyInv'
    <2> SUFFICES ASSUME NEW y \in Player, NEW m \in wire'[y]
                 PROVE  CopyOk(y, m)'
      BY DEF CopyInv
    <2>1. CASE m \in wire[y]
      <3>1. CopyOk(y, m)
        BY <2>1 DEF WayInv, CopyInv
      <3> QED BY <1>1, <1>5, <2>1, <3>1, CopyStays DEF In
    <2>2. CASE m \notin wire[y]
      <3>1. m \in sent[y]
        BY <1>5, <2>2
      <3>2. CASE r = p
        <4>1. m = [command |-> c, relay |-> {y}] /\ y # p
          <5>1. sent[y] = IF y # p THEN {[command |-> c, relay |-> {y}]} ELSE {}
            BY <1>4, <3>2
          <5> QED BY <3>1, <5>1
        <4> QED BY <1>1, <1>2, <3>2, <4>1 DEF CopyOk
      <3>3. CASE r # p
        <4>1. m = [command |-> c, relay |-> Player \ {p}] /\ y = r
          <5>1. sent[y] = IF y = r THEN {[command |-> c, relay |-> Player \ {p}]} ELSE {}
            BY <1>4, <3>3
          <5> QED BY <3>1, <5>1
        <4>2. Plan[1] \notin Gone(p) => y = Plan[1]
          BY <1>1, <1>2, <4>1, FirstOfPlanRoutes, PlayersAreNumbers, PacketRouterAssumption DEF Gone
        <4> QED BY <1>1, <1>2, <3>3, <4>1, <4>2 DEF CopyOk, Gone
      <3> QED BY <3>2, <3>3
    <2> QED BY <2>1, <2>2
  <1>8. HoldInv'
    <2>1. issued' \subseteq Command
      BY <1>1 DEF WayInv, HoldInv
    <2>2. ASSUME NEW s \in Player
          PROVE  /\ has'[s] \subseteq issued'
                 /\ \A d \in pending'[s] : d \in issued' /\ Owner[d] = s
                 /\ has[s] \subseteq has'[s]
      BY <1>1, <1>2 DEF WayInv, HoldInv, Inv, Types
    <2>3. ASSUME NEW s \in Player, NEW d \in DOMAIN relayed'[s]
          PROVE  /\ In(Owner[d])' => d \in has'[s]
                 /\ \A y \in relayed'[s][d] :
                      y # s /\ \E m \in wire'[s] : m.command = d /\ y \in m.relay
      BY <1>1, <1>5, <2>2, <2>3 DEF WayInv, HoldInv, In
    <2>4. ASSUME NEW s \in Player, In(s)', NEW d \in Command, Frame[d] < frame'[s],
                 Owner[d] \notin Gone(s)'
          PROVE  d \in has'[s]
      BY <1>1, <2>2, <2>4 DEF WayInv, HoldInv, In, Gone
    <2> QED BY <2>1, <2>2, <2>3, <2>4 DEF HoldInv
  <1>9. ConveyInv'
    <2> SUFFICES ASSUME NEW d \in Command, NEW q \in Player, Needs(q, d)'
                 PROVE  Conveyed(q, d)'
      BY DEF ConveyInv
    <2>1. CASE d = c
      <3>1. p # q /\ IsOpen(p, q)
        <4>1. p # q /\ q \in Range(fallback[p])
          BY <1>1, <1>2, <2>1 DEF Needs, Lacks, Dropped, Gone
        <4> QED BY <1>1, <1>2, <4>1 DEF WayInv, LinkInv
      <3>2. CASE r \in {p, q}
        <4>1. PICK relay : [command |-> c, relay |-> relay] \in sent[q]
          <5>1. sent[q] = {[command |-> c, relay |-> IF r = p THEN {q} ELSE Player \ {p}]}
            BY <1>4, <3>1, <3>2
          <5> QED BY <5>1
        <4>2. \E n \in queue'[p][q] : n.command = c
          <5>1. sent[q] \subseteq queue'[p][q]
            BY <1>5, <3>1
          <5> QED BY <4>1, <5>1
        <4> QED BY <1>1, <2>1, <3>2, <4>2 DEF Conveyed, Carries
      <3>3. CASE r \notin {p, q}
        <4>1. IsOpen(p, r)
          BY <1>1, <1>2, <3>3 DEF WayInv, LinkInv
        <4>2. \E n \in queue'[p][r] : n.command = c
          <5>1. sent[r] = {[command |-> c, relay |-> Player \ {p}]}
            BY <1>2, <1>4, <3>3
          <5>2. sent[r] \subseteq queue'[p][r]
            BY <1>2, <1>5, <4>1
          <5> HIDE DEF r
          <5> QED BY <5>1, <5>2
        <4>3. c \in pending'[p]
          BY <1>1, <1>2, <1>3, <3>3 DEF Inv, Types
        <4>4. c \notin has'[r]
          BY <1>1, <1>2, <3>3 DEF WayInv, HoldInv, Inv, Types
        <4> QED BY <1>1, <2>1, <3>3, <4>2, <4>3, <4>4 DEF Conveyed, Carries
      <3> QED BY <3>2, <3>3
    <2>2. CASE d # c
      <3>1. d \in issued
        BY <1>1, <2>2 DEF Needs, Lacks
      <3>2. Needs(q, d)
        <4>1. d \in has[q] => d \in has'[q]
          BY <1>1 DEF Inv, Types
        <4>2. frame[q] <= frame'[q]
          BY <1>1 DEF Inv, Types
        <4>3. \A s \in Player : (In(s)' => In(s)) /\ Range(fallback'[s]) \subseteq Range(fallback[s])
          BY <1>1 DEF In
        <4> QED BY <3>1, <4>1, <4>2, <4>3, NeededBefore
      <3>3. Conveyed(q, d)
        BY <3>2 DEF ConveyInv
      <3>4. \A s \in Player : d \in has'[s] <=> d \in has[s]
        BY <1>1, <1>2, <2>2 DEF Inv, Types
      <3>5. \A s \in Player : d \in pending[s] => d \in pending'[s]
        BY <1>1, <1>2 DEF Inv, Types
      <3>6. /\ Owner[d] \in Player /\ router[Owner[d]] \in Player
        BY <3>2, WhoNeeds, FirstOfPlanRoutes DEF WayInv
      <3>7. \A a, b \in Player : Carries(a, b, d) => Carries(a, b, d)'
        BY <1>5, CarriesStays
      <3> QED BY <1>1, <3>3, <3>4, <3>5, <3>6, <3>7 DEF Conveyed, In
    <2> QED BY <2>1, <2>2
  <1> QED BY <1>6, <1>7, <1>8, <1>9 DEF WayInv

-----------------------------------------------------------------------------
(* A copy is received.                                                      *)

\* What p sends on.
Relays(p, m) ==
  [q \in Player |-> IF q \in ActualRelay(p, m)
                      THEN {[command |-> m.command, relay |-> {q}]} ELSE {}]

\* What becomes of queues, acks and what is pending when p gets a copy.
LEMMA Received ==
  ASSUME Inv, Inv', WayInv, NEW p \in Player, NEW m \in wire[p], NEW acked \in BOOLEAN,
         Receive(p, m, acked)
  PROVE  LET c == m.command
             t == AckTo(p, c)
         IN  /\ c \in Command /\ c \in issued /\ Owner[c] \in Player
             /\ p \in m.relay /\ Owner[c] \notin m.relay /\ status[p] # "crashed"
             /\ \A y \in Player : wire[y] \subseteq wire'[y]
             /\ \A y \in Player : \A n \in wire'[y] \ wire[y] : n \in Relays(p, m)[y]
             /\ \A a, y \in Player : \A n \in queue[a][y] :
                  \/ n \in queue'[a][y]
                  \/ n.command = c /\ y = p /\ acked /\ a = t /\ IsOpen(p, t)
             /\ \A y \in Player \ {p} : IsOpen(p, y) => Relays(p, m)[y] \subseteq queue'[p][y]
             /\ \A q \in Player : \A d \in pending[q] :
                  \/ d \in pending'[q]
                  \/ /\ d = c /\ acked /\ AckArrives(p, t) /\ IsBoth(p, m)
                     /\ q = t \/ (q = Owner[c] /\ StageTwo(p, t, m))
             /\ \A q \in Player : pending'[q] \subseteq pending[q]
             /\ has' = IF Accepted(p, c) THEN [has EXCEPT ![p] = @ \cup {c}] ELSE has
             /\ relayed'[p] = AddedTo(p, c, ActualRelay(p, m))
             /\ \A q \in Player \ {p} :
                  relayed'[q] = relayed[q] \/ (q = t /\ relayed'[q] = Cleared(q, p, c))
             /\ UNCHANGED <<frame, status, fallback, router, conn, issued>>
  <1> DEFINE c    == m.command
             t    == AckTo(p, c)
             to   == ActualRelay(p, m)
             sent == Relays(p, m)
             qs   == Queued(conn[p], queue[p], sent)
             queues == [queue EXCEPT ![p] = qs]
  <1>1. /\ status[p] # "crashed"
        /\ IF acked THEN AckArrives(p, t) /\ AckTaken(p, t, m, queues) ELSE NoAck(queues)
        /\ wire' = OnWire(conn[p], sent)
        /\ has' = IF Accepted(p, c) /\ p \in m.relay
                    THEN [has EXCEPT ![p] = @ \cup {c}] ELSE has
        /\ relayed' = [q \in Player |->
                         CASE q = p -> AddedTo(p, c, to)
                           [] q = t /\ acked /\ IsBoth(p, m) -> Cleared(t, p, c)
                           [] OTHER -> relayed[q]]
        /\ UNCHANGED <<frame, status, fallback, router, conn, issued>>
    BY DEF Receive, Relays
  <1>2. m \in Message /\ c \in Command /\ m.relay \subseteq Player /\ Owner[c] \in Player
    <2>1. m \in Message
      BY DEF Inv, Types
    <2> QED BY <2>1, PacketRouterAssumption DEF Message
  <1>3. c \in issued /\ p \in m.relay /\ Owner[c] \notin m.relay
    BY DEF WayInv, CopyInv, CopyOk
  <1> HIDE DEF c, t, to, sent
  <1>4. /\ \A y \in Player : wire[y] \subseteq wire'[y]
        /\ \A y \in Player : \A n \in wire'[y] \ wire[y] : n \in sent[y]
    BY <1>1 DEF OnWire
  <1>5. /\ \A a, y \in Player : queue[a][y] \subseteq queues[a][y]
        /\ \A y \in Player : IsOpen(p, y) => sent[y] \subseteq queues[p][y]
        /\ queues \in [Player -> [Player -> SUBSET Message]]
    <2>1. qs \in [Player -> SUBSET Message]
      <3>1. \A q \in Player : sent[q] \subseteq Message
        BY <1>2 DEF Relays, ActualRelay, Message, c, sent
      <3>2. queue[p] \in Queues /\ \A q \in Player : queue[p][q] \subseteq wire[q]
        BY DEF Inv, Types, QueueInv, Queues
      <3> QED BY <3>1, <3>2, Sends DEF Inv, Queues
    <2>2. queues \in [Player -> [Player -> SUBSET Message]]
      BY <2>1 DEF Inv, Types
    <2>3. \A y \in Player : queue[p][y] \subseteq qs[y] /\ (IsOpen(p, y) => sent[y] \subseteq qs[y])
      BY DEF Queued, IsOpen
    <2> QED BY <2>2, <2>3 DEF Inv, Types
  <1> HIDE DEF qs, queues
  <1>6. /\ \A a, y \in Player : \A n \in queues[a][y] :
             \/ n \in queue'[a][y]
             \/ n.command = c /\ y = p /\ acked /\ a = t /\ IsOpen(p, t)
    <2>1. CASE ~ acked
      BY <1>1, <2>1 DEF NoAck
    <2>2. CASE acked
      <3>1. queue' = OffQueue(t, p, c, queues) /\ t \in Player /\ IsOpen(p, t)
        BY <1>1, <2>2 DEF AckTaken, AckArrives, c
      <3> QED BY <1>5, <2>2, <3>1 DEF OffQueue
    <2> QED BY <2>1, <2>2
  <1>7. \A a, y \in Player : \A n \in queue[a][y] :
             \/ n \in queue'[a][y]
             \/ n.command = c /\ y = p /\ acked /\ a = t /\ IsOpen(p, t)
    BY <1>5, <1>6
  <1>8. \A y \in Player \ {p} : IsOpen(p, y) => sent[y] \subseteq queue'[p][y]
    BY <1>5, <1>6
  <1>9. /\ \A q \in Player : \A d \in pending[q] :
             \/ d \in pending'[q]
             \/ /\ d = c /\ acked /\ AckArrives(p, t) /\ IsBoth(p, m)
                /\ q = t \/ (q = Owner[c] /\ StageTwo(p, t, m))
        /\ \A q \in Player : pending'[q] \subseteq pending[q]
    <2>1. CASE ~ acked
      BY <1>1, <2>1 DEF NoAck
    <2>2. CASE acked
      <3>1. PICK alsoOwner \in IF StageTwo(p, t, m) THEN BOOLEAN ELSE {FALSE} :
              pending' = [q \in Player |->
                            IF IsBoth(p, m) /\ (q = t \/ (alsoOwner /\ q = Owner[c]))
                              THEN Settled(q, c) ELSE pending[q]]
        BY <1>1, <2>2 DEF AckTaken, c
      <3>2. alsoOwner => StageTwo(p, t, m)
        BY <3>1
      <3>3. AckArrives(p, t)
        BY <1>1, <2>2
      <3> QED BY <2>2, <3>1, <3>2, <3>3 DEF Settled
    <2> QED BY <2>1, <2>2
  <1>10. has' = IF Accepted(p, c) THEN [has EXCEPT ![p] = @ \cup {c}] ELSE has
    BY <1>1, <1>3
  <1>11. /\ relayed'[p] = AddedTo(p, c, to)
         /\ \A q \in Player \ {p} :
              relayed'[q] = relayed[q] \/ (q = t /\ relayed'[q] = Cleared(q, p, c))
    <2>1. relayed'[p] = AddedTo(p, c, to)
      <3>1. relayed'[p] = CASE p = p -> AddedTo(p, c, to)
                            [] p = t /\ acked /\ IsBoth(p, m) -> Cleared(t, p, c)
                            [] OTHER -> relayed[p]
        BY <1>1
      <3>2. p # t
        BY <1>3 DEF AckTo, c, t
      <3> QED BY <3>1, <3>2
    <2>2. ASSUME NEW q \in Player \ {p}
          PROVE  relayed'[q] = relayed[q] \/ (q = t /\ relayed'[q] = Cleared(q, p, c))
      <3>1. relayed'[q] = CASE q = p -> AddedTo(p, c, to)
                            [] q = t /\ acked /\ IsBoth(p, m) -> Cleared(t, p, c)
                            [] OTHER -> relayed[q]
        BY <1>1
      <3>2. CASE q = t /\ acked /\ IsBoth(p, m)
        BY <3>1, <3>2
      <3>3. CASE ~ (q = t /\ acked /\ IsBoth(p, m))
        BY <3>1, <3>3
      <3> QED BY <3>2, <3>3
    <2> QED BY <2>1, <2>2
  <1> QED BY <1>1, <1>2, <1>3, <1>4, <1>7, <1>8, <1>9, <1>10, <1>11 DEF c, t, to, sent

LEMMA ReceiveWay ==
  ASSUME Inv, Inv', WayInv, NEW p \in Player, NEW m \in wire[p], NEW acked \in BOOLEAN,
         Receive(p, m, acked)
  PROVE  WayInv'
  <1> DEFINE c == m.command
             t == AckTo(p, c)
  <1>1. /\ c \in Command /\ c \in issued /\ Owner[c] \in Player
        /\ p \in m.relay /\ Owner[c] \notin m.relay
        /\ \A y \in Player : wire[y] \subseteq wire'[y]
        /\ \A y \in Player : \A n \in wire'[y] \ wire[y] : n \in Relays(p, m)[y]
        /\ \A q \in Player : pending'[q] \subseteq pending[q]
        /\ has' = IF Accepted(p, c) THEN [has EXCEPT ![p] = @ \cup {c}] ELSE has
        /\ relayed'[p] = AddedTo(p, c, ActualRelay(p, m))
        /\ \A q \in Player \ {p} :
             relayed'[q] = relayed[q] \/ (q = t /\ relayed'[q] = Cleared(q, p, c))
        /\ UNCHANGED <<frame, status, fallback, router, conn, issued>>
    BY Received
  <1>2. LinkInv'
    BY <1>1 DEF WayInv, LinkInv, In, IsOpen, OpenTo
  <1>3. p \notin ActualRelay(p, m) /\ ActualRelay(p, m) \subseteq m.relay \cap Player
    BY DEF ActualRelay, OpenTo, IsOpen, WayInv, LinkInv
  <1>4. ActualRelay(p, m) # {} => Accepted(p, c)
    BY DEF ActualRelay
  <1>5. CopyInv'
    <2> SUFFICES ASSUME NEW y \in Player, NEW n \in wire'[y]
                 PROVE  CopyOk(y, n)'
      BY DEF CopyInv
    <2>1. CASE n \in wire[y]
      <3>1. CopyOk(y, n)
        BY <2>1 DEF WayInv, CopyInv
      <3> QED BY <1>1, <2>1, <3>1, CopyStays DEF In
    <2>2. CASE n \notin wire[y]
      <3>1. n \in Relays(p, m)[y]
        BY <1>1, <2>2
      <3>2. n = [command |-> c, relay |-> {y}] /\ y \in ActualRelay(p, m)
        BY <3>1 DEF Relays
      <3>3. y # p /\ y \in m.relay
        BY <1>3, <3>2
      <3>4. m \in wire'[p] /\ m.command = c
        BY <1>1
      <3> QED BY <1>1, <3>2, <3>3, <3>4 DEF CopyOk
    <2> QED BY <2>1, <2>2
  <1>6. \A s \in Player : has[s] \subseteq has'[s] /\ has'[s] \subseteq issued
    BY <1>1 DEF WayInv, HoldInv, Inv, Types
  <1>7. HoldInv'
    <2>1. ASSUME NEW s \in Player
          PROVE  \A d \in pending'[s] : d \in issued' /\ Owner[d] = s
      BY <1>1 DEF WayInv, HoldInv
    <2>2. ASSUME NEW s \in Player, NEW d \in DOMAIN relayed'[s]
          PROVE  /\ In(Owner[d])' => d \in has'[s]
                 /\ \A y \in relayed'[s][d] :
                      y # s /\ \E n \in wire'[s] : n.command = d /\ y \in n.relay
      <3>1. ASSUME d \in DOMAIN relayed[s], relayed'[s][d] \subseteq relayed[s][d]
            PROVE  /\ In(Owner[d])' => d \in has'[s]
                   /\ \A y \in relayed'[s][d] :
                        y # s /\ \E n \in wire'[s] : n.command = d /\ y \in n.relay
        <4>1. In(Owner[d])' => d \in has'[s]
          BY <1>1, <1>6, <3>1 DEF WayInv, HoldInv, In
        <4>2. ASSUME NEW y \in relayed'[s][d]
              PROVE  y # s /\ \E n \in wire'[s] : n.command = d /\ y \in n.relay
          <5>1. y # s /\ \E n \in wire[s] : n.command = d /\ y \in n.relay
            BY <3>1 DEF WayInv, HoldInv
          <5> QED BY <1>1, <5>1
        <4> QED BY <4>1, <4>2
      <3>2. CASE s # p
        <4>1. CASE relayed'[s] = relayed[s]
          BY <3>1, <4>1
        <4>2. CASE relayed'[s] = Cleared(s, p, c)
          <5>1. d \in DOMAIN relayed[s] /\ relayed'[s][d] \subseteq relayed[s][d]
            BY <4>2 DEF Cleared, StillToAck
          <5> QED BY <3>1, <5>1
        <4> QED BY <1>1, <3>2, <4>1, <4>2
      <3>3. CASE s = p
        <4>1. CASE relayed'[p] = relayed[p]
          BY <3>1, <3>3, <4>1
        <4>2. CASE /\ ActualRelay(p, m) # {}
                   /\ relayed'[p] = [e \in DOMAIN relayed[p] \cup {c} |->
                                       IF e = c THEN ActualRelay(p, m) ELSE relayed[p][e]]
          <5>1. CASE d # c
            BY <3>1, <3>3, <4>2, <5>1
          <5>2. CASE d = c
            <6>1. d \in has'[s]
              BY <1>1, <1>4, <3>3, <4>2, <5>2 DEF Inv, Types
            <6>2. relayed'[s][d] = ActualRelay(p, m)
              BY <3>3, <4>2, <5>2
            <6>3. m \in wire'[p] /\ m.command = c
              BY <1>1
            <6> QED BY <1>3, <3>3, <5>2, <6>1, <6>2, <6>3
          <5> QED BY <5>1, <5>2
        <4> QED BY <1>1, <4>1, <4>2 DEF AddedTo
      <3> QED BY <3>2, <3>3
    <2>3. ASSUME NEW s \in Player, In(s)', NEW d \in Command, Frame[d] < frame'[s],
                 Owner[d] \notin Gone(s)'
          PROVE  d \in has'[s]
      BY <1>1, <1>6, <2>3 DEF WayInv, HoldInv, In, Gone
    <2> QED BY <1>1, <1>6, <2>1, <2>2, <2>3 DEF WayInv, HoldInv
  <1> QED BY <1>2, <1>5, <1>7 DEF WayInv

LEMMA ReceiveConveys ==
  ASSUME Inv, Inv', WayInv, ConveyInv,
         NEW p \in Player, NEW m \in wire[p], NEW acked \in BOOLEAN,
         Receive(p, m, acked)
  PROVE  ConveyInv'
  <1> DEFINE c == m.command
             t == AckTo(p, c)
  <1>1. /\ c \in Command /\ c \in issued /\ Owner[c] \in Player
        /\ p \in m.relay /\ Owner[c] \notin m.relay /\ status[p] # "crashed"
        /\ \A a, y \in Player : \A n \in queue[a][y] :
             \/ n \in queue'[a][y]
             \/ n.command = c /\ y = p /\ acked /\ a = t /\ IsOpen(p, t)
        /\ \A y \in Player \ {p} : IsOpen(p, y) => Relays(p, m)[y] \subseteq queue'[p][y]
        /\ \A q \in Player : \A d \in pending[q] :
             \/ d \in pending'[q]
             \/ /\ d = c /\ acked /\ AckArrives(p, t) /\ IsBoth(p, m)
                /\ q = t \/ (q = Owner[c] /\ StageTwo(p, t, m))
        /\ has' = IF Accepted(p, c) THEN [has EXCEPT ![p] = @ \cup {c}] ELSE has
        /\ relayed'[p] = AddedTo(p, c, ActualRelay(p, m))
        /\ \A q \in Player \ {p} :
             relayed'[q] = relayed[q] \/ (q = t /\ relayed'[q] = Cleared(q, p, c))
        /\ UNCHANGED <<frame, status, fallback, router, conn, issued>>
    BY Received
  <1>2. LinkInv
    BY DEF WayInv
  <1> SUFFICES ASSUME NEW d \in Command, NEW q \in Player, Needs(q, d)'
               PROVE  Conveyed(q, d)'
    BY DEF ConveyInv
  <1>3. Needs(q, d)
    <2>1. d \in issued /\ (d \in has[q] => d \in has'[q])
      BY <1>1 DEF Needs, Lacks, Inv, Types
    <2>2. frame[q] <= frame'[q]
      BY <1>1 DEF Inv, Types
    <2>3. \A s \in Player : (In(s)' => In(s)) /\ Range(fallback'[s]) \subseteq Range(fallback[s])
      BY <1>1 DEF In
    <2> QED BY <2>1, <2>2, <2>3, NeededBefore
  <1> DEFINE o == Owner[d]
             r == router[o]
  <1>4. /\ o \in Player /\ o # q /\ In(q) /\ In(o) /\ frame[q] <= Frame[d] /\ Exists(q, o)
        /\ \A s \in Player \ {q} : q \in Range(fallback[s]) /\ (In(s) => IsOpen(s, q))
    BY <1>2, <1>3, WhoNeeds
  <1>5. Conveyed(q, d) /\ r \in Player /\ r \in Range(fallback[o])
    BY <1>3, <1>4, FirstOfPlanRoutes DEF ConveyInv
  <1>6. CASE d # c
    <2>1. \A a, y \in Player : Carries(a, y, d) => \E n \in queue'[a][y] : n.command = d
      BY <1>1, <1>6 DEF Carries
    <2>2. d \in pending[o] => d \in pending'[o]
      BY <1>1, <1>4, <1>6
    <2>3. d \in has[r] <=> d \in has'[r]
      BY <1>1, <1>6 DEF Inv, Types
    <2>4. d \in DOMAIN relayed[r] /\ q \in relayed[r][d]
            => d \in DOMAIN relayed'[r] /\ q \in relayed'[r][d]
      <3>1. CASE relayed'[r] = relayed[r]
        BY <3>1
      <3>2. CASE r = p
        BY <1>1, <1>6, <3>2 DEF AddedTo
      <3>3. CASE relayed'[r] = Cleared(r, p, c)
        BY <1>6, <3>3 DEF Cleared, StillToAck
      <3> QED BY <1>1, <1>5, <3>1, <3>2, <3>3
    <2> QED BY <1>1, <1>4, <1>5, <2>1, <2>2, <2>3, <2>4 DEF Conveyed, Carries, In
  <1>7. CASE d = c
    <2>1. p # q /\ p # o
      <3>1. Accepted(q, c) => c \in has'[q] \/ p # q
        BY <1>1 DEF Inv, Types
      <3>2. frame[q] \in Int /\ Frame[d] \in Int
        BY PacketRouterAssumption DEF Inv, Types
      <3>3. Accepted(q, c)
        BY <1>4, <1>7, <3>2 DEF Accepted, OutOfDate
      <3>4. d \notin has'[q]
        BY DEF Needs, Lacks
      <3> QED BY <1>1, <1>7, <3>1, <3>3, <3>4
    <2>2. \A a \in Player : \A y \in Player \ {p} :
            Carries(a, y, c) => \E n \in queue'[a][y] : n.command = c
      BY <1>1 DEF Carries
    <2>3. CASE r \in {o, q}
      <3>1. \E n \in queue'[o][q] : n.command = c
        BY <1>4, <1>5, <1>7, <2>1, <2>2, <2>3 DEF Conveyed
      <3> QED BY <1>1, <1>7, <2>3, <3>1 DEF Conveyed, Carries
    <2>4. CASE r \notin {o, q}
      <3>1. /\ \A y \in Player : \A n \in wire[y] : \A z \in n.relay :
                  n.command = c /\ z # y => y = r
            /\ \A n \in wire[r] : n.command = c => n.relay = Player \ {o}
            /\ Len(Plan) > 3 => /\ r = Plan[1]
                                /\ \A s \in Player : In(s) /\ s # Plan[1] => router[s] = Plan[1]
        BY <1>3, <1>7, <2>4, OneRelays
      <3>2. /\ c \in pending[o]
            /\ In(r) /\ c \in has[r] =>
                 Carries(r, q, c) /\ c \in DOMAIN relayed[r] /\ q \in relayed[r][c]
            /\ In(r) /\ c \notin has[r] => Carries(o, r, c)
        BY <1>5, <1>7, <2>4 DEF Conveyed
      <3>3. \A s \in Player : status[s] = "left" => \A y \in Player : ~ IsOpen(s, y)
        BY <1>2 DEF LinkInv, OpenTo
      <3>4. \A s \in Player : status[s] \in {"playing", "left", "crashed"}
        BY DEF Inv, Types
      <3>5. p = r /\ In(r) => q \in OpenTo(r) /\ q \in m.relay /\ ~ IsBoth(p, m)
        <4>1. ASSUME p = r, In(r) PROVE q \in OpenTo(r) /\ q \in m.relay
          BY <1>4, <2>1, <3>1, <4>1 DEF OpenTo
        <4> QED BY <4>1 DEF IsBoth
      <3>6. c \in pending'[o]
        <4> SUFFICES ASSUME c \notin pending'[o] PROVE FALSE
          OBVIOUS
        <4>1. /\ AckArrives(p, t) /\ IsBoth(p, m)
              /\ o = t \/ StageTwo(p, t, m)
          BY <1>1, <1>4, <1>7, <3>2
        <4>2. t \in Player /\ IsOpen(p, t) /\ In(p) /\ status[t] # "crashed"
          BY <1>1, <3>3, <3>4, <4>1 DEF AckArrives, In
        <4>3. p # r
          BY <3>5, <4>1, <4>2
        <4>4. CASE o = t
          <5>1. CASE Len(Plan) <= 3
            BY <1>4, <1>5, <2>1, <2>4, <4>3, <5>1, ThreePlayers
          <5>2. CASE Len(Plan) > 3
            BY <1>7, <2>4, <3>1, <4>2, <4>3, <4>4, <5>2 DEF AckTo
          <5>3. Len(Plan) \in Nat
            BY PlayersAreNumbers, LenProperties
          <5> QED BY <5>1, <5>2, <5>3
        <4>5. CASE StageTwo(p, t, m)
          <5>1. c \in DOMAIN relayed[t] /\ relayed[t][c] = {p} /\ ArrivesFrom(t, o)
            BY <1>7, <4>5 DEF StageTwo, SendsStageTwo
          <5>2. p # t /\ \E n \in wire[t] : n.command = c /\ p \in n.relay
            <6>1. \A s \in relayed[t][c] :
                    s # t /\ \E n \in wire[t] : n.command = c /\ s \in n.relay
              BY <4>2, <5>1 DEF WayInv, HoldInv
            <6> QED BY <5>1, <6>1
          <5>3. t = r
            BY <3>1, <4>2, <5>2
          <5>4. In(r)
            <6>1. \E y \in Player : IsOpen(t, y)
              BY <1>4, <4>2, <5>1 DEF ArrivesFrom, ThroughRouter
            <6> QED BY <3>3, <3>4, <4>2, <5>3, <6>1 DEF In
          <5>5. c \in has[r]
            BY <1>4, <1>5, <1>7, <5>1, <5>3 DEF WayInv, HoldInv
          <5> QED BY <2>1, <3>2, <5>1, <5>3, <5>4, <5>5
        <4> QED BY <4>1, <4>4, <4>5
      <3>7. ASSUME In(r), c \in has[r]
            PROVE  /\ c \in has'[r]
                   /\ \E n \in queue'[r][q] : n.command = c
                   /\ c \in DOMAIN relayed'[r] /\ q \in relayed'[r][c]
        <4>1. c \in has'[r]
          BY <1>1, <1>5, <3>7 DEF Inv, Types
        <4>2. \E n \in queue'[r][q] : n.command = c
          BY <1>5, <2>1, <2>2, <3>2, <3>7
        <4>3. c \in DOMAIN relayed'[r] /\ q \in relayed'[r][c]
          <5>1. CASE relayed'[r] = relayed[r]
            BY <3>2, <3>7, <5>1
          <5>2. CASE r = p
            BY <1>1, <3>2, <3>7, <5>2 DEF AddedTo
          <5>3. CASE relayed'[r] = Cleared(r, p, c)
            <6>1. q \in StillToAck(r, p, c)
              BY <2>1, <3>2, <3>7 DEF StillToAck
            <6> QED BY <2>1, <3>2, <3>7, <5>3, <6>1 DEF Cleared
          <5> QED BY <1>1, <1>5, <5>1, <5>2, <5>3
        <4> QED BY <4>1, <4>2, <4>3
      <3>8. ASSUME In(r), c \notin has[r], p = r, Accepted(p, c)
            PROVE  /\ c \in has'[r]
                   /\ \E n \in queue'[r][q] : n.command = c
                   /\ c \in DOMAIN relayed'[r] /\ q \in relayed'[r][c]
        <4>1. q \in ActualRelay(r, m)
          BY <3>5, <3>8 DEF ActualRelay
        <4>2. [command |-> c, relay |-> {q}] \in Relays(p, m)[q]
          BY <3>8, <4>1 DEF Relays
        <4>3. [command |-> c, relay |-> {q}] \in queue'[r][q]
          BY <1>1, <2>1, <3>5, <3>8, <4>2 DEF OpenTo
        <4>4. c \notin DOMAIN relayed[r]
          BY <1>4, <1>5, <1>7, <3>8 DEF WayInv, HoldInv
        <4>5. c \in has'[r]
          BY <1>1, <3>8 DEF Inv, Types
        <4> QED BY <1>1, <3>8, <4>1, <4>3, <4>4, <4>5 DEF AddedTo
      <3>9. ASSUME In(r), c \notin has[r], ~ (p = r /\ Accepted(p, c))
            PROVE  c \notin has'[r] /\ \E n \in queue'[o][r] : n.command = c
        <4>1. c \notin has'[r]
          BY <1>1, <1>5, <3>9 DEF Inv, Types
        <4>2. CASE p # r
          BY <1>4, <1>5, <2>2, <3>2, <3>9, <4>1, <4>2
        <4>3. CASE p = r
          <5>1. ~ IsOpen(r, o)
            <6> SUFFICES ASSUME IsOpen(r, o) PROVE FALSE
              OBVIOUS
            <6>1. Exists(r, o) /\ o \in Range(fallback[r])
              BY <1>2, <1>4, <1>5, <2>4, <3>9 DEF Exists, IsOpen, LinkInv
            <6>2. Frame[c] < frame[r]
              BY <1>7, <3>9, <4>3, <6>1 DEF Accepted, OutOfDate
            <6>3. c \in has[r]
              BY <1>5, <1>7, <3>9, <6>1, <6>2 DEF WayInv, HoldInv, Gone
            <6> QED BY <3>9, <6>3
          <5>2. PICK n \in queue[o][r] : n.command = c
            BY <3>2, <3>9 DEF Carries
          <5> QED BY <1>1, <1>4, <1>5, <4>1, <4>3, <5>1, <5>2
        <4> QED BY <4>1, <4>2, <4>3
      <3>10. In(r)' <=> In(r)
        BY <1>1 DEF In
      <3>11. In(r) => IF c \in has'[r]
                        THEN /\ \E n \in queue'[r][q] : n.command = c
                             /\ c \in DOMAIN relayed'[r] /\ q \in relayed'[r][c]
                        ELSE \E n \in queue'[o][r] : n.command = c
        BY <3>7, <3>8, <3>9
      <3> QED BY <1>1, <1>7, <2>4, <3>6, <3>11 DEF Conveyed, Carries, In
    <2> QED BY <2>3, <2>4
  <1> QED BY <1>6, <1>7

-----------------------------------------------------------------------------
(* Players go.                                                              *)

\* What becomes of p's plan, queues and wires when he drops x.
Without(p, x) ==
  /\ Range(fallback'[p]) = Range(fallback[p]) \ {x}
  /\ \A s \in Player \ {p} : fallback'[s] = fallback[s] /\ router'[s] = router[s]
  /\ router[p] # x => router'[p] = router[p]
  /\ router'[p] \in Range(fallback'[p])
  /\ \A y \in Player \ {x} : conn'[p][y] = conn[p][y]
  /\ conn'[p][x] # "open"
  /\ \A s \in Player \ {p} : conn'[s] = conn[s]
  /\ \A a, y \in Player : a # p \/ y # x => queue[a][y] \subseteq queue'[a][y]
  /\ \A y \in Player : wire[y] \subseteq wire'[y]
  /\ \A y \in Player : \A m \in wire'[y] \ wire[y] :
       /\ m.command \in pending[p] /\ y # p
       /\ \/ router'[p] = p /\ m.relay = {y}
          \/ router'[p] = y /\ m.relay = Player \ {p}
  /\ router[p] = x => \A c \in pending[p] : \A y \in Player :
       y \in Range(fallback'[p]) /\ y # p /\ router'[p] \in {p, y} =>
         \E m \in queue'[p][y] : m.command = c

LEMMA Dropping ==
  ASSUME Inv, Inv', WayInv, NEW p \in Player, In(p), NEW x \in Player, x # p,
         x \in Range(fallback[p]), NEW state \in {"quitting", "none"},
         NEW kept \in SUBSET queue[p][x], Drop(p, x, state, kept),
         status' = status, pending' = pending
  PROVE  Without(p, x)
  <1> DEFINE conns  == [conn[p] EXCEPT ![x] = IF @ = "none" THEN @ ELSE state]
             queues == [queue[p] EXCEPT ![x] = kept]
             r      == RouterWithout(p, x)
             cs     == Resent(p, x)
             sent   == Sent(p, r, cs)
             qs     == Queued(conns, queues, sent)
  <1>1. /\ conn' = [conn EXCEPT ![p] = conns]
        /\ queue' = [queue EXCEPT ![p] = qs]
        /\ wire' = OnWire(conns, sent)
        /\ router' = [router EXCEPT ![p] = r]
        /\ fallback' = [fallback EXCEPT ![p] = FallbackWithout(p, x)]
    BY Zenon DEF Drop
  <1>2. Range(fallback'[p]) = Range(fallback[p]) \ {x}
    BY <1>1, PlanWithout DEF Inv, Types
  <1>3. \A s \in Player \ {p} :
          /\ fallback'[s] = fallback[s] /\ router'[s] = router[s] /\ conn'[s] = conn[s]
          /\ queue'[s] = queue[s]
    BY <1>1 DEF Inv, Types
  <1>4. router'[p] = r /\ (router[p] # x => r = router[p])
    BY <1>1 DEF RouterWithout, Inv, Types
  <1>5. In(p)' /\ r \in Range(fallback'[p]) /\ r \in Player /\ r # x
    <2>1. In(p)' /\ p \in Range(fallback'[p])
      BY <1>2 DEF In, Inv, PlanInv
    <2>2. fallback'[p] \in Seq(Player) /\ r = fallback'[p][1]
      BY <1>4, <2>1 DEF Inv, Types, PlanInv
    <2>3. /\ DOMAIN fallback'[p] = 1 .. Len(fallback'[p]) /\ Len(fallback'[p]) \in Nat
          /\ \A i \in 1 .. Len(fallback'[p]) : fallback'[p][i] \in Player
      BY <2>2, LenProperties, ElementOfSeq
    <2>4. 1 \in DOMAIN fallback'[p]
      BY <2>1, <2>3 DEF Range
    <2> QED BY <1>2, <2>1, <2>2, <2>3, <2>4 DEF Range
  <1>6. /\ conns \in [Player -> {"open", "quitting", "none"}] /\ conns[x] # "open"
        /\ \A y \in Player \ {x} : conns[y] = conn[p][y]
    BY DEF Inv, Types
  <1>7. /\ \A y \in Player \ {x} : conn'[p][y] = conn[p][y]
        /\ conn'[p][x] # "open"
    BY <1>1, <1>6 DEF Inv, Types
  <1>8. ThroughRouter(p, r) <=> r # p
    <2>1. ASSUME r # p PROVE IsOpen(p, r)
      BY <1>2, <1>5, <2>1 DEF WayInv, LinkInv
    <2>2. ~ Exists(p, p)
      BY DEF WayInv, LinkInv, Exists
    <2> QED BY <1>5, <2>1, <2>2 DEF ThroughRouter, Exists, IsOpen
  <1>9. \A y \in Player : sent[y] =
          IF r # p THEN IF y = r THEN [command : cs, relay : {Player \ {p}}] ELSE {}
          ELSE IF y # p THEN [command : cs, relay : {{y}}] ELSE {}
    BY <1>8 DEF Sent
  <1>10. cs \subseteq pending[p] /\ (router[p] = x => cs = pending[p])
    BY DEF Resent
  <1> HIDE DEF conns, r, cs, sent
  <1>11. \A a, y \in Player : a # p \/ y # x => queue[a][y] \subseteq queue'[a][y]
    <2>1. \A y \in Player \ {x} : queue[p][y] \subseteq qs[y]
      BY DEF Queued, Inv, Types
    <2>2. queue'[p] = qs
      BY <1>1 DEF Inv, Types
    <2> QED BY <1>3, <2>1, <2>2
  <1>12. /\ \A y \in Player : wire[y] \subseteq wire'[y]
         /\ \A y \in Player : \A m \in wire'[y] \ wire[y] : m \in sent[y]
    BY <1>1 DEF OnWire
  <1>13. ASSUME NEW y \in Player, NEW m \in wire'[y] \ wire[y]
         PROVE  /\ m.command \in pending[p] /\ y # p
                /\ \/ router'[p] = p /\ m.relay = {y}
                   \/ router'[p] = y /\ m.relay = Player \ {p}
    <2>1. m \in sent[y]
      BY <1>12
    <2>2. CASE r = p
      <3>1. y # p /\ m \in [command : cs, relay : {{y}}]
        BY <1>9, <2>1, <2>2
      <3> QED BY <1>4, <1>10, <2>2, <3>1
    <2>3. CASE r # p
      <3>1. y = r /\ m \in [command : cs, relay : {Player \ {p}}]
        BY <1>9, <2>1, <2>3
      <3> QED BY <1>4, <1>10, <2>3, <3>1
    <2> QED BY <2>2, <2>3
  <1>14. ASSUME router[p] = x, NEW c \in pending[p], NEW y \in Player,
                y \in Range(fallback'[p]), y # p, r \in {p, y}
         PROVE  \E m \in queue'[p][y] : m.command = c
    <2>1. conns[y] = "open"
      BY <1>2, <1>6, <1>14 DEF WayInv, LinkInv, IsOpen
    <2>2. PICK relay : [command |-> c, relay |-> relay] \in sent[y]
      <3>1. CASE r = p
        <4>1. [command |-> c, relay |-> {y}] \in [command : cs, relay : {{y}}]
          BY <1>10, <1>14
        <4> QED BY <1>9, <1>14, <3>1, <4>1
      <3>2. CASE r = y
        <4>1. [command |-> c, relay |-> Player \ {p}] \in [command : cs, relay : {Player \ {p}}]
          BY <1>10, <1>14
        <4> QED BY <1>9, <1>14, <3>2, <4>1
      <3> QED BY <1>14, <3>1, <3>2
    <2>3. queue'[p] = qs
      BY <1>1 DEF Inv, Types
    <2>4. [command |-> c, relay |-> relay] \in queue'[p][y]
      BY <2>1, <2>2, <2>3 DEF Queued
    <2> QED BY <2>4
  <1> QED BY <1>2, <1>3, <1>4, <1>5, <1>7, <1>11, <1>12, <1>13, <1>14 DEF Without

\* Whoever p drops, what is on its way to the others stays so.
LEMMA DropWay ==
  ASSUME Inv, Inv', WayInv, ConveyInv, NEW p \in Player, In(p), NEW x \in Player, x # p,
         x \in Range(fallback[p]), NEW state \in {"quitting", "none"},
         NEW kept \in SUBSET queue[p][x], Drop(p, x, state, kept),
         UNCHANGED <<status, pending, relayed, issued>>,
         \A s \in Player : has'[s] \subseteq has[s],
         \A s \in Player : \A c \in has[s] :
           c \in has'[s] \/ (s = p /\ Owner[c] = x /\ ~ In(x)),
         \A s \in Player : frame[s] <= frame'[s],
         \A s \in Player : frame'[s] = frame[s] \/
           (s = p /\ frame'[s] = frame[s] + 1 /\ Ready(s, frame[s]))
  PROVE  WayInv' /\ ConveyInv'
  <1>1. Without(p, x)
    <2>1. status' = status /\ pending' = pending
      OBVIOUS
    <2>2. Inv /\ Inv' /\ WayInv /\ In(p) /\ p \in Player /\ x \in Player /\ x # p
      OBVIOUS
    <2>3. x \in Range(fallback[p]) /\ state \in {"quitting", "none"}
      OBVIOUS
    <2>4. kept \in SUBSET queue[p][x]
      OBVIOUS
    <2>5. Drop(p, x, state, kept)
      OBVIOUS
    <2> QED BY ONLY <2>1, <2>2, <2>3, <2>4, <2>5, Dropping
  <1> USE DEF Without
  <1>2. \A s \in Player : (In(s)' <=> In(s)) /\ Range(fallback'[s]) \subseteq Range(fallback[s])
    BY <1>1 DEF In
  <1>3. x \in Gone(p)' /\ \A s \in Player : Gone(s) \subseteq Gone(s)'
    BY <1>1, <1>2 DEF Gone
  <1>4. LinkInv'
    <2> SUFFICES ASSUME NEW s \in Player
                 PROVE  /\ conn'[s][s] = "none"
                        /\ In(s)' => \A y \in Player \ {s} :
                                       IsOpen(s, y)' <=> y \in Range(fallback'[s])
                        /\ status'[s] = "left" => OpenTo(s)' = {}
      BY DEF LinkInv
    <2>1. /\ conn[s][s] = "none"
          /\ In(s) => \A y \in Player \ {s} : conn[s][y] = "open" <=> y \in Range(fallback[s])
          /\ status[s] = "left" => \A y \in Player : conn[s][y] # "open"
      BY DEF WayInv, LinkInv, IsOpen, OpenTo
    <2>2. CASE s = p
      <3>1. status[s] # "left"
        BY <2>2 DEF In
      <3> QED BY <1>1, <1>2, <2>1, <2>2, <3>1 DEF IsOpen
    <2>3. CASE s # p
      BY <1>1, <1>2, <2>1, <2>3 DEF IsOpen, OpenTo
    <2> QED BY <2>2, <2>3
  <1>5. CopyInv'
    <2> SUFFICES ASSUME NEW y \in Player, NEW m \in wire'[y]
                 PROVE  CopyOk(y, m)'
      BY DEF CopyInv
    <2>1. CASE m \in wire[y]
      <3> DEFINE o == Owner[m.command]
      <3>1. CopyOk(y, m) /\ o \in Player
        BY <2>1, PacketRouterAssumption DEF WayInv, CopyInv, Inv, Types, Message
      <3>2. router'[o] = router[o] \/ (router[o] # o /\ router[o] \in Gone(o)')
        BY <1>1, <1>3, <3>1
      <3> QED BY <1>1, <1>2, <2>1, <3>1, <3>2, CopyStays
    <2>2. CASE m \notin wire[y]
      <3>1. /\ m.command \in issued /\ Owner[m.command] = p /\ y # p
            /\ \/ router'[p] = p /\ m.relay = {y}
               \/ router'[p] = y /\ m.relay = Player \ {p}
        BY <1>1, <2>2 DEF WayInv, HoldInv
      <3>2. CASE router'[p] = p /\ m.relay = {y}
        BY <3>1, <3>2 DEF CopyOk
      <3>3. CASE router'[p] = y /\ m.relay = Player \ {p}
        <4>1. Plan[1] \in Range(fallback'[p]) => y = Plan[1]
          <5>1. router'[p] = fallback'[p][1] /\ Increasing(fallback'[p])
                /\ fallback'[p] \in Seq(Player)
            BY <1>2 DEF Inv, Types, PlanInv
          <5> DEFINE f == fallback'[p]
          <5>2. /\ DOMAIN f = 1 .. Len(f) /\ Len(f) \in Nat
                /\ \A i \in 1 .. Len(f) : f[i] \in Nat
            BY <5>1, LenProperties, ElementOfSeq, PlayersAreNumbers
          <5> HIDE DEF f
          <5>3. ASSUME Plan[1] \in Range(f) PROVE f[1] = Plan[1]
            <6>1. PICK i \in 1 .. Len(f) : f[i] = 0
              BY <5>2, <5>3, PacketRouterAssumption DEF Range
            <6>2. 1 \in 1 .. Len(f)
              BY <5>2, <6>1
            <6>3. f[1] <= f[i]
              BY <5>1, <5>2, <6>1, <6>2 DEF Increasing, f
            <6> QED BY <5>2, <6>1, <6>2, <6>3, PacketRouterAssumption
          <5> QED BY <3>3, <5>1, <5>3 DEF f
        <4>2. Plan[1] \in Player
          BY PlayersAreNumbers, PacketRouterAssumption
        <4> QED BY <3>1, <3>3, <4>1, <4>2 DEF CopyOk, Gone
      <3> QED BY <3>1, <3>2, <3>3
    <2> QED BY <2>1, <2>2
  <1>6. HoldInv'
    <2>1. issued' \subseteq Command
      BY DEF WayInv, HoldInv
    <2>2. ASSUME NEW s \in Player
          PROVE  /\ has'[s] \subseteq issued'
                 /\ \A d \in pending'[s] : d \in issued' /\ Owner[d] = s
      BY DEF WayInv, HoldInv
    <2>3. ASSUME NEW s \in Player, NEW d \in DOMAIN relayed'[s]
          PROVE  /\ In(Owner[d])' => d \in has'[s]
                 /\ \A y \in relayed'[s][d] :
                      y # s /\ \E m \in wire'[s] : m.command = d /\ y \in m.relay
      <3>1. Owner[d] \in Player
        BY PacketRouterAssumption DEF Inv, RelayedInv
      <3>2. In(Owner[d])' => d \in has'[s]
        BY <1>2, <3>1 DEF WayInv, HoldInv
      <3>3. ASSUME NEW y \in relayed'[s][d]
            PROVE  y # s /\ \E m \in wire'[s] : m.command = d /\ y \in m.relay
        <4>1. y # s /\ \E m \in wire[s] : m.command = d /\ y \in m.relay
          BY DEF WayInv, HoldInv
        <4> QED BY <1>1, <4>1
      <3> QED BY <3>2, <3>3
    <2>4. ASSUME NEW s \in Player, In(s)', NEW d \in Command, Frame[d] < frame'[s],
                 Owner[d] \notin Gone(s)'
          PROVE  d \in has'[s]
      <3>1. In(s) /\ Owner[d] \notin Gone(s) /\ Owner[d] \in Player
        BY <1>2, <1>3, <2>4, PacketRouterAssumption
      <3>2. s = p => Owner[d] # x
        BY <1>3, <2>4
      <3>3. CASE Frame[d] < frame[s]
        BY <3>1, <3>2, <3>3 DEF WayInv, HoldInv
      <3>4. CASE ~ (Frame[d] < frame[s])
        <4>1. frame'[s] = frame[s] + 1 /\ Ready(s, frame[s])
          BY <2>4, <3>4
        <4>2. Frame[d] = frame[s]
          <5>1. frame[s] \in Int /\ Frame[d] \in Int
            BY PacketRouterAssumption DEF Inv, Types
          <5> QED BY <2>4, <3>4, <4>1, <5>1
        <4>3. d \in has[s]
          BY <3>1, <4>1, <4>2 DEF Ready
        <4> QED BY <3>2, <4>3
      <3> QED BY <3>3, <3>4
    <2> QED BY <2>1, <2>2, <2>3, <2>4 DEF HoldInv
  <1>7. ConveyInv'
    <2> SUFFICES ASSUME NEW d \in Command, NEW q \in Player, Needs(q, d)'
                 PROVE  Conveyed(q, d)'
      BY DEF ConveyInv
    <2> DEFINE o == Owner[d]
               r == router[o]
    <2>1. In(o) /\ o \in Player /\ d \in issued
      BY <1>2, PacketRouterAssumption DEF Needs, Lacks
    <2>2. \A s \in Player : d \in has[s] <=> d \in has'[s]
      BY <2>1
    <2>3. Needs(q, d)
      <3>1. d \in has[q] => d \in has'[q]
        BY <2>2
      <3> QED BY <1>2, <2>1, <3>1, NeededBefore
    <2>4. /\ o # q
          /\ \A s \in Player \ {q} : q \in Range(fallback[s])
      BY <2>3, WhoNeeds DEF WayInv
    <2>5. q # x
      BY <1>3 DEF Needs, Dropped
    <2>6. Conveyed(q, d) /\ r \in Player
      BY <2>1, <2>3, FirstOfPlanRoutes DEF ConveyInv
    <2>7. \A a, y \in Player : Carries(a, y, d) /\ (a # p \/ y # x) =>
            \E n \in queue'[a][y] : n.command = d
      BY <1>1 DEF Carries
    <2>8. CASE o # p \/ r # x
      <3>1. router'[o] = r
        BY <1>1, <2>1, <2>8
      <3>2. CASE r \in {o, q}
        <4>1. \E n \in queue'[o][q] : n.command = d
          BY <2>1, <2>5, <2>6, <2>7, <3>2 DEF Conveyed
        <4> QED BY <3>1, <3>2, <4>1 DEF Conveyed, Carries
      <3>3. CASE r \notin {o, q}
        <4>1. d \in pending'[o]
          BY <2>6, <3>3 DEF Conveyed
        <4>2. ASSUME In(r), d \in has'[r]
              PROVE  /\ \E n \in queue'[r][q] : n.command = d
                     /\ d \in DOMAIN relayed'[r] /\ q \in relayed'[r][d]
          BY <2>2, <2>5, <2>6, <2>7, <3>3, <4>2 DEF Conveyed
        <4>3. ASSUME In(r), d \notin has'[r]
              PROVE  \E n \in queue'[o][r] : n.command = d
          BY <2>1, <2>2, <2>6, <2>7, <2>8, <3>3, <4>3 DEF Conveyed
        <4> QED BY <3>1, <3>3, <4>1, <4>2, <4>3 DEF Conveyed, Carries, In
      <3> QED BY <3>2, <3>3
    <2>9. CASE o = p /\ r = x
      <3>1. r \notin {o, q} /\ d \in pending[p]
        BY <2>5, <2>6, <2>9 DEF Conveyed
      <3>2. Len(Plan) <= 3
        <4>1. Len(Plan) > 3 => r = Plan[1]
          BY <2>3, <3>1, OneRelays
        <4>2. Dropped(x)'
          BY <1>3 DEF Dropped
        <4>3. Len(Plan) \in Nat
          BY PlayersAreNumbers, LenProperties
        <4> QED BY <2>9, <4>1, <4>2, <4>3 DEF Needs
      <3>3. router'[p] \in Player /\ router'[p] # x
        <4>1. Range(fallback[p]) \subseteq Player
          <5>1. fallback[p] \in Seq(Player)
            BY DEF Inv, Types
          <5>2. DOMAIN fallback[p] = 1 .. Len(fallback[p])
                /\ \A i \in 1 .. Len(fallback[p]) : fallback[p][i] \in Player
            BY <5>1, LenProperties, ElementOfSeq
          <5> QED BY <5>2 DEF Range
        <4> QED BY <1>1, <4>1
      <3>4. router'[p] \in {p, q}
        BY <2>4, <2>5, <2>9, <3>2, <3>3, ThreePlayers
      <3>5. q \in Range(fallback'[p])
        BY <1>1, <2>4, <2>5, <2>9
      <3>6. \E m \in queue'[p][q] : m.command = d
        BY <1>1, <2>4, <2>9, <3>1, <3>4, <3>5
      <3> QED BY <2>9, <3>4, <3>6 DEF Conveyed, Carries
    <2> QED BY <2>8, <2>9
  <1> QED BY <1>4, <1>5, <1>6, <1>7 DEF WayInv

\* Who leaves gives up what he relays, which is pending still with its owner.
LEMMA LeaveWay ==
  ASSUME Inv, Inv', WayInv, ConveyInv, NEW p \in Player, In(p), LeaveGame(p),
         frame' = [frame EXCEPT ![p] = frame[p] + 1],
         UNCHANGED <<has, pending, relayed, issued>>
  PROVE  WayInv' /\ ConveyInv'
  <1>1. /\ status' = [status EXCEPT ![p] = "left"]
        /\ conn' = [conn EXCEPT ![p] = [q \in Player |-> IF @[q] = "open" THEN "quitting" ELSE @[q]]]
        /\ queue' = [queue EXCEPT ![p] = [q \in Player |-> OwnOf(p, @[q])]]
        /\ router' = [router EXCEPT ![p] = RouterWithout(p, p)]
        /\ fallback' = [fallback EXCEPT ![p] = FallbackWithout(p, p)]
        /\ wire' = wire
    BY DEF LeaveGame
  <1>2. /\ status'[p] = "left"
        /\ \A s \in Player \ {p} :
             /\ status'[s] = status[s] /\ conn'[s] = conn[s] /\ queue'[s] = queue[s]
             /\ router'[s] = router[s] /\ fallback'[s] = fallback[s] /\ frame'[s] = frame[s]
    BY <1>1 DEF Inv, Types
  <1>3. Range(fallback'[p]) \subseteq Range(fallback[p])
    <2>1. p \in Range(fallback[p])
      BY DEF Inv, PlanInv
    <2>2. fallback'[p] = FallbackWithout(p, p)
      BY <1>1 DEF Inv, Types
    <2> QED BY <2>1, <2>2, PlanWithout
  <1>4. /\ ~ In(p)'
        /\ \A s \in Player : (In(s)' => In(s) /\ s # p)
        /\ \A s \in Player : Range(fallback'[s]) \subseteq Range(fallback[s])
        /\ \A s \in Player : Gone(s) \subseteq Gone(s)'
    BY <1>2, <1>3 DEF In, Gone
  <1>5. /\ \A y \in Player : conn'[p][y] # "open"
        /\ conn[p][p] = "none" => conn'[p][p] = "none"
    BY <1>1 DEF Inv, Types
  <1>6. LinkInv'
    <2> SUFFICES ASSUME NEW s \in Player
                 PROVE  /\ conn'[s][s] = "none"
                        /\ In(s)' => \A y \in Player \ {s} :
                                       IsOpen(s, y)' <=> y \in Range(fallback'[s])
                        /\ status'[s] = "left" => OpenTo(s)' = {}
      BY DEF LinkInv
    <2>1. CASE s = p
      BY <1>4, <1>5, <2>1 DEF WayInv, LinkInv, OpenTo, IsOpen
    <2>2. CASE s # p
      BY <1>2, <2>2 DEF WayInv, LinkInv, OpenTo, IsOpen, In
    <2> QED BY <2>1, <2>2
  <1>7. CopyInv'
    <2> SUFFICES ASSUME NEW y \in Player, NEW m \in wire'[y]
                 PROVE  CopyOk(y, m)'
      BY DEF CopyInv
    <2>1. m \in wire[y] /\ CopyOk(y, m) /\ Owner[m.command] \in Player
      BY <1>1, PacketRouterAssumption DEF WayInv, CopyInv, Inv, Types, Message
    <2> QED BY <1>1, <1>2, <1>4, <2>1, CopyStays
  <1>8. HoldInv'
    <2>1. ASSUME NEW s \in Player, NEW d \in DOMAIN relayed'[s]
          PROVE  /\ In(Owner[d])' => d \in has'[s]
                 /\ \A y \in relayed'[s][d] :
                      y # s /\ \E m \in wire'[s] : m.command = d /\ y \in m.relay
      <3>1. Owner[d] \in Player
        BY PacketRouterAssumption DEF Inv, RelayedInv
      <3> QED BY <1>1, <1>4, <3>1 DEF WayInv, HoldInv
    <2>2. ASSUME NEW s \in Player, In(s)', NEW d \in Command, Frame[d] < frame'[s],
                 Owner[d] \notin Gone(s)'
          PROVE  d \in has'[s]
      BY <1>2, <1>4, <2>2 DEF WayInv, HoldInv
    <2> QED BY <2>1, <2>2 DEF WayInv, HoldInv
  <1>9. ConveyInv'
    <2> SUFFICES ASSUME NEW d \in Command, NEW q \in Player, Needs(q, d)'
                 PROVE  Conveyed(q, d)'
      BY DEF ConveyInv
    <2> DEFINE o == Owner[d]
               r == router[o]
    <2>1. o \in Player /\ In(o)' /\ In(q)' /\ d \in issued
      BY PacketRouterAssumption DEF Needs, Lacks
    <2>2. o # p /\ q # p /\ router'[o] = r /\ queue'[o] = queue[o]
      BY <1>2, <1>4, <2>1
    <2>3. Needs(q, d)
      <3>1. frame[q] <= frame'[q]
        BY <1>2, <2>2 DEF Inv, Types
      <3> QED BY <1>4, <2>1, <3>1, NeededBefore
    <2>4. Conveyed(q, d) /\ r \in Player
      BY <1>4, <2>1, <2>3, FirstOfPlanRoutes DEF ConveyInv
    <2>5. r # p => queue'[r] = queue[r] /\ status'[r] = status[r]
      BY <1>2, <2>4
    <2>6. r = p => status'[r] # "playing"
      BY <1>2
    <2>7. CASE r \in {o, q}
      BY <2>2, <2>4, <2>7 DEF Conveyed, Carries
    <2>8. CASE r \notin {o, q}
      <3>1. d \in pending'[o]
        BY <2>4, <2>8 DEF Conveyed
      <3>2. CASE r = p
        BY <2>2, <2>6, <2>8, <3>1, <3>2 DEF Conveyed, In
      <3>3. CASE r # p
        BY <2>2, <2>4, <2>5, <2>8, <3>3 DEF Conveyed, Carries, In
      <3> QED BY <3>2, <3>3
    <2> QED BY <2>7, <2>8
  <1> QED BY <1>6, <1>7, <1>8, <1>9 DEF WayInv

\* A frame is executed, and nobody leaves.
LEMMA StayWay ==
  ASSUME Inv, Inv', WayInv, ConveyInv, NEW p \in Player, In(p), Ready(p, frame[p]),
         frame' = [frame EXCEPT ![p] = frame[p] + 1],
         UNCHANGED <<has, pending, relayed, issued, status, conn, queue, wire, router, fallback>>
  PROVE  WayInv' /\ ConveyInv'
  <1>1. \A s \in Player :
          \/ frame'[s] = frame[s]
          \/ s = p /\ frame'[s] = frame[s] + 1
    BY DEF Inv, Types
  <1>2. \A s \in Player : frame[s] \in Int /\ frame'[s] \in Int
    BY DEF Inv, Types
  <1>3. LinkInv'
    BY DEF WayInv, LinkInv, In, IsOpen, OpenTo
  <1>4. CopyInv'
    BY DEF WayInv, CopyInv, CopyOk, In, Gone
  <1>5. HoldInv'
    <2>1. ASSUME NEW s \in Player, In(s)', NEW d \in Command, Frame[d] < frame'[s],
                 Owner[d] \notin Gone(s)'
          PROVE  d \in has'[s]
      <3>1. In(s) /\ Owner[d] \notin Gone(s) /\ Owner[d] \in Player /\ Frame[d] \in Int
        BY <2>1, PacketRouterAssumption DEF In, Gone
      <3>2. CASE Frame[d] < frame[s]
        BY <3>1, <3>2 DEF WayInv, HoldInv
      <3>3. CASE ~ (Frame[d] < frame[s])
        <4>1. s = p /\ Frame[d] = frame[p]
          BY <1>1, <1>2, <2>1, <3>1, <3>3
        <4> QED BY <3>1, <4>1 DEF Ready
      <3> QED BY <3>2, <3>3
    <2>2. \A s \in Player :
            /\ has'[s] \subseteq issued'
            /\ \A d \in pending'[s] : d \in issued' /\ Owner[d] = s
            /\ \A d \in DOMAIN relayed'[s] :
                 /\ In(Owner[d])' => d \in has'[s]
                 /\ \A y \in relayed'[s][d] :
                      y # s /\ \E m \in wire'[s] : m.command = d /\ y \in m.relay
      BY DEF WayInv, HoldInv, In
    <2> QED BY <2>1, <2>2 DEF WayInv, HoldInv
  <1>6. ConveyInv'
    <2> SUFFICES ASSUME NEW d \in Command, NEW q \in Player, Needs(q, d)'
                 PROVE  Conveyed(q, d)'
      BY DEF ConveyInv
    <2>1. Needs(q, d)
      <3>1. d \in issued
        BY DEF Needs, Lacks
      <3>2. frame[q] <= frame'[q]
        BY <1>1, <1>2
      <3> QED BY <3>1, <3>2, NeededBefore DEF In
    <2>2. Conveyed(q, d)
      BY <2>1 DEF ConveyInv
    <2> QED BY <2>2 DEF Conveyed, Carries, In
  <1> QED BY <1>3, <1>4, <1>5, <1>6 DEF WayInv

LEMMA ExecuteWay ==
  ASSUME Inv, Inv', WayInv, ConveyInv, NEW p \in Player, ExecuteFrame(p)
  PROVE  WayInv' /\ ConveyInv'
  <1>1. /\ In(p) /\ Ready(p, frame[p])
        /\ frame' = [frame EXCEPT ![p] = frame[p] + 1]
        /\ UNCHANGED <<has, pending, relayed, issued>>
    BY DEF ExecuteFrame
  <1>2. CASE UNCHANGED <<status, conn, queue, wire, router, fallback>>
    BY <1>1, <1>2, StayWay
  <1>3. CASE LeaveGame(p)
    BY <1>1, <1>3, LeaveWay
  <1>4. ASSUME NEW x \in Leavers(p, frame[p]) \ {p}, Drop(p, x, "quitting", queue[p][x]),
               UNCHANGED status
        PROVE  WayInv' /\ ConveyInv'
    <2>1. x \in Player /\ x # p /\ x \in Range(fallback[p])
      BY PacketRouterAssumption DEF Leavers, Gone
    <2>2. UNCHANGED <<status, pending, relayed, issued>>
      BY <1>1, <1>4
    <2>3. \A s \in Player :
            /\ frame[s] <= frame'[s]
            /\ \/ frame'[s] = frame[s]
               \/ s = p /\ frame'[s] = frame[s] + 1 /\ Ready(s, frame[s])
      BY <1>1 DEF Inv, Types
    <2>4. \A s \in Player : has'[s] \subseteq has[s]
      BY <1>1
    <2>5. \A s \in Player : \A c \in has[s] :
            c \in has'[s] \/ (s = p /\ Owner[c] = x /\ ~ In(x))
      BY <1>1
    <2> QED BY <1>1, <1>4, <2>1, <2>2, <2>3, <2>4, <2>5, DropWay
  <1> QED BY <1>2, <1>3, <1>4 DEF ExecuteFrame

LEMMA DisconnectWay ==
  ASSUME Inv, Inv', WayInv, ConveyInv, NEW p \in Player, NEW x \in Player, Disconnect(p, x)
  PROVE  WayInv' /\ ConveyInv'
  <1>1. /\ In(p) /\ status[x] = "crashed" /\ x \notin Gone(p)
        /\ Drop(p, x, "none", {})
        /\ has' = [has EXCEPT ![p] = {c \in @ : Owner[c] # x}]
        /\ UNCHANGED <<frame, status, pending, relayed, issued>>
    BY DEF Disconnect
  <1>2. x # p /\ x \in Range(fallback[p]) /\ ~ In(x)
    BY <1>1 DEF In, Gone
  <1>3. /\ \A s \in Player : has'[s] \subseteq has[s]
        /\ \A s \in Player : \A c \in has[s] :
             c \in has'[s] \/ (s = p /\ Owner[c] = x /\ ~ In(x))
    BY <1>1, <1>2 DEF Inv, Types
  <1>4. \A s \in Player : frame[s] <= frame'[s] /\ frame'[s] = frame[s]
    BY <1>1 DEF Inv, Types
  <1>5. UNCHANGED <<status, pending, relayed, issued>> /\ {} \in SUBSET queue[p][x]
    BY <1>1
  <1> QED BY <1>1, <1>2, <1>3, <1>4, <1>5, DropWay

LEMMA DeleteWay ==
  ASSUME Inv, Inv', WayInv, ConveyInv, NEW p \in Player, NEW x \in Player, DeleteConnection(p, x)
  PROVE  WayInv' /\ ConveyInv'
  <1>1. /\ conn[p][x] = "quitting" /\ conn' = [conn EXCEPT ![p][x] = "none"]
        /\ UNCHANGED <<frame, status, has, fallback, router, queue, pending, relayed, wire, issued>>
    BY DEF DeleteConnection
  <1>2. \A s, y \in Player : conn'[s][y] = conn[s][y] \/
          (s = p /\ y = x /\ conn'[s][y] = "none" /\ conn[s][y] = "quitting")
    BY <1>1 DEF Inv, Types
  <1>3. LinkInv'
    BY <1>1, <1>2 DEF WayInv, LinkInv, In, IsOpen, OpenTo
  <1>4. CopyInv'
    BY <1>1 DEF WayInv, CopyInv, CopyOk, In, Gone
  <1>5. HoldInv'
    BY <1>1 DEF WayInv, HoldInv, In, Gone
  <1>6. ConveyInv'
    BY <1>1 DEF ConveyInv, Needs, Lacks, Dropped, Gone, Conveyed, Carries, In
  <1> QED BY <1>3, <1>4, <1>5, <1>6 DEF WayInv

LEMMA CrashWay ==
  ASSUME Inv, Inv', WayInv, ConveyInv, NEW x \in Player, Crash(x)
  PROVE  WayInv' /\ ConveyInv'
  <1>1. /\ status' = [status EXCEPT ![x] = "crashed"]
        /\ UNCHANGED <<frame, has, fallback, router, conn, queue, pending, relayed, wire, issued>>
    BY DEF Crash, links
  <1>2. \A s \in Player : (In(s)' => In(s)) /\ (status'[s] = "left" => status[s] = "left")
    BY <1>1 DEF Inv, Types, In
  <1>3. LinkInv'
    BY <1>1, <1>2 DEF WayInv, LinkInv, IsOpen, OpenTo
  <1>4. CopyInv'
    <2> SUFFICES ASSUME NEW y \in Player, NEW m \in wire'[y]
                 PROVE  CopyOk(y, m)'
      BY DEF CopyInv
    <2>1. m \in wire[y] /\ CopyOk(y, m) /\ Owner[m.command] \in Player
      BY <1>1, PacketRouterAssumption DEF WayInv, CopyInv, Inv, Types, Message
    <2> QED BY <1>1, <1>2, <2>1, CopyStays
  <1>5. HoldInv'
    <2>1. \A s \in Player : \A d \in DOMAIN relayed[s] : Owner[d] \in Player
      BY PacketRouterAssumption DEF Inv, RelayedInv
    <2> QED BY <1>1, <1>2, <2>1 DEF WayInv, HoldInv, Gone
  <1>6. ConveyInv'
    <2> SUFFICES ASSUME NEW d \in Command, NEW q \in Player, Needs(q, d)'
                 PROVE  Conveyed(q, d)'
      BY DEF ConveyInv
    <2>1. Needs(q, d) /\ Owner[d] \in Player
      <3>1. d \in issued /\ frame[q] <= frame'[q]
        BY <1>1 DEF Needs, Lacks, Inv, Types
      <3>2. \A s \in Player : Range(fallback'[s]) \subseteq Range(fallback[s])
        BY <1>1
      <3> QED BY <1>1, <1>2, <3>1, <3>2, NeededBefore, PacketRouterAssumption
    <2>2. Conveyed(q, d) /\ In(Owner[d])
      BY <2>1 DEF ConveyInv, Needs, Lacks
    <2>3. router[Owner[d]] \in Player
      BY <2>1, <2>2, FirstOfPlanRoutes
    <2>4. In(router[Owner[d]])' => In(router[Owner[d]])
      BY <1>1, <1>2, <2>3
    <2> QED BY <1>1, <2>2, <2>4 DEF Conveyed, Carries
  <1> QED BY <1>3, <1>4, <1>5, <1>6 DEF WayInv

LEMMA NextWay == Inv /\ WayInv /\ ConveyInv /\ [Next]_vars => Inv' /\ WayInv' /\ ConveyInv'
  <1> SUFFICES ASSUME Inv, WayInv, ConveyInv, [Next]_vars
               PROVE  Inv' /\ WayInv' /\ ConveyInv'
    OBVIOUS
  <1>1. Inv'
    BY NextInv
  <1>2. CASE UNCHANGED vars
    <2>1. LinkInv'
      BY <1>2 DEF vars, links, WayInv, LinkInv, In, IsOpen, OpenTo
    <2>2. CopyInv'
      BY <1>2 DEF vars, links, WayInv, CopyInv, CopyOk, In, Gone
    <2>3. HoldInv'
      BY <1>2 DEF vars, links, WayInv, HoldInv, In, Gone
    <2>4. ConveyInv'
      BY <1>2 DEF vars, links, ConveyInv, Needs, Lacks, Dropped, Gone, Conveyed, Carries, In
    <2> QED BY <1>1, <2>1, <2>2, <2>3, <2>4 DEF WayInv
  <1> QED BY <1>1, <1>2, IssueWay, ReceiveWay, ReceiveConveys, ExecuteWay, DisconnectWay,
             DeleteWay, CrashWay DEF Next

-----------------------------------------------------------------------------
\* What somebody still needs is on its way to him, or pending with its owner while the
\* router is gone: with three players whoever leaves or crashes and whatever acks
\* are lost, and with any number of them until the first router is dropped.
THEOREM NothingIsStranded == Spec => []NothingStranded
  <1>1. Inv /\ WayInv /\ ConveyInv => NothingStranded
    <2> SUFFICES ASSUME Inv, WayInv, ConveyInv, NEW c \in Command, NEW q \in Player,
                        Needs(q, c)
                 PROVE  \/ Carries(Owner[c], q, c)
                        \/ /\ c \in pending[Owner[c]]
                           /\ router[Owner[c]] \in Player
                           /\ \/ ~ In(router[Owner[c]])
                              \/ Carries(Owner[c], router[Owner[c]], c)
                              \/ Carries(router[Owner[c]], q, c)
      BY Zenon DEF NothingStranded, Needs
    <2>1. Conveyed(q, c)
      BY DEF ConveyInv
    <2>2. router[Owner[c]] \in Player
      <3>1. In(Owner[c]) /\ Owner[c] \in Player
        BY PacketRouterAssumption DEF Needs, Lacks
      <3> QED BY <3>1, FirstOfPlanRoutes
    <2> QED BY <2>1, <2>2 DEF Conveyed
  <1> QED BY <1>1, InitInv, InitWay, NextWay, PTL DEF Spec

=============================================================================
