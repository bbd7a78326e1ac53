--------------------------- MODULE ConnectionProofs ---------------------------
(***************************************************************************)
(* Theorems about Connection: its types, NothingForgotten, and that it      *)
(* implements ReliableDelivery.  The inductive invariant says that an ack,  *)
(* queued or on its way, is about a command its sender has received, and    *)
(* that commands only come from the other end.                              *)
(***************************************************************************)
EXTENDS Connection, TLAPS

\* An ack m is about the command c.
About(m, c) == c.id = m.number /\ c.player = m.original

\* An ack that e has given, or may still give.
AckOf(e, m) == m.player = e /\ \E c \in received[e] : About(m, c)

\* What is on the way to e was sent by his peer.
FlightInv ==
  \A e \in Endpoint : \A m \in inFlight[e] :
    IF m.type = ACKBOTH THEN AckOf(Peer[e], m) ELSE m \in submitted[Peer[e]]

\* What waits at e are commands given to e, and acks of commands he has.
QueueInv ==
  \A e \in Endpoint : \A m \in DOMAIN queue[e] :
    IF m.type = ACKBOTH THEN AckOf(e, m) ELSE m \in submitted[e]

\* A command received was given to the other end.
ReceivedInv == \A e \in Endpoint : received[e] \subseteq submitted[Peer[e]]

IInv == TypeOK /\ FlightInv /\ QueueInv /\ ReceivedInv /\ NothingForgotten

-----------------------------------------------------------------------------
\* The two ends are each other's peers.
LEMMA PeerType ==
  ASSUME NEW e \in Endpoint
  PROVE  Peer[e] \in Endpoint /\ Peer[Peer[e]] = e
BY ConnectionAssumption

\* A command and an ack are told apart by their types.
LEMMA MessageKinds ==
  /\ \A c \in Command : c \in Message /\ c.type = GAMECOMMAND /\ c.type # ACKBOTH
  /\ \A m \in Message : m.type = ACKBOTH => m \notin Command
  /\ \A m \in Message : m.type # ACKBOTH => m \in Command
BY DEF Command, Ack, Message, GAMECOMMAND, ACKBOTH

\* ID and player identify a command.
LEMMA CommandIdentity ==
  ASSUME NEW c \in Command, NEW d \in Command, c.id = d.id, c.player = d.player
  PROVE  c = d
BY DEF Command

\* The ack of a command is a message.
LEMMA AckType ==
  ASSUME NEW e \in Endpoint, NEW c \in Command
  PROVE  /\ AckBoth(e, c) \in Message
         /\ AckBoth(e, c).type = ACKBOTH
         /\ AckBoth(e, c).player = e
         /\ About(AckBoth(e, c), c)
BY DEF AckBoth, Message, Ack, Command, About

\* What the operators on queues do to their domains.
LEMMA WithDomain ==
  ASSUME NEW q, NEW ms
  PROVE  /\ DOMAIN With(q, ms) = DOMAIN q \cup ms
         /\ \A m \in DOMAIN q : With(q, ms)[m] = q[m]
         /\ \A m \in ms : m \notin DOMAIN q => With(q, ms)[m] = NeverSent
BY DEF With

LEMMA WithoutDomain ==
  ASSUME NEW q, NEW ms
  PROVE  /\ DOMAIN Without(q, ms) = DOMAIN q \ ms
         /\ \A m \in DOMAIN q \ ms : Without(q, ms)[m] = q[m]
BY DEF Without

\* The fields the order compares are numbers.
LEMMA MessageFields ==
  ASSUME NEW m \in Message
  PROVE  m.type \in Int /\ m.player \in Int /\ m.number \in Int /\ m.original \in Int
<1>1. Player \subseteq Int /\ Endpoint \subseteq Int
  BY ConnectionAssumption
<1>2. CASE m \in Command
  <2>1. /\ m.type \in {GAMECOMMAND} /\ m.player \in Player
        /\ m.number \in Nat /\ m.original \in Player
    BY <1>2 DEF Command
  <2>2. m.type \in Int
    BY <2>1 DEF GAMECOMMAND
  <2>3. m.player \in Int /\ m.original \in Int
    BY <1>1, <2>1, Zenon
  <2>4. m.number \in Int
    BY <2>1
  <2>q. QED
    BY <2>2, <2>3, <2>4, Zenon
<1>3. CASE m \in Ack
  <2>1. /\ m.type \in {ACKBOTH} /\ m.player \in Endpoint
        /\ m.number \in Nat /\ m.original \in Player
    BY <1>3 DEF Ack
  <2>2. m.type \in Int
    BY <2>1 DEF ACKBOTH
  <2>3. m.player \in Int /\ m.original \in Int
    BY <1>1, <2>1, Zenon
  <2>4. m.number \in Int
    BY <2>1
  <2>q. QED
    BY <2>2, <2>3, <2>4, Zenon
<1>q. QED
  BY <1>2, <1>3 DEF Message

\* The order of the queue is total, so an ack takes off one message at most.
LEMMA FirstIsUnique ==
  ASSUME NEW ms, ms \subseteq Message, NEW m \in FirstOf(ms), NEW n \in FirstOf(ms)
  PROVE  m = n
<1>1. ~ Before(m, n) /\ ~ Before(n, m)
  BY DEF FirstOf
<1>2. m \in Message /\ n \in Message
  BY DEF FirstOf
<1>3. /\ m.type \in Int /\ n.type \in Int /\ m.player \in Int /\ n.player \in Int
      /\ m.number \in Int /\ n.number \in Int /\ m.original \in Int /\ n.original \in Int
  BY <1>2, MessageFields
<1>4. /\ m.type = n.type /\ m.player = n.player
      /\ m.number = n.number /\ m.original = n.original
  BY <1>1, <1>3 DEF Before
<1>5. CASE m \in Command
  <2>1. n \in Command
    BY <1>2, <1>4, <1>5, MessageKinds
  <2>2. m.id = n.id
    BY <1>4, <1>5, <2>1 DEF Command
  <2>q. QED
    BY <1>4, <1>5, <2>1, <2>2, CommandIdentity
<1>6. CASE m \in Ack
  <2>1. n \in Ack
    BY <1>2, <1>4, <1>6 DEF Message, Command, Ack, ACKBOTH, GAMECOMMAND
  <2>2. m.id = 0 /\ n.id = 0
    BY <1>6, <2>1 DEF Ack
  <2>3. /\ m = [type |-> m.type, player |-> m.player, id |-> m.id,
                number |-> m.number, original |-> m.original]
        /\ n = [type |-> n.type, player |-> n.player, id |-> n.id,
                number |-> n.number, original |-> n.original]
    BY <1>6, <2>1 DEF Ack
  <2>q. QED
    BY <1>4, <2>2, <2>3
<1>q. QED
  BY <1>2, <1>5, <1>6 DEF Message

-----------------------------------------------------------------------------
Ages == {NeverSent} \cup 0 .. RetryTime + 1

\* q may be a queue.
IsQueue(q) == DOMAIN q \subseteq Message /\ q \in [DOMAIN q -> Ages]

\* The operators on queues keep them queues.
LEMMA WithType ==
  ASSUME NEW q, IsQueue(q), NEW ms, ms \subseteq Message
  PROVE  IsQueue(With(q, ms))
BY DEF IsQueue, With, Ages

LEMMA WithoutType ==
  ASSUME NEW q, IsQueue(q), NEW ms
  PROVE  IsQueue(Without(q, ms))
BY DEF IsQueue, Without

LEMMA EmptyType == IsQueue(Empty)
BY DEF IsQueue, Empty

\* The queues of TypeOK are queues, and only queues are.
LEMMA TypeOfQueues ==
  (\A e \in Endpoint : /\ DOMAIN queue[e] \subseteq Message
                       /\ queue[e] \in [DOMAIN queue[e] -> {NeverSent} \cup 0 .. RetryTime + 1])
    <=> \A e \in Endpoint : IsQueue(queue[e])
BY DEF IsQueue, Ages

\* One end's queue replaced by a queue: the queues keep their type.
LEMMA QueueUpdate ==
  ASSUME DOMAIN queue = Endpoint, \A e \in Endpoint : IsQueue(queue[e]),
         NEW e \in Endpoint, NEW q, IsQueue(q), queue' = [queue EXCEPT ![e] = q]
  PROVE  DOMAIN queue' = Endpoint /\ \A d \in Endpoint : IsQueue(queue'[d])
<1>1. DOMAIN queue' = Endpoint
  OBVIOUS
<1>2. ASSUME NEW d \in Endpoint
      PROVE  IsQueue(queue'[d])
  <2>1. CASE d = e
    <3>1. queue'[d] = q
      BY <2>1
    <3>q. QED
      BY <3>1
  <2>2. CASE d # e
    <3>1. queue'[d] = queue[d]
      BY <2>2
    <3>q. QED
      BY <3>1
  <2>q. QED
    BY <2>1, <2>2
<1>q. QED
  BY <1>1, <1>2

\* The others' queues stay.
LEMMA OneQueueChanges ==
  ASSUME DOMAIN queue = Endpoint, NEW e \in Endpoint, NEW q, queue' = [queue EXCEPT ![e] = q],
         NEW d \in Endpoint
  PROVE  queue'[d] = IF d = e THEN q ELSE queue[d]
OBVIOUS

\* A queue with fewer messages in place of one.
LEMMA QueueShrinks ==
  ASSUME DOMAIN queue = Endpoint, NEW e \in Endpoint, NEW q, queue' = [queue EXCEPT ![e] = q],
         DOMAIN q \subseteq DOMAIN queue[e], NEW d \in Endpoint
  PROVE  DOMAIN queue'[d] \subseteq DOMAIN queue[d]
<1>1. CASE d = e
  <2>1. queue'[d] = q
    BY <1>1, OneQueueChanges
  <2>q. QED
    BY <1>1, <2>1
<1>2. CASE d # e
  <2>1. queue'[d] = queue[d]
    BY <1>2, OneQueueChanges
  <2>q. QED
    BY <2>1
<1>q. QED
  BY <1>1, <1>2

-----------------------------------------------------------------------------
(* Types.                                                                   *)

\* What a doSend sends is in the queue, and the queue stays a queue.
LEMMA SendPacketsType ==
  ASSUME TypeOK, NEW e \in Endpoint, NEW failed, SendPackets(e, failed)
  PROVE  /\ DOMAIN queue' = Endpoint /\ \A d \in Endpoint : IsQueue(queue'[d])
         /\ sinceSent' \in [Endpoint -> 0 .. FrameGrouping]
         /\ inFlight' \in [Endpoint -> SUBSET Message]
<1> DEFINE packed == {m \in Packed(e) : PacketOf(e, m) <= failed}
           once   == {m \in packed : ~ RequiresAck(m)}
           sent   == {m \in packed : PacketOf(e, m) < failed}
           q      == [m \in DOMAIN queue[e] \ once |-> IF m \in packed THEN 0 ELSE queue[e][m]]
<1>1. /\ DOMAIN queue = Endpoint
      /\ \A d \in Endpoint : IsQueue(queue[d])
  BY TypeOfQueues DEF TypeOK
<1>2. IsQueue(q)
  <2>1. IsQueue(queue[e])
    BY <1>1
  <2>2. 0 \in Ages
    BY ConnectionAssumption DEF Ages
  <2>q. QED
    BY <2>1, <2>2 DEF IsQueue
<1>3. queue' = [queue EXCEPT ![e] = q]
  BY DEF SendPackets
<1>4. sent \subseteq Message
  <2>1. sent \subseteq DOMAIN queue[e]
    BY DEF Packed, Due
  <2>q. QED
    BY <1>1, <2>1 DEF IsQueue
<1>5. inFlight' = [inFlight EXCEPT ![Peer[e]] = @ \cup sent]
  BY DEF SendPackets
<1>6. sinceSent' \in [Endpoint -> 0 .. FrameGrouping]
  BY ConnectionAssumption DEF SendPackets, TypeOK
<1>7. inFlight' \in [Endpoint -> SUBSET Message]
  <2> HIDE DEF sent
  <2>q. QED
    BY <1>4, <1>5, PeerType DEF TypeOK
<1>8. DOMAIN queue' = Endpoint /\ \A d \in Endpoint : IsQueue(queue'[d])
  <2> HIDE DEF q
  <2>q. QED
    BY <1>1, <1>2, <1>3, QueueUpdate
<1>q. QED
  BY <1>6, <1>7, <1>8

\* TypeOK in the next state, the queues as queues.
NextTyped ==
  /\ DOMAIN queue' = Endpoint /\ \A e \in Endpoint : IsQueue(queue'[e])
  /\ sinceSent' \in [Endpoint -> 0 .. FrameGrouping]
  /\ quitting'  \in [Endpoint -> {NotQuitting} \cup 0 .. MaxQuitFlushTime + 1]
  /\ left'      \in [Endpoint -> BOOLEAN]
  /\ exists'    \in [Endpoint -> BOOLEAN]
  /\ timedOut'  \in [Endpoint -> BOOLEAN]
  /\ inFlight'  \in [Endpoint -> SUBSET Message]
  /\ submitted' \in [Endpoint -> SUBSET Command]
  /\ received'  \in [Endpoint -> SUBSET Command]

LEMMA NextTypedIsTypeOK == NextTyped => TypeOK'
BY DEF NextTyped, TypeOK, IsQueue, Ages

\* The initial state is well typed.
LEMMA InitType == Init => TypeOK
<1> SUFFICES ASSUME Init
             PROVE  TypeOK
  OBVIOUS
<1>1. DOMAIN queue = Endpoint /\ \A e \in Endpoint : IsQueue(queue[e])
  BY EmptyType DEF Init
<1>2. /\ sinceSent \in [Endpoint -> 0 .. FrameGrouping]
      /\ quitting  \in [Endpoint -> {NotQuitting} \cup 0 .. MaxQuitFlushTime + 1]
  BY ConnectionAssumption DEF Init
<1>q. QED
  BY <1>1, <1>2, TypeOfQueues DEF Init, TypeOK

\* Every step keeps the types.
LEMMA TypeStep == TypeOK /\ [Next]_vars => TypeOK'
<1> SUFFICES ASSUME TypeOK, [Next]_vars
             PROVE  NextTyped
  BY NextTypedIsTypeOK
<1>0. DOMAIN queue = Endpoint /\ \A e \in Endpoint : IsQueue(queue[e])
  BY TypeOfQueues DEF TypeOK
<1> USE DEF NextTyped
<1>1. ASSUME NEW e \in Endpoint, SendNetCommandMsg(e)
      PROVE  NextTyped
  <2>1. PICK cs \in Sends[e] : /\ queue' = [queue EXCEPT ![e] = With(queue[e], cs)]
                               /\ submitted' = [submitted EXCEPT ![e] = @ \cup cs]
    BY <1>1 DEF SendNetCommandMsg
  <2>2. cs \subseteq Command
    BY ConnectionAssumption
  <2>3. IsQueue(With(queue[e], cs))
    BY <1>0, <2>2, WithType, MessageKinds
  <2>4. DOMAIN queue' = Endpoint /\ \A d \in Endpoint : IsQueue(queue'[d])
    BY <1>0, <2>1, <2>3, QueueUpdate
  <2>5. submitted' \in [Endpoint -> SUBSET Command]
    BY <2>1, <2>2 DEF TypeOK
  <2>q. QED
    BY <1>1, <2>4, <2>5 DEF SendNetCommandMsg, TypeOK
<1>2. ASSUME NEW e \in Endpoint, NEW failed, DoSend(e, failed)
      PROVE  NextTyped
  <2>1. /\ DOMAIN queue' = Endpoint /\ \A d \in Endpoint : IsQueue(queue'[d])
        /\ sinceSent' \in [Endpoint -> 0 .. FrameGrouping]
        /\ inFlight' \in [Endpoint -> SUBSET Message]
    BY <1>2, SendPacketsType DEF DoSend
  <2>q. QED
    BY <1>2, <2>1 DEF DoSend, DeletedIfFlushed, TypeOK
<1>3. ASSUME NEW e \in Endpoint, SkipSend(e)
      PROVE  NextTyped
  BY <1>0, <1>3 DEF SkipSend, DeletedIfFlushed, TypeOK
<1>4. ASSUME NEW e \in Endpoint, GiveUp(e)
      PROVE  NextTyped
  <2>1. DOMAIN queue' = Endpoint /\ \A d \in Endpoint : IsQueue(queue'[d])
    BY <1>0, <1>4, EmptyType, QueueUpdate DEF GiveUp
  <2>q. QED
    BY <1>4, <2>1 DEF GiveUp, DeletedIfFlushed, TypeOK
<1>5. ASSUME NEW e \in Endpoint, NEW m \in inFlight[e], ReceiveCommand(e, m)
      PROVE  NextTyped
  <2>1. m \in Command
    BY <1>5, MessageKinds DEF ReceiveCommand, TypeOK, GAMECOMMAND, ACKBOTH
  <2>2. IsQueue(With(queue[e], Acked(e, m)))
    BY <1>0, <2>1, AckType, WithType DEF Acked
  <2>3. DOMAIN queue' = Endpoint /\ \A d \in Endpoint : IsQueue(queue'[d])
    <3>1. CASE Accepts(e)
      BY <1>0, <1>5, <2>2, <3>1, QueueUpdate DEF ReceiveCommand
    <3>2. CASE ~ Accepts(e)
      BY <1>0, <1>5, <3>2 DEF ReceiveCommand
    <3>q. QED
      BY <3>1, <3>2
  <2>4. received' \in [Endpoint -> SUBSET Command]
    BY <1>5, <2>1 DEF ReceiveCommand, TypeOK
  <2>q. QED
    BY <1>5, <2>3, <2>4 DEF ReceiveCommand, TypeOK
<1>6. ASSUME NEW e \in Endpoint, NEW m \in inFlight[e], ReceiveAck(e, m)
      PROVE  NextTyped
  <2>1. IsQueue(Without(queue[e], FirstOf(Acknowledged(e, m))))
    BY <1>0, WithoutType
  <2>2. DOMAIN queue' = Endpoint /\ \A d \in Endpoint : IsQueue(queue'[d])
    BY <1>0, <1>6, <2>1, QueueUpdate DEF ReceiveAck
  <2>q. QED
    BY <1>6, <2>2 DEF ReceiveAck, TypeOK
<1>7. ASSUME NEW e \in Endpoint, NEW m \in inFlight[e], Lose(e, m)
      PROVE  NextTyped
  BY <1>0, <1>7 DEF Lose, TypeOK
<1>8. ASSUME NEW e \in Endpoint, PeerLeaves(e)
      PROVE  NextTyped
  BY <1>0, <1>8, ConnectionAssumption DEF PeerLeaves, TypeOK
<1>9. ASSUME NEW e \in Endpoint, LeaveGame(e)
      PROVE  NextTyped
  <2>1. IsQueue(Without(queue[e], ClearedFrom(e)))
    BY <1>0, WithoutType
  <2>2. DOMAIN queue' = Endpoint /\ \A d \in Endpoint : IsQueue(queue'[d])
    BY <1>0, <1>9, <2>1, QueueUpdate DEF LeaveGame
  <2>3. quitting' \in [Endpoint -> {NotQuitting} \cup 0 .. MaxQuitFlushTime + 1]
    BY <1>9, ConnectionAssumption DEF LeaveGame, TypeOK
  <2>q. QED
    BY <1>9, <2>2, <2>3 DEF LeaveGame, TypeOK
<1>10. ASSUME Tick
       PROVE  NextTyped
  <2>1. ASSUME NEW e \in Endpoint
        PROVE  IsQueue(queue'[e])
    <3>1. /\ DOMAIN queue'[e] = DOMAIN queue[e]
          /\ \A m \in DOMAIN queue[e] :
               queue'[e][m] = IF queue[e][m] = NeverSent THEN NeverSent
                              ELSE Older(queue[e][m], RetryTime + 1)
          /\ queue'[e] = [m \in DOMAIN queue[e] |-> queue'[e][m]]
      BY <1>10 DEF Tick
    <3>2. ASSUME NEW m \in DOMAIN queue[e]
          PROVE  queue'[e][m] \in Ages
      <4>1. queue[e][m] \in Ages
        BY <1>0 DEF IsQueue
      <4>q. QED
        BY <3>1, <4>1, ConnectionAssumption DEF Ages, Older, NeverSent
    <3>3. DOMAIN queue[e] \subseteq Message
      BY <1>0 DEF IsQueue
    <3>q. QED
      BY <3>1, <3>2, <3>3 DEF IsQueue
  <2>2. DOMAIN queue' = Endpoint
    BY <1>10 DEF Tick
  <2>3. ASSUME NEW e \in Endpoint
        PROVE  /\ Older(sinceSent[e], FrameGrouping) \in 0 .. FrameGrouping
               /\ quitting[e] # NotQuitting =>
                    Older(quitting[e], MaxQuitFlushTime + 1) \in 0 .. MaxQuitFlushTime + 1
    <3>1. /\ sinceSent[e] \in 0 .. FrameGrouping
          /\ quitting[e] \in {NotQuitting} \cup 0 .. MaxQuitFlushTime + 1
      BY DEF TypeOK
    <3>q. QED
      BY <3>1, ConnectionAssumption DEF Older
  <2>4. /\ sinceSent' \in [Endpoint -> 0 .. FrameGrouping]
        /\ quitting'  \in [Endpoint -> {NotQuitting} \cup 0 .. MaxQuitFlushTime + 1]
    BY <1>10, <2>3 DEF Tick
  <2>q. QED
    BY <1>10, <2>1, <2>2, <2>4 DEF Tick, TypeOK
<1>11. CASE UNCHANGED vars
  BY <1>0, <1>11 DEF vars, TypeOK
<1>12. CASE Next
  BY <1>1, <1>2, <1>3, <1>4, <1>5, <1>6, <1>7, <1>8, <1>9, <1>10, <1>12
     DEF Next, Update, Receive
<1>q. QED
  BY <1>11, <1>12

-----------------------------------------------------------------------------
(* The inductive invariant.                                                 *)

\* Nothing that was submitted or received is taken back.
Grows == \A d \in Endpoint : received[d] \subseteq received'[d] /\ submitted[d] \subseteq submitted'[d]

\* What is new in a queue is a command given to that end or an ack of a command
\* it has; what is new in flight was in the queue of the sender; what is newly
\* received was given to the other end.
NewIsJustified ==
  \A d \in Endpoint :
    /\ \A m \in DOMAIN queue'[d] :
         \/ m \in DOMAIN queue[d]
         \/ IF m.type = ACKBOTH THEN AckOf(d, m)' ELSE m \in submitted'[d]
    /\ \A m \in inFlight'[d] : m \in inFlight[d] \/ m \in DOMAIN queue[Peer[d]]
    /\ \A c \in received'[d] : c \in received[d] \/ c \in inFlight[d] \ Ack

\* Such a step keeps what the invariant says of messages.
LEMMA JustifiedStep ==
  ASSUME TypeOK, FlightInv, QueueInv, ReceivedInv, Grows, NewIsJustified
  PROVE  FlightInv' /\ QueueInv' /\ ReceivedInv'
<1>1. ASSUME NEW d \in Endpoint, NEW m, AckOf(d, m)
      PROVE  AckOf(d, m)'
  BY <1>1 DEF AckOf, Grows
<1>2. QueueInv'
  BY <1>1 DEF QueueInv, NewIsJustified, Grows
<1>3. FlightInv'
  <2> SUFFICES ASSUME NEW d \in Endpoint, NEW m \in inFlight'[d]
               PROVE  IF m.type = ACKBOTH THEN AckOf(Peer[d], m)' ELSE m \in submitted'[Peer[d]]
    BY DEF FlightInv
  <2>1. Peer[d] \in Endpoint
    BY PeerType
  <2>2. IF m.type = ACKBOTH THEN AckOf(Peer[d], m) ELSE m \in submitted[Peer[d]]
    BY <2>1 DEF FlightInv, QueueInv, NewIsJustified
  <2>q. QED
    BY <1>1, <2>1, <2>2 DEF Grows
<1>4. ReceivedInv'
  <2> SUFFICES ASSUME NEW d \in Endpoint, NEW c \in received'[d]
               PROVE  c \in submitted'[Peer[d]]
    BY DEF ReceivedInv
  <2>1. Peer[d] \in Endpoint
    BY PeerType
  <2>2. CASE c \in received[d]
    BY <2>1, <2>2 DEF ReceivedInv, Grows
  <2>3. CASE c \in inFlight[d] \ Ack
    <3>1. c \in Message
      BY <2>3 DEF TypeOK
    <3>2. c.type # ACKBOTH
      BY <2>3, <3>1, MessageKinds DEF Message
    <3>q. QED
      BY <2>1, <2>3, <3>2 DEF FlightInv, Grows
  <2>q. QED
    BY <2>2, <2>3 DEF NewIsJustified
<1>q. QED
  BY <1>2, <1>3, <1>4

\* Every step is such a step.
LEMMA StepIsJustified ==
  ASSUME TypeOK, [Next]_vars
  PROVE  Grows /\ NewIsJustified
<1>0. DOMAIN queue = Endpoint
  BY DEF TypeOK
<1> USE DEF Grows, NewIsJustified
<1>1. ASSUME NEW e \in Endpoint, SendNetCommandMsg(e)
      PROVE  Grows /\ NewIsJustified
  <2>1. PICK cs \in Sends[e] : /\ queue' = [queue EXCEPT ![e] = With(queue[e], cs)]
                               /\ submitted' = [submitted EXCEPT ![e] = @ \cup cs]
    BY <1>1 DEF SendNetCommandMsg
  <2>2. cs \subseteq Command
    BY ConnectionAssumption
  <2>3. received' = received /\ inFlight' = inFlight
    BY <1>1 DEF SendNetCommandMsg
  <2>4. ASSUME NEW d \in Endpoint, NEW m \in DOMAIN queue'[d], m \notin DOMAIN queue[d]
        PROVE  m.type # ACKBOTH /\ m \in submitted'[d]
    <3>1. queue'[d] = IF d = e THEN With(queue[e], cs) ELSE queue[d]
      BY <1>0, <2>1, OneQueueChanges
    <3>2. DOMAIN With(queue[e], cs) = DOMAIN queue[e] \cup cs
      BY WithDomain
    <3>3. d = e /\ m \in cs
      BY <2>4, <3>1, <3>2
    <3>q. QED
      BY <2>1, <2>2, <3>3, MessageKinds DEF TypeOK
  <2>5. \A d \in Endpoint : submitted[d] \subseteq submitted'[d]
    BY <2>1 DEF TypeOK
  <2>q. QED
    BY <2>3, <2>4, <2>5
<1>2. ASSUME NEW e \in Endpoint, NEW failed, DoSend(e, failed)
      PROVE  Grows /\ NewIsJustified
  <2>1. received' = received /\ submitted' = submitted
    BY <1>2 DEF DoSend
  <2>2. ASSUME NEW d \in Endpoint
        PROVE  DOMAIN queue'[d] \subseteq DOMAIN queue[d]
    BY <1>0, <1>2 DEF DoSend, SendPackets
  <2>3. ASSUME NEW d \in Endpoint, NEW m \in inFlight'[d], m \notin inFlight[d]
        PROVE  m \in DOMAIN queue[Peer[d]]
    <3>1. d = Peer[e] /\ m \in Packed(e)
      BY <1>2, <2>3, PeerType DEF DoSend, SendPackets, TypeOK
    <3>q. QED
      BY <3>1, PeerType DEF Packed, Due
  <2>q. QED
    BY <2>1, <2>2, <2>3
<1>3. ASSUME NEW e \in Endpoint, SkipSend(e)
      PROVE  Grows /\ NewIsJustified
  BY <1>3 DEF SkipSend
<1>4. ASSUME NEW e \in Endpoint, GiveUp(e)
      PROVE  Grows /\ NewIsJustified
  <2>1. ASSUME NEW d \in Endpoint
        PROVE  DOMAIN queue'[d] \subseteq DOMAIN queue[d]
    BY <1>0, <1>4 DEF GiveUp, Empty
  <2>q. QED
    BY <1>4, <2>1 DEF GiveUp
<1>5. ASSUME NEW e \in Endpoint, NEW m \in inFlight[e], ReceiveCommand(e, m)
      PROVE  Grows /\ NewIsJustified
  <2>1. m \in Command /\ m \notin Ack
    BY <1>5, MessageKinds DEF ReceiveCommand, TypeOK, GAMECOMMAND, ACKBOTH, Ack, Message
  <2>2. submitted' = submitted /\ inFlight' = inFlight
    BY <1>5 DEF ReceiveCommand
  <2>3. \A d \in Endpoint : received[d] \subseteq received'[d] /\ received'[d] \subseteq received[d] \cup (inFlight[d] \ Ack)
    BY <1>5, <2>1 DEF ReceiveCommand, TypeOK
  <2>4. ASSUME NEW d \in Endpoint, NEW n \in DOMAIN queue'[d], n \notin DOMAIN queue[d]
        PROVE  n.type = ACKBOTH /\ AckOf(d, n)'
    <3>1. Accepts(e) /\ queue' = [queue EXCEPT ![e] = With(queue[e], {AckBoth(e, m)})]
      BY <1>5, <2>4 DEF ReceiveCommand, Acked
    <3>2. queue'[d] = IF d = e THEN With(queue[e], {AckBoth(e, m)}) ELSE queue[d]
      BY <1>0, <3>1, OneQueueChanges
    <3>3. DOMAIN With(queue[e], {AckBoth(e, m)}) = DOMAIN queue[e] \cup {AckBoth(e, m)}
      BY WithDomain
    <3>4. d = e /\ n = AckBoth(e, m)
      BY <2>4, <3>2, <3>3
    <3>5. m \in received'[e]
      BY <1>5, <3>1 DEF ReceiveCommand, Accepts, TypeOK
    <3>q. QED
      BY <2>1, <3>4, <3>5, AckType DEF AckOf
  <2>q. QED
    BY <2>2, <2>3, <2>4
<1>6. ASSUME NEW e \in Endpoint, NEW m \in inFlight[e], ReceiveAck(e, m)
      PROVE  Grows /\ NewIsJustified
  <2>1. ASSUME NEW d \in Endpoint
        PROVE  DOMAIN queue'[d] \subseteq DOMAIN queue[d]
    <3>1. DOMAIN Without(queue[e], FirstOf(Acknowledged(e, m))) \subseteq DOMAIN queue[e]
      BY DEF Without
    <3>2. queue' = [queue EXCEPT ![e] = Without(queue[e], FirstOf(Acknowledged(e, m)))]
      BY <1>6 DEF ReceiveAck
    <3>q. QED
      BY <1>0, <3>1, <3>2, QueueShrinks
  <2>q. QED
    BY <1>6, <2>1 DEF ReceiveAck
<1>7. ASSUME NEW e \in Endpoint, NEW m \in inFlight[e], Lose(e, m)
      PROVE  Grows /\ NewIsJustified
  <2>1. ASSUME NEW d \in Endpoint
        PROVE  inFlight'[d] \subseteq inFlight[d]
    BY <1>7 DEF Lose, TypeOK
  <2>q. QED
    BY <1>7, <2>1 DEF Lose
<1>8. ASSUME NEW e \in Endpoint, PeerLeaves(e)
      PROVE  Grows /\ NewIsJustified
  BY <1>8 DEF PeerLeaves
<1>9. ASSUME NEW e \in Endpoint, LeaveGame(e)
      PROVE  Grows /\ NewIsJustified
  <2>1. ASSUME NEW d \in Endpoint
        PROVE  DOMAIN queue'[d] \subseteq DOMAIN queue[d]
    <3>1. DOMAIN Without(queue[e], ClearedFrom(e)) \subseteq DOMAIN queue[e]
      BY DEF Without
    <3>2. queue' = [queue EXCEPT ![e] = Without(queue[e], ClearedFrom(e))]
      BY <1>9 DEF LeaveGame
    <3>q. QED
      BY <1>0, <3>1, <3>2, QueueShrinks
  <2>q. QED
    BY <1>9, <2>1 DEF LeaveGame
<1>10. ASSUME Tick
       PROVE  Grows /\ NewIsJustified
  BY <1>10 DEF Tick
<1>11. CASE UNCHANGED vars
  BY <1>11 DEF vars
<1>12. CASE Next
  BY <1>1, <1>2, <1>3, <1>4, <1>5, <1>6, <1>7, <1>8, <1>9, <1>10, <1>12
     DEF Next, Update, Receive
<1>q. QED
  BY <1>11, <1>12

-----------------------------------------------------------------------------
(* What the steps do to the commands in a queue.                            *)

Outstanding(d) == DOMAIN queue[d] \cap Command

\* A doSend takes acks off the queue, but no command.
LEMMA SendKeepsCommands ==
  ASSUME TypeOK, NEW e \in Endpoint, NEW failed, DoSend(e, failed), NEW d \in Endpoint
  PROVE  Outstanding(d)' = Outstanding(d)
<1> DEFINE packed == {m \in Packed(e) : PacketOf(e, m) <= failed}
           once   == {m \in packed : ~ RequiresAck(m)}
           q      == [m \in DOMAIN queue[e] \ once |-> IF m \in packed THEN 0 ELSE queue[e][m]]
<1>1. DOMAIN queue = Endpoint
  BY DEF TypeOK
<1>2. queue' = [queue EXCEPT ![e] = q]
  BY DEF DoSend, SendPackets
<1>3. DOMAIN q = DOMAIN queue[e] \ once
  OBVIOUS
<1>4. once \cap Command = {}
  BY MessageKinds DEF RequiresAck
<1> HIDE DEF q, once
<1>5. CASE d = e
  <2>1. queue'[d] = q
    BY <1>1, <1>2, <1>5, OneQueueChanges
  <2>q. QED
    BY <1>3, <1>4, <1>5, <2>1 DEF Outstanding
<1>6. CASE d # e
  <2>1. queue'[d] = queue[d]
    BY <1>1, <1>2, <1>6, OneQueueChanges
  <2>q. QED
    BY <2>1 DEF Outstanding
<1>q. QED
  BY <1>5, <1>6

\* A command that arrives puts an ack into the queue, and no command.
LEMMA ReceiveKeepsCommands ==
  ASSUME TypeOK, NEW e \in Endpoint, NEW m \in inFlight[e], ReceiveCommand(e, m),
         NEW d \in Endpoint
  PROVE  Outstanding(d)' = Outstanding(d)
<1>1. DOMAIN queue = Endpoint
  BY DEF TypeOK
<1>2. m \in Command
  BY MessageKinds DEF ReceiveCommand, TypeOK, GAMECOMMAND, ACKBOTH
<1>3. AckBoth(e, m) \notin Command
  BY <1>2, AckType, MessageKinds
<1>4. CASE Accepts(e) /\ d = e
  <2>1. queue' = [queue EXCEPT ![e] = With(queue[e], {AckBoth(e, m)})]
    BY <1>4 DEF ReceiveCommand, Acked
  <2>2. queue'[d] = With(queue[e], {AckBoth(e, m)})
    BY <1>1, <1>4, <2>1, OneQueueChanges
  <2>3. DOMAIN queue'[d] = DOMAIN queue[d] \cup {AckBoth(e, m)}
    BY <1>4, <2>2, WithDomain
  <2>q. QED
    BY <1>3, <2>3 DEF Outstanding
<1>5. CASE Accepts(e) /\ d # e
  <2>1. queue' = [queue EXCEPT ![e] = With(queue[e], {AckBoth(e, m)})]
    BY <1>5 DEF ReceiveCommand, Acked
  <2>2. queue'[d] = queue[d]
    BY <1>1, <1>5, <2>1, OneQueueChanges
  <2>q. QED
    BY <2>2 DEF Outstanding
<1>6. CASE ~ Accepts(e)
  BY <1>6 DEF ReceiveCommand, Outstanding
<1>q. QED
  BY <1>4, <1>5, <1>6

\* An ack takes one command off the queue at most, and one the peer has.
LEMMA AckSettles ==
  ASSUME IInv, NEW e \in Endpoint, NEW m \in inFlight[e], ReceiveAck(e, m)
  PROVE  /\ \A d \in Endpoint : d # e => Outstanding(d)' = Outstanding(d)
         /\ \/ Outstanding(e)' = Outstanding(e)
            \/ \E c \in Outstanding(e) \cap received[Peer[e]] :
                 Outstanding(e)' = Outstanding(e) \ {c}
<1> DEFINE first == FirstOf(Acknowledged(e, m))
<1>1. DOMAIN queue = Endpoint
  BY DEF IInv, TypeOK
<1>2. queue' = [queue EXCEPT ![e] = Without(queue[e], first)]
  BY DEF ReceiveAck
<1>3. ASSUME NEW d \in Endpoint, d # e
      PROVE  Outstanding(d)' = Outstanding(d)
  <2>1. queue'[d] = queue[d]
    BY <1>1, <1>2, <1>3, OneQueueChanges
  <2>q. QED
    BY <2>1 DEF Outstanding
<1>4. DOMAIN queue'[e] = DOMAIN queue[e] \ first
  <2>1. queue'[e] = Without(queue[e], first)
    BY <1>1, <1>2, OneQueueChanges
  <2>q. QED
    BY <2>1 DEF Without
<1>5. first \subseteq Acknowledged(e, m) /\ Acknowledged(e, m) \subseteq DOMAIN queue[e]
  BY DEF FirstOf, Acknowledged
<1>6. Acknowledged(e, m) \subseteq Message
  BY <1>5 DEF IInv, TypeOK
<1>7. CASE first \cap Command = {}
  <2> HIDE DEF first
  <2>q. QED
    BY <1>3, <1>4, <1>7 DEF Outstanding
<1>8. CASE first \cap Command # {}
  <2>1. PICK c \in first : c \in Command
    BY <1>8
  <2>2. first = {c}
    BY <1>6, <2>1, FirstIsUnique
  <2>3. c.id = m.number /\ c.player = m.original
    BY <1>5, <2>1 DEF Acknowledged
  <2>4. PICK d \in received[Peer[e]] : About(m, d)
    <3>1. m.type = ACKBOTH
      BY DEF ReceiveAck
    <3>q. QED
      BY <3>1 DEF IInv, FlightInv, AckOf
  <2>5. d \in Command
    BY PeerType DEF IInv, TypeOK
  <2>6. c = d
    BY <2>1, <2>3, <2>4, <2>5, CommandIdentity DEF About
  <2>7. c \in Outstanding(e) \cap received[Peer[e]]
    BY <1>5, <2>1, <2>4, <2>6 DEF Outstanding
  <2>8. Outstanding(e)' = Outstanding(e) \ {c}
    <3> HIDE DEF first
    <3>q. QED
      BY <1>4, <2>2 DEF Outstanding
  <2>q. QED
    BY <1>3, <2>7, <2>8
<1>q. QED
  BY <1>7, <1>8

\* A leaver gives up the commands that are not his own.
LEMMA LeaveClears ==
  ASSUME TypeOK, NEW e \in Endpoint, LeaveGame(e)
  PROVE  /\ \A d \in Endpoint : d # e => Outstanding(d)' = Outstanding(d)
         /\ Outstanding(e)' = {c \in Outstanding(e) : c.player = e}
<1>1. DOMAIN queue = Endpoint
  BY DEF TypeOK
<1>2. queue' = [queue EXCEPT ![e] = Without(queue[e], ClearedFrom(e))]
  BY DEF LeaveGame
<1>3. ASSUME NEW d \in Endpoint, d # e
      PROVE  Outstanding(d)' = Outstanding(d)
  <2>1. queue'[d] = queue[d]
    BY <1>1, <1>2, <1>3, OneQueueChanges
  <2>q. QED
    BY <2>1 DEF Outstanding
<1>4. DOMAIN queue'[e] = DOMAIN queue[e] \ ClearedFrom(e)
  <2>1. queue'[e] = Without(queue[e], ClearedFrom(e))
    BY <1>1, <1>2, OneQueueChanges
  <2>q. QED
    BY <2>1 DEF Without
<1>q. QED
  BY <1>3, <1>4 DEF Outstanding, ClearedFrom

\* A command given to the connection enters the queue.
LEMMA SendAdds ==
  ASSUME TypeOK, NEW e \in Endpoint, NEW cs \in Sends[e],
         queue' = [queue EXCEPT ![e] = With(@, cs)]
  PROVE  /\ \A d \in Endpoint : d # e => Outstanding(d)' = Outstanding(d)
         /\ Outstanding(e)' = Outstanding(e) \cup cs
<1>1. DOMAIN queue = Endpoint
  BY DEF TypeOK
<1>2. queue' = [queue EXCEPT ![e] = With(queue[e], cs)]
  OBVIOUS
<1>3. ASSUME NEW d \in Endpoint, d # e
      PROVE  Outstanding(d)' = Outstanding(d)
  <2>1. queue'[d] = queue[d]
    BY <1>1, <1>2, <1>3, OneQueueChanges
  <2>q. QED
    BY <2>1 DEF Outstanding
<1>4. DOMAIN queue'[e] = DOMAIN queue[e] \cup cs
  <2>1. queue'[e] = With(queue[e], cs)
    BY <1>1, <1>2, OneQueueChanges
  <2>q. QED
    BY <2>1 DEF With
<1>5. cs \subseteq Command
  BY ConnectionAssumption
<1>q. QED
  BY <1>3, <1>4, <1>5 DEF Outstanding

\* Giving up empties the queue.
LEMMA GiveUpEmpties ==
  ASSUME TypeOK, NEW e \in Endpoint, GiveUp(e)
  PROVE  /\ \A d \in Endpoint : d # e => Outstanding(d)' = Outstanding(d)
         /\ Outstanding(e)' = {}
<1>1. DOMAIN queue = Endpoint /\ queue' = [queue EXCEPT ![e] = Empty]
  BY DEF TypeOK, GiveUp
<1>2. ASSUME NEW d \in Endpoint, d # e
      PROVE  Outstanding(d)' = Outstanding(d)
  <2>1. queue'[d] = queue[d]
    BY <1>1, <1>2, OneQueueChanges
  <2>q. QED
    BY <2>1 DEF Outstanding
<1>3. DOMAIN queue'[e] = {}
  BY <1>1, OneQueueChanges DEF Empty
<1>q. QED
  BY <1>2, <1>3 DEF Outstanding

\* Time does not change what is outstanding.
LEMMA TickKeepsCommands ==
  ASSUME Tick, NEW d \in Endpoint
  PROVE  Outstanding(d)' = Outstanding(d)
BY DEF Tick, Outstanding

-----------------------------------------------------------------------------
(* NothingForgotten.                                                        *)

Excused(d, c) == c \in received[Peer[d]] \/ timedOut[d] \/ (left[d] /\ c.player # d)

\* What is submitted or outstanding is outstanding after the step, or excused.
KeepsTrack ==
  \A d \in Endpoint :
    /\ timedOut[d] => timedOut'[d]
    /\ left[d] => left'[d]
    /\ \A c \in submitted'[d] \ submitted[d] : c \in Outstanding(d)'
    /\ \A c \in Outstanding(d) : c \in Outstanding(d)' \/ Excused(d, c)'

LEMMA TrackKept ==
  ASSUME TypeOK, NothingForgotten, Grows, KeepsTrack
  PROVE  NothingForgotten'
<1> SUFFICES ASSUME NEW d \in Endpoint, NEW c \in submitted'[d]
             PROVE  c \in Outstanding(d)' \/ Excused(d, c)'
  BY DEF NothingForgotten, Outstanding, Excused
<1>1. CASE c \notin submitted[d]
  BY <1>1 DEF KeepsTrack
<1>2. CASE c \in submitted[d]
  <2>1. c \in Outstanding(d) \/ Excused(d, c)
    BY <1>2 DEF NothingForgotten, Outstanding, Excused, TypeOK
  <2>2. Excused(d, c) => Excused(d, c)'
    BY PeerType DEF Excused, Grows, KeepsTrack
  <2>q. QED
    BY <2>1, <2>2 DEF KeepsTrack
<1>q. QED
  BY <1>1, <1>2

\* Every step keeps track.
LEMMA StepKeepsTrack ==
  ASSUME IInv, [Next]_vars
  PROVE  KeepsTrack
<1>0. TypeOK
  BY DEF IInv
<1> USE DEF KeepsTrack
<1>1. ASSUME NEW e \in Endpoint, SendNetCommandMsg(e)
      PROVE  KeepsTrack
  <2>1. PICK cs \in Sends[e] : /\ queue' = [queue EXCEPT ![e] = With(@, cs)]
                               /\ submitted' = [submitted EXCEPT ![e] = @ \cup cs]
    BY <1>1 DEF SendNetCommandMsg
  <2>2. /\ \A d \in Endpoint : d # e => Outstanding(d)' = Outstanding(d)
        /\ Outstanding(e)' = Outstanding(e) \cup cs
    BY <1>0, <2>1, SendAdds
  <2>3. \A d \in Endpoint : submitted'[d] = IF d = e THEN submitted[d] \cup cs ELSE submitted[d]
    BY <1>0, <2>1 DEF TypeOK
  <2>q. QED
    BY <1>1, <2>2, <2>3 DEF SendNetCommandMsg
<1>2. ASSUME NEW e \in Endpoint, NEW failed, DoSend(e, failed)
      PROVE  KeepsTrack
  BY <1>0, <1>2, SendKeepsCommands DEF DoSend
<1>3. ASSUME NEW e \in Endpoint, SkipSend(e)
      PROVE  KeepsTrack
  BY <1>3 DEF SkipSend, Outstanding
<1>4. ASSUME NEW e \in Endpoint, GiveUp(e)
      PROVE  KeepsTrack
  <2>1. \A d \in Endpoint : d # e => Outstanding(d)' = Outstanding(d)
    BY <1>0, <1>4, GiveUpEmpties
  <2>2. /\ timedOut'[e]
        /\ \A d \in Endpoint : timedOut[d] => timedOut'[d]
    BY <1>0, <1>4 DEF GiveUp, TypeOK
  <2>q. QED
    BY <1>4, <2>1, <2>2 DEF GiveUp, Excused
<1>5. ASSUME NEW e \in Endpoint, NEW m \in inFlight[e], ReceiveCommand(e, m)
      PROVE  KeepsTrack
  BY <1>0, <1>5, ReceiveKeepsCommands DEF ReceiveCommand
<1>6. ASSUME NEW e \in Endpoint, NEW m \in inFlight[e], ReceiveAck(e, m)
      PROVE  KeepsTrack
  <2>1. /\ \A d \in Endpoint : d # e => Outstanding(d)' = Outstanding(d)
        /\ \/ Outstanding(e)' = Outstanding(e)
           \/ \E c \in Outstanding(e) \cap received[Peer[e]] :
                Outstanding(e)' = Outstanding(e) \ {c}
    BY <1>6, AckSettles
  <2>2. \A c \in Outstanding(e) : c \in Outstanding(e)' \/ c \in received'[Peer[e]]
    BY <1>6, <2>1 DEF ReceiveAck
  <2>q. QED
    BY <1>6, <2>1, <2>2 DEF ReceiveAck, Excused
<1>7. ASSUME NEW e \in Endpoint, NEW m \in inFlight[e], Lose(e, m)
      PROVE  KeepsTrack
  BY <1>7 DEF Lose, Outstanding
<1>8. ASSUME NEW e \in Endpoint, PeerLeaves(e)
      PROVE  KeepsTrack
  BY <1>8 DEF PeerLeaves, Outstanding
<1>9. ASSUME NEW e \in Endpoint, LeaveGame(e)
      PROVE  KeepsTrack
  <2>1. /\ \A d \in Endpoint : d # e => Outstanding(d)' = Outstanding(d)
        /\ Outstanding(e)' = {c \in Outstanding(e) : c.player = e}
    BY <1>0, <1>9, LeaveClears
  <2>2. left'[e] /\ \A d \in Endpoint : left[d] => left'[d]
    BY <1>0, <1>9 DEF LeaveGame, TypeOK
  <2>q. QED
    BY <1>9, <2>1, <2>2 DEF LeaveGame, Excused
<1>10. ASSUME Tick
       PROVE  KeepsTrack
  BY <1>10, TickKeepsCommands DEF Tick
<1>11. CASE UNCHANGED vars
  BY <1>11 DEF vars, Outstanding
<1>12. CASE Next
  BY <1>1, <1>2, <1>3, <1>4, <1>5, <1>6, <1>7, <1>8, <1>9, <1>10, <1>12
     DEF Next, Update, Receive
<1>q. QED
  BY <1>11, <1>12

\* The invariant holds at first and is kept.
LEMMA InvariantHolds == Spec => []IInv
<1>1. Init => IInv
  <2> SUFFICES ASSUME Init
               PROVE  IInv
    OBVIOUS
  <2>1. TypeOK
    BY InitType
  <2>2. \A e \in Endpoint : /\ DOMAIN queue[e] = {} /\ inFlight[e] = {}
                            /\ submitted[e] = {} /\ received[e] = {}
    BY DEF Init, Empty
  <2>q. QED
    BY <2>1, <2>2 DEF IInv, FlightInv, QueueInv, ReceivedInv, NothingForgotten
<1>2. IInv /\ [Next]_vars => IInv'
  <2> SUFFICES ASSUME IInv, [Next]_vars
               PROVE  IInv'
    OBVIOUS
  <2>1. TypeOK /\ TypeOK'
    BY TypeStep DEF IInv
  <2>2. Grows /\ NewIsJustified
    BY <2>1, StepIsJustified
  <2>3. FlightInv' /\ QueueInv' /\ ReceivedInv'
    BY <2>2, JustifiedStep DEF IInv
  <2>4. NothingForgotten'
    BY <2>2, StepKeepsTrack, TrackKept DEF IInv
  <2>q. QED
    BY <2>1, <2>3, <2>4 DEF IInv
<1>q. QED
  BY <1>1, <1>2, PTL DEF Spec

\* Every variable of a connection keeps its type (Connection.cpp), for any
\* commands, retry time, flush time and packet size.
THEOREM TypeCorrectness == Spec => []TypeOK
<1>1. IInv => TypeOK
  BY DEF IInv
<1>q. QED
  BY <1>1, InvariantHolds, PTL

\* A command stays in the queue until the peer has it, but for the flush time
\* and what a leaver relayed: acks only take away what arrived (processAck).
THEOREM NothingIsForgotten == Spec => []NothingForgotten
<1>1. IInv => NothingForgotten
  BY DEF IInv
<1>q. QED
  BY <1>1, InvariantHolds, PTL

-----------------------------------------------------------------------------
(* Connection implements ReliableDelivery.                                  *)

\* The abstract state.
outstanding == [e \in Endpoint |-> DOMAIN queue[e] \cap Command]
arrived     == [e \in Endpoint |-> received[Peer[e]]]
closing     == [e \in Endpoint |-> quitting[e] # NotQuitting]

\* It is a function of what is outstanding and received at each end.
LEMMA AbstractState ==
  /\ outstanding = [e \in Endpoint |-> Outstanding(e)]
  /\ outstanding' = [e \in Endpoint |-> Outstanding(e)']
  /\ \A d \in Endpoint : outstanding[d] = Outstanding(d)
BY DEF outstanding, Outstanding

\* Nothing the abstract specification sees has changed.
Stutters ==
  /\ \A d \in Endpoint : Outstanding(d)' = Outstanding(d)
  /\ submitted' = submitted /\ received' = received /\ quitting' = quitting

LEMMA Stutter ==
  ASSUME Stutters
  PROVE  UNCHANGED <<submitted, outstanding, arrived, closing>>
<1>1. outstanding' = outstanding
  BY AbstractState DEF Stutters
<1>q. QED
  BY <1>1 DEF Stutters, arrived, closing

\* Closing: an end that is quitting, or starts to, drops some commands.
LEMMA CloseStep ==
  ASSUME NEW e \in Endpoint,
         submitted' = submitted, received' = received,
         \A d \in Endpoint : d # e => Outstanding(d)' = Outstanding(d),
         Outstanding(e)' \subseteq Outstanding(e),
         closing' = [closing EXCEPT ![e] = TRUE]
  PROVE  Delivery!Close(e)
<1>1. outstanding' = [outstanding EXCEPT ![e] = Outstanding(e)']
  BY AbstractState
<1>2. Outstanding(e)' \in SUBSET outstanding[e]
  BY AbstractState
<1>3. arrived' = arrived
  BY DEF arrived
<1>q. QED
  BY <1>1, <1>2, <1>3 DEF Delivery!Close, outstanding, arrived, closing

\* An endpoint that starts to quit closes, and no other.
LEMMA QuitCloses ==
  ASSUME NEW e \in Endpoint,
         DOMAIN quitting = Endpoint,
         quitting' = [quitting EXCEPT ![e] = 0]
  PROVE  closing' = [closing EXCEPT ![e] = TRUE]
<1>1. \A d \in Endpoint : quitting'[d] = IF d = e THEN 0 ELSE quitting[d]
  OBVIOUS
<1>2. ASSUME NEW d \in Endpoint
      PROVE  (quitting'[d] # NotQuitting) = (IF d = e THEN TRUE ELSE quitting[d] # NotQuitting)
  <2>1. CASE d = e
    <3>1. quitting'[d] # NotQuitting
      BY <1>1, <2>1 DEF NotQuitting
    <3>q. QED
      BY <2>1, <3>1
  <2>2. CASE d # e
    BY <1>1, <2>2
  <2>q. QED
    BY <2>1, <2>2
<1>3. closing' = [d \in Endpoint |-> IF d = e THEN TRUE ELSE quitting[d] # NotQuitting]
  BY <1>2 DEF closing
<1>4. [closing EXCEPT ![e] = TRUE] = [d \in Endpoint |-> IF d = e THEN TRUE ELSE quitting[d] # NotQuitting]
  BY DEF closing
<1>q. QED
  BY <1>3, <1>4

\* Every step is one of the abstract specification, or none.
LEMMA StepRefines ==
  ASSUME IInv, [Next]_vars
  PROVE  [Delivery!Next]_(Delivery!vars)
<1> DEFINE Refined == Delivery!Next \/ UNCHANGED <<submitted, outstanding, arrived, closing>>
<1> SUFFICES Refined
  BY DEF Delivery!vars, outstanding, arrived, closing
<1>0. TypeOK
  BY DEF IInv
<1>1. ASSUME NEW e \in Endpoint, SendNetCommandMsg(e)
      PROVE  Refined
  <2>1. PICK cs \in Sends[e] : /\ queue' = [queue EXCEPT ![e] = With(@, cs)]
                               /\ submitted' = [submitted EXCEPT ![e] = @ \cup cs]
    BY <1>1 DEF SendNetCommandMsg
  <2>2. /\ \A d \in Endpoint : d # e => Outstanding(d)' = Outstanding(d)
        /\ Outstanding(e)' = Outstanding(e) \cup cs
    BY <1>0, <2>1, SendAdds
  <2>3. outstanding' = [outstanding EXCEPT ![e] = @ \cup cs]
    BY <2>2, AbstractState
  <2>4. arrived' = arrived /\ closing' = closing /\ ~ closing[e]
    BY <1>1 DEF SendNetCommandMsg, Accepts, arrived, closing
  <2>5. Delivery!Submit(e)
    BY <2>1, <2>3, <2>4 DEF Delivery!Submit, outstanding, arrived, closing
  <2>q. QED
    BY <2>5 DEF Delivery!Next
<1>2. ASSUME NEW e \in Endpoint, NEW failed, DoSend(e, failed)
      PROVE  Refined
  <2>1. Stutters
    BY <1>0, <1>2, SendKeepsCommands DEF DoSend, Stutters
  <2>q. QED
    BY <2>1, Stutter
<1>3. ASSUME NEW e \in Endpoint, SkipSend(e)
      PROVE  Refined
  <2>1. Stutters
    BY <1>3 DEF SkipSend, Stutters, Outstanding
  <2>q. QED
    BY <2>1, Stutter
<1>4. ASSUME NEW e \in Endpoint, GiveUp(e)
      PROVE  Refined
  <2>1. /\ \A d \in Endpoint : d # e => Outstanding(d)' = Outstanding(d)
        /\ Outstanding(e)' \subseteq Outstanding(e)
    BY <1>0, <1>4, GiveUpEmpties
  <2>2. quitting[e] # NotQuitting
    BY <1>4, ConnectionAssumption DEF GiveUp, Flushing, NotQuitting
  <2>3. closing' = [closing EXCEPT ![e] = TRUE]
    BY <1>4, <2>2 DEF GiveUp, closing
  <2>4. Delivery!Close(e)
    BY <1>4, <2>1, <2>3, CloseStep DEF GiveUp
  <2>q. QED
    BY <2>4 DEF Delivery!Next
<1>5. ASSUME NEW e \in Endpoint, NEW m \in inFlight[e], ReceiveCommand(e, m)
      PROVE  Refined
  <2>1. \A d \in Endpoint : Outstanding(d)' = Outstanding(d)
    BY <1>0, <1>5, ReceiveKeepsCommands
  <2>2. submitted' = submitted /\ quitting' = quitting
    BY <1>5 DEF ReceiveCommand
  <2>3. CASE ~ exists[e]
    <3>1. Stutters
      BY <1>5, <2>1, <2>2, <2>3 DEF ReceiveCommand, Stutters
    <3>q. QED
      BY <3>1, Stutter
  <2>4. CASE exists[e]
    <3>1. Peer[e] \in Endpoint /\ Peer[Peer[e]] = e
      BY PeerType
    <3>2. m \in submitted[Peer[e]]
      <4>1. m.type # ACKBOTH
        BY <1>5 DEF ReceiveCommand, GAMECOMMAND, ACKBOTH
      <4>q. QED
        BY <4>1 DEF IInv, FlightInv
    <3>3. received' = [received EXCEPT ![e] = @ \cup {m}]
      BY <1>5, <2>4 DEF ReceiveCommand
    <3>4. arrived' = [arrived EXCEPT ![Peer[e]] = @ \cup {m}]
      <4>1. \A d \in Endpoint : Peer[d] = e <=> d = Peer[e]
        BY <3>1, PeerType
      <4>2. \A d \in Endpoint :
              received'[Peer[d]] = IF d = Peer[e] THEN received[Peer[d]] \cup {m}
                                                  ELSE received[Peer[d]]
        BY <1>0, <3>3, <4>1, PeerType DEF TypeOK
      <4>q. QED
        BY <3>1, <4>2 DEF arrived
    <3>5. outstanding' = outstanding /\ closing' = closing
      BY <2>1, <2>2, AbstractState DEF closing
    <3>6. Delivery!Arrive(Peer[e])
      BY <2>2, <3>1, <3>2, <3>4, <3>5 DEF Delivery!Arrive, outstanding, arrived, closing
    <3>q. QED
      BY <3>1, <3>6 DEF Delivery!Next
  <2>q. QED
    BY <2>3, <2>4
<1>6. ASSUME NEW e \in Endpoint, NEW m \in inFlight[e], ReceiveAck(e, m)
      PROVE  Refined
  <2>1. submitted' = submitted /\ received' = received /\ quitting' = quitting
    BY <1>6 DEF ReceiveAck
  <2>2. \A d \in Endpoint : d # e => Outstanding(d)' = Outstanding(d)
    BY <1>6, AckSettles
  <2>3. CASE Outstanding(e)' = Outstanding(e)
    <3>1. Stutters
      BY <2>1, <2>2, <2>3 DEF Stutters
    <3>q. QED
      BY <3>1, Stutter
  <2>4. ASSUME NEW c \in Outstanding(e) \cap received[Peer[e]],
               Outstanding(e)' = Outstanding(e) \ {c}
        PROVE  Refined
    <3>1. outstanding' = [outstanding EXCEPT ![e] = @ \ {c}]
      BY <2>2, <2>4, AbstractState
    <3>2. c \in outstanding[e] \cap arrived[e]
      BY <2>4, AbstractState DEF arrived
    <3>3. arrived' = arrived /\ closing' = closing
      BY <2>1 DEF arrived, closing
    <3>4. Delivery!Settle(e)
      BY <2>1, <3>1, <3>2, <3>3 DEF Delivery!Settle, outstanding, arrived, closing
    <3>q. QED
      BY <3>4 DEF Delivery!Next
  <2>q. QED
    BY <1>6, <2>3, <2>4, AckSettles
<1>7. ASSUME NEW e \in Endpoint, NEW m \in inFlight[e], Lose(e, m)
      PROVE  Refined
  <2>1. Stutters
    BY <1>7 DEF Lose, Stutters, Outstanding
  <2>q. QED
    BY <2>1, Stutter
<1>8. ASSUME NEW e \in Endpoint, PeerLeaves(e)
      PROVE  Refined
  <2>1. \A d \in Endpoint : Outstanding(d)' = Outstanding(d)
    BY <1>8 DEF PeerLeaves, Outstanding
  <2>2. closing' = [closing EXCEPT ![e] = TRUE]
    BY <1>0, <1>8, QuitCloses DEF PeerLeaves, TypeOK
  <2>3. Delivery!Close(e)
    BY <1>8, <2>1, <2>2, CloseStep DEF PeerLeaves
  <2>q. QED
    BY <2>3 DEF Delivery!Next
<1>9. ASSUME NEW e \in Endpoint, LeaveGame(e)
      PROVE  Refined
  <2>1. /\ \A d \in Endpoint : d # e => Outstanding(d)' = Outstanding(d)
        /\ Outstanding(e)' \subseteq Outstanding(e)
    BY <1>0, <1>9, LeaveClears
  <2>2. closing' = [closing EXCEPT ![e] = TRUE]
    BY <1>0, <1>9, QuitCloses DEF LeaveGame, TypeOK
  <2>3. Delivery!Close(e)
    BY <1>9, <2>1, <2>2, CloseStep DEF LeaveGame
  <2>q. QED
    BY <2>3 DEF Delivery!Next
<1>10. ASSUME Tick
       PROVE  Refined
  <2>1. \A d \in Endpoint : Outstanding(d)' = Outstanding(d)
    BY <1>10, TickKeepsCommands
  <2>2. outstanding' = outstanding
    BY <2>1, AbstractState
  <2>3. ASSUME NEW d \in Endpoint
        PROVE  (quitting'[d] # NotQuitting) <=> (quitting[d] # NotQuitting)
    <3>1. quitting[d] \in {NotQuitting} \cup 0 .. MaxQuitFlushTime + 1
      BY <1>0 DEF TypeOK
    <3>2. quitting'[d] = IF quitting[d] = NotQuitting THEN NotQuitting
                         ELSE Older(quitting[d], MaxQuitFlushTime + 1)
      BY <1>10 DEF Tick
    <3>q. QED
      BY <3>1, <3>2, ConnectionAssumption DEF Older, NotQuitting
  <2>4. closing' = closing
    BY <2>3 DEF closing
  <2>5. submitted' = submitted /\ arrived' = arrived
    BY <1>10 DEF Tick, arrived
  <2>q. QED
    BY <2>2, <2>4, <2>5
<1>11. CASE UNCHANGED vars
  <2>1. Stutters
    BY <1>11 DEF vars, Stutters, Outstanding
  <2>q. QED
    BY <2>1, Stutter
<1>12. CASE Next
  BY <1>1, <1>2, <1>3, <1>4, <1>5, <1>6, <1>7, <1>8, <1>9, <1>10, <1>12
     DEF Next, Update, Receive
<1>q. QED
  BY <1>11, <1>12

\* Queues, retries and acks implement ReliableDelivery: what an open connection
\* was given stays outstanding until it has arrived (Connection.cpp).
THEOREM ConnectionImplementsReliableDelivery == Spec => ImplementsReliableDelivery
<1>1. Init => Delivery!Init
  <2> SUFFICES ASSUME Init
               PROVE  Delivery!Init
    OBVIOUS
  <2>1. /\ \A e \in Endpoint : DOMAIN queue[e] \cap Command = {}
        /\ \A e \in Endpoint : received[Peer[e]] = {}
        /\ \A e \in Endpoint : ~ (quitting[e] # NotQuitting)
    BY PeerType DEF Init, Empty
  <2>q. QED
    BY <2>1 DEF Init, Delivery!Init
<1>2. IInv /\ [Next]_vars => [Delivery!Next]_(Delivery!vars)
  BY StepRefines
<1>q. QED
  BY <1>1, <1>2, InvariantHolds, PTL DEF Spec, ImplementsReliableDelivery, Delivery!Spec

=============================================================================
