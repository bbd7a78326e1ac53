------------------------------ MODULE Connection ------------------------------
(***************************************************************************)
(* The two ends of a connection (Connection.cpp) over UDP, with the parts   *)
(* of ConnectionManager.cpp that drive them: a command stays in the queue   *)
(* and is sent again every m_retryTime until the peer's ack arrives; acks   *)
(* are sent once.  Packets are lost, repeated and reordered.  A player who  *)
(* leaves flushes his queues, for MaxQuitFlushTime at most.                 *)
(*                                                                          *)
(* Times are ages: how long ago something happened, counted up to the limit *)
(* it is compared with.  A queue is a function from the messages in it to   *)
(* their ages; its order is the one CommandLists establishes.  Every        *)
(* command here requires an ack; the commands that do not are lost as UDP   *)
(* loses them.                                                              *)
(***************************************************************************)
EXTENDS Integers, FiniteSets

CONSTANTS
  Player,            \* the slots, numbers
  Endpoint,          \* the players at the ends of connections
  Peer,              \* Peer[e]: the player at the other end
  Sends,             \* Sends[e]: sets of commands sendNetCommandMsg may queue: one
                     \* command, or the wrapper chunks of one that fits no packet
  RetryTime,         \* m_retryTime
  FrameGrouping,     \* m_frameGrouping
  MaxQuitFlushTime,
  Leavers,           \* bound: the players who may leave
  PacketCommands     \* how many messages fit a packet

ACKBOTH     == 0     \* NetCommandType
GAMECOMMAND == 4     \* for all the types that require an ack

\* number is what the list sorts by: the ID of a command, of the command
\* acknowledged for an ack, whose own id is 0; original is that one's player.
Command ==
  {c \in [type : {GAMECOMMAND}, player : Player, id : Nat, number : Nat, original : Player] :
     c.number = c.id /\ c.original = c.player}
Ack     == [type : {ACKBOTH}, player : Endpoint, id : {0}, number : Nat, original : Player]
Message == Command \cup Ack

ASSUME ConnectionAssumption ==
  /\ Player \subseteq Nat /\ Endpoint \subseteq Player
  /\ Peer \in [Endpoint -> Endpoint]
  /\ \A e \in Endpoint : Peer[e] # e /\ Peer[Peer[e]] = e
  /\ Sends \in [Endpoint -> SUBSET SUBSET Command]
  /\ RetryTime \in Nat /\ FrameGrouping \in Nat /\ MaxQuitFlushTime \in Nat
  /\ Leavers \subseteq Endpoint /\ PacketCommands \in Nat \ {0}

VARIABLES
  queue,       \* queue[e]: m_netCommandList, with the age of m_timeLastSent
  sinceSent,   \* sinceSent[e]: the age of m_lastTimeSent
  quitting,    \* quitting[e]: the age of m_quitTime, NotQuitting unless m_isQuitting
  left,        \* left[e]: e has processed his own PLAYERLEAVE
  exists,      \* exists[e]: the connection has not been deleted
  timedOut,    \* history: timedOut[e]: it was deleted by MaxQuitFlushTime
  inFlight,    \* inFlight[e]: the messages on their way to e
  submitted,   \* history: submitted[e]: the commands queued at e
  received     \* history: received[e]: the commands e has processed

vars == <<queue, sinceSent, quitting, left, exists, timedOut, inFlight, submitted, received>>

NeverSent   == -1
NotQuitting == -1

TypeOK ==
  /\ DOMAIN queue = Endpoint
  /\ \A e \in Endpoint : /\ DOMAIN queue[e] \subseteq Message
                         /\ queue[e] \in [DOMAIN queue[e] -> {NeverSent} \cup 0 .. RetryTime + 1]
  /\ sinceSent \in [Endpoint -> 0 .. FrameGrouping]
  /\ quitting  \in [Endpoint -> {NotQuitting} \cup 0 .. MaxQuitFlushTime + 1]
  /\ left      \in [Endpoint -> BOOLEAN]
  /\ exists    \in [Endpoint -> BOOLEAN]
  /\ timedOut  \in [Endpoint -> BOOLEAN]
  /\ inFlight  \in [Endpoint -> SUBSET Message]
  /\ submitted \in [Endpoint -> SUBSET Command]
  /\ received  \in [Endpoint -> SUBSET Command]

Empty == [m \in {} |-> NeverSent]

\* Connection::init, with m_lastTimeSent long ago.
Init ==
  /\ queue     = [e \in Endpoint |-> Empty]
  /\ sinceSent = [e \in Endpoint |-> FrameGrouping]
  /\ quitting  = [e \in Endpoint |-> NotQuitting]
  /\ left      = [e \in Endpoint |-> FALSE]
  /\ exists    = [e \in Endpoint |-> TRUE]
  /\ timedOut  = [e \in Endpoint |-> FALSE]
  /\ inFlight  = [e \in Endpoint |-> {}]
  /\ submitted = [e \in Endpoint |-> {}]
  /\ received  = [e \in Endpoint |-> {}]

-----------------------------------------------------------------------------
\* The order of the queue: by type, player and sort number.
Before(x, y) ==
  \/ x.type < y.type
  \/ x.type = y.type /\ x.player < y.player
  \/ x.type = y.type /\ x.player = y.player /\ x.number < y.number
  \/ /\ x.type = y.type /\ x.player = y.player /\ x.number = y.number
     /\ x.original < y.original

\* q with the messages ms added: addMessage leaves those alone that are there.
With(q, ms) ==
  [m \in DOMAIN q \cup ms |-> IF m \in DOMAIN q THEN q[m] ELSE NeverSent]

Without(q, ms) == [m \in DOMAIN q \ ms |-> q[m]]

\* Connection::sendNetCommandMsg, on an existing connection.
Accepts(e) == exists[e] /\ quitting[e] = NotQuitting

SendNetCommandMsg(e) ==
  /\ Accepts(e)
  /\ \E cs \in Sends[e] :
       /\ cs \cap submitted[e] = {}
       /\ queue' = [queue EXCEPT ![e] = With(@, cs)]
       /\ submitted' = [submitted EXCEPT ![e] = @ \cup cs]
  /\ UNCHANGED <<sinceSent, quitting, left, exists, timedOut, inFlight, received>>

-----------------------------------------------------------------------------
\* The messages doSend sends this time, in the order of the queue.
OnlyNew(e) == {m \in DOMAIN queue[e] : queue[e][m] = NeverSent}   \* mutant: no retry
Due(e) ==
  {m \in DOMAIN queue[e] : queue[e][m] = NeverSent \/ queue[e][m] > RetryTime}

Rank(e, m) == Cardinality({d \in Due(e) : Before(d, m)})

\* A packet is closed by the first message that does not fit, and that message
\* is passed over until the next doSend.
Packed(e) == {m \in Due(e) : Rank(e, m) % (PacketCommands + 1) # PacketCommands}
PacketOf(e, m) == Rank(e, m) \div (PacketCommands + 1)

RequiresAck(m) == m.type # ACKBOTH

\* doSend when packet number failed meets a full transport: its messages count
\* as sent, the packets behind it are left.  There may be no such packet.
SendPackets(e, failed) ==
  LET packed == {m \in Packed(e) : PacketOf(e, m) <= failed}
      once   == {m \in packed : ~ RequiresAck(m)}
      sent   == {m \in packed : PacketOf(e, m) < failed}
  IN  /\ queue' = [queue EXCEPT ![e] =
                     [m \in DOMAIN @ \ once |-> IF m \in packed THEN 0 ELSE @[m]]]
      /\ sinceSent' = [sinceSent EXCEPT ![e] = IF packed = {} THEN @ ELSE 0]
      /\ inFlight' = [inFlight EXCEPT ![Peer[e]] = @ \cup sent]

\* ConnectionManager::update deletes a quitting connection whose queue is empty.
DeletedIfFlushed(e) ==
  exists' = [exists EXCEPT ![e] = ~ (quitting[e] # NotQuitting /\ DOMAIN queue'[e] = {})]

NeverTimesOut(e) == TRUE   \* mutant
Flushing(e)      == quitting[e] <= MaxQuitFlushTime

\* ConnectionManager::update on one connection: doSend, then the deletion.
DoSend(e, failed) ==
  /\ exists[e]
  /\ Flushing(e)
  /\ sinceSent[e] >= FrameGrouping
  /\ SendPackets(e, failed)
  /\ DeletedIfFlushed(e)
  /\ UNCHANGED <<quitting, left, timedOut, submitted, received>>

\* A doSend that is too early for the frame grouping.
SkipSend(e) ==
  /\ exists[e]
  /\ Flushing(e)
  /\ sinceSent[e] < FrameGrouping
  /\ UNCHANGED <<queue, sinceSent, quitting, left, timedOut, inFlight, submitted, received>>
  /\ DeletedIfFlushed(e)

\* A quitting connection that has tried for long enough.
GiveUp(e) ==
  /\ exists[e]
  /\ ~ Flushing(e)
  /\ queue' = [queue EXCEPT ![e] = Empty]
  /\ timedOut' = [timedOut EXCEPT ![e] = TRUE]
  /\ DeletedIfFlushed(e)
  /\ UNCHANGED <<sinceSent, quitting, left, inFlight, submitted, received>>

NoFailure(e) == Cardinality(Due(e))

Update(e) ==
  \/ \E failed \in 0 .. NoFailure(e) : DoSend(e, failed)
  \/ SkipSend(e)
  \/ GiveUp(e)

-----------------------------------------------------------------------------
AckOfSender(e, c) ==   \* mutant: the ack carries the sender's slot as its own
  [type |-> ACKBOTH, player |-> c.player, id |-> 0, number |-> c.id, original |-> c.player]
AckBoth(e, c) ==
  [type |-> ACKBOTH, player |-> e, id |-> 0, number |-> c.id, original |-> c.player]

\* Every copy that arrives is acknowledged, an ack may have been lost.
AckedOnce(e, c) == IF c \in received[e] THEN {} ELSE {AckBoth(e, c)}   \* mutant
Acked(e, c)     == {AckBoth(e, c)}

\* doRelay on a command: ackCommand, then processNetCommand, which ignores the
\* players it has no connection to.
ReceiveCommand(e, m) ==
  /\ m.type = GAMECOMMAND
  /\ queue' = IF Accepts(e) THEN [queue EXCEPT ![e] = With(@, Acked(e, m))] ELSE queue
  /\ received' = IF exists[e] THEN [received EXCEPT ![e] = @ \cup {m}] ELSE received
  /\ UNCHANGED <<sinceSent, quitting, left, exists, timedOut, inFlight, submitted>>

\* Connection::processAck takes the first message of the queue with the ID and
\* the player of the acknowledged command.
AnyPlayers(e, ack) == {m \in DOMAIN queue[e] : m.id = ack.number}   \* mutant
Acknowledged(e, ack) ==
  {m \in DOMAIN queue[e] : m.id = ack.number /\ m.player = ack.original}

FirstOf(ms) == {m \in ms : \A n \in ms : ~ Before(n, m)}

ReceiveAck(e, m) ==
  /\ m.type = ACKBOTH
  /\ exists[e]
  /\ queue' = [queue EXCEPT ![e] = Without(@, FirstOf(Acknowledged(e, m)))]
  /\ UNCHANGED <<sinceSent, quitting, left, exists, timedOut, inFlight, submitted, received>>

Receive(e, m) == m \in inFlight[e] /\ (ReceiveCommand(e, m) \/ ReceiveAck(e, m))

Lose(e, m) ==
  /\ m \in inFlight[e]
  /\ inFlight' = [inFlight EXCEPT ![e] = @ \ {m}]
  /\ UNCHANGED <<queue, sinceSent, quitting, left, exists, timedOut, submitted, received>>

-----------------------------------------------------------------------------
\* ConnectionManager::processPlayerLeave for the peer.
PeerLeaves(e) ==
  /\ Peer[e] \in Leavers
  /\ Accepts(e)
  /\ quitting' = [quitting EXCEPT ![e] = 0]
  /\ UNCHANGED <<queue, sinceSent, left, exists, timedOut, inFlight, submitted, received>>

\* ConnectionManager::processPlayerLeave for the local player, who gives up
\* what he relays for others (clearCommandsExceptFrom).
KeepsNothing(e) == DOMAIN queue[e]   \* mutant: his own commands are cleared too
ClearedFrom(e)  == {m \in DOMAIN queue[e] : m.player # e}

LeaveGame(e) ==
  /\ e \in Leavers
  /\ exists[e]
  /\ ~ left[e]
  /\ left' = [left EXCEPT ![e] = TRUE]
  /\ queue' = [queue EXCEPT ![e] = Without(@, ClearedFrom(e))]
  /\ quitting' = [quitting EXCEPT ![e] = 0]
  /\ UNCHANGED <<sinceSent, exists, timedOut, inFlight, submitted, received>>

\* Time passes.
Older(age, limit) == IF age < limit THEN age + 1 ELSE age

Tick ==
  /\ queue' = [e \in Endpoint |-> [m \in DOMAIN queue[e] |->
                 IF queue[e][m] = NeverSent THEN NeverSent
                 ELSE Older(queue[e][m], RetryTime + 1)]]
  /\ sinceSent' = [e \in Endpoint |-> Older(sinceSent[e], FrameGrouping)]
  /\ quitting' = [e \in Endpoint |->
                    IF quitting[e] = NotQuitting THEN NotQuitting
                    ELSE Older(quitting[e], MaxQuitFlushTime + 1)]
  /\ UNCHANGED <<left, exists, timedOut, inFlight, submitted, received>>

Next ==
  \/ \E e \in Endpoint : SendNetCommandMsg(e) \/ Update(e) \/ PeerLeaves(e) \/ LeaveGame(e)
  \/ \E e \in Endpoint : \E m \in inFlight[e] : Receive(e, m) \/ Lose(e, m)
  \/ Tick

Spec == Init /\ [][Next]_vars

\* Both machines keep updating and time passes.
Updating == WF_vars(Tick) /\ \A e \in Endpoint : WF_vars(Update(e))

UpdatingSpec == Spec /\ Updating

\* What may be sent to e.
Addressed(e) ==
  UNION Sends[Peer[e]] \cup {AckBoth(Peer[e], c) : c \in UNION Sends[e]}

\* Neither the transport, whose buffer every update empties, nor the network
\* drops a message for ever that is sent again and again, and the network does
\* not repeat one for ever.
Fairness ==
  /\ Updating
  /\ \A e \in Endpoint :
       /\ \A m \in Addressed(Peer[e]) : SF_vars(m \in Packed(e) /\ DoSend(e, NoFailure(e)))
       /\ \A m \in Addressed(e) : SF_vars(Receive(e, m)) /\ WF_vars(Lose(e, m))

FairSpec == Spec /\ Fairness

-----------------------------------------------------------------------------
\* A command is in the queue until the peer has it, unless the connection gave
\* up after MaxQuitFlushTime, or the command was another player's and the local
\* player left: a leaver's last counts and his PLAYERLEAVE are not dropped with
\* his connections (processAck, setQuitting, ConnectionManager::update).
NothingForgotten ==
  \A e \in Endpoint : \A c \in submitted[e] :
    \/ c \in DOMAIN queue[e]
    \/ c \in received[Peer[e]]
    \/ timedOut[e]
    \/ left[e] /\ c.player # e

\* The ack that arrives takes the command it is about off the queue ("Take that
\* message off the list of commands to send", Connection::processAck).
AckTakesItsCommand ==
  [][\A e \in Endpoint : \A m \in inFlight[e] : ReceiveAck(e, m) =>
       \A c \in DOMAIN queue[e] :
         c.type # ACKBOTH /\ c.id = m.number /\ c.player = m.original =>
           c \notin DOMAIN queue'[e]]_vars

\* What is sent arrives, in spite of losses, unless one of the ends stops.
Arrives ==
  \A e \in Endpoint : \A c \in UNION Sends[e] :
    c \in submitted[e] ~>
      (c \in received[Peer[e]] \/ quitting[e] # NotQuitting \/ ~ exists[Peer[e]])

\* Between two players who stay, every command is settled in the end: the acks
\* get through too (canILeave waits for empty queues).
Drains ==
  \A e \in Endpoint :
    <>[](DOMAIN queue[e] \cap Command = {} \/ quitting[Peer[e]] # NotQuitting \/ ~ exists[Peer[e]])

\* A quitting connection goes away, even from a peer who acknowledges nothing
\* any more (MaxQuitFlushTime).
QuittingEnds == \A e \in Endpoint : quitting[e] # NotQuitting ~> ~ exists[e]

Delivery == INSTANCE ReliableDelivery WITH
              outstanding <- [e \in Endpoint |-> DOMAIN queue[e] \cap Command],
              arrived     <- [e \in Endpoint |-> received[Peer[e]]],
              closing     <- [e \in Endpoint |-> quitting[e] # NotQuitting]

ImplementsReliableDelivery == Delivery!Spec

=============================================================================
