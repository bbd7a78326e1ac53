----------------------------- MODULE LargeCommands -----------------------------
(***************************************************************************)
(* Commands that do not fit a packet (NetCommandWrapperList.cpp, the        *)
(* wrapping parts of Connection.cpp, NetPacket.cpp and                      *)
(* ConnectionManager.cpp).  A connection splits such a command into         *)
(* wrapper chunks; whoever receives the chunks puts them together and       *)
(* treats the command as if it had just arrived, its relay included.        *)
(*                                                                          *)
(* A message is resent until it is acknowledged and may come late, so a     *)
(* wire keeps what was ever put on it: what it holds arrives any number of  *)
(* times in any order, and so an acknowledgement need not be late as well.  *)
(* The chunks of a command are equally long, and a chunk is named by who    *)
(* split the command for whom: the IDs of wrappers do not collide.  Nobody  *)
(* leaves.                                                                  *)
(***************************************************************************)
EXTENDS Integers, FiniteSets

CONSTANTS
  Player,    \* the slots
  Router,    \* m_packetRouterSlot
  Large,     \* the commands too big for a packet
  Origin,    \* Origin[c]: the player who issues c
  Id,        \* Id[c]: its command ID, from its origin's own counter
  Chunks,    \* Chunks[c]: how many chunks it is split into
  Relay      \* Relay[c]: the players it is for

ASSUME LargeCommandsAssumption ==
  /\ Router \in Player
  /\ Origin \in [Large -> Player] /\ Id \in [Large -> Nat]
  /\ Chunks \in [Large -> Nat \ {0}]
  /\ \A c \in Large : Relay[c] \subseteq Player \ {Origin[c]}

VARIABLES
  submitted,   \* the commands issued so far
  queue,       \* queue[p][q]: the wrappers p's connection to q keeps sending
  wire,        \* wire[q]: all wrappers ever sent to q
  nodes,       \* nodes[p]: m_netCommandWrapperList, by wrapped command ID
  processed    \* history: processed[p]: what p has stored as a command

vars == <<submitted, queue, wire, nodes, processed>>

NoData == [of |-> "uninitialised", relay |-> {}]

\* The bytes of a command, a part for each chunk: the relay is in the header, at
\* the front.
Bytes(c, relay) ==
  [k \in 0 .. Chunks[c] - 1 |-> [of |-> c, relay |-> IF k = 0 THEN relay ELSE {}]]

\* NetPacket::ConstructBigCommandList, by p on his connection to q.
Split(p, q, bytes) ==
  {[by |-> p, for |-> q, command |-> bytes[0].of, chunks |-> Cardinality(DOMAIN bytes),
    number |-> k, data |-> bytes[k]] : k \in DOMAIN bytes}

\* Connection::sendNetCommandMsg of a large command: the wrappers, and the
\* command inside them, have the relay of this connection.
SendLarge(p, q, bytes, relay) ==
  [chunk : Split(p, q, [bytes EXCEPT ![0].relay = relay]), relay : {relay}]

Init ==
  /\ submitted = {}
  /\ queue     = [p \in Player |-> [q \in Player |-> {}]]
  /\ wire      = [q \in Player |-> {}]
  /\ nodes     = [p \in Player |-> [i \in {} |-> {}]]
  /\ processed = [p \in Player |-> {}]

\* p's connections get sent[q].
Queued(p, sent) == [queue EXCEPT ![p] = [q \in Player |-> @[q] \cup sent[q]]]
OnWire(sent)    == [q \in Player |-> wire[q] \cup sent[q]]

\* sendLocalCommand: through the router, who sends his own himself.
Submit(c) ==
  LET p == Origin[c]
      relay(q) == IF p = Router THEN {q} \cap Relay[c] ELSE Relay[c]
      to == IF p = Router THEN Relay[c] ELSE {Router}
      sent == [q \in Player |->
                 IF q \in to THEN SendLarge(p, q, Bytes(c, {}), relay(q)) ELSE {}]
  IN  /\ c \notin submitted
      /\ submitted' = submitted \cup {c}
      /\ queue' = Queued(p, sent)
      /\ wire' = OnWire(sent)
      /\ UNCHANGED <<nodes, processed>>

-----------------------------------------------------------------------------
\* NetCommandWrapperListNode of the first wrapper that comes with a new ID.
NewNode(chunk) == [k \in 0 .. chunk.chunks - 1 |-> NoData]

\* Players with different counters may use one ID at a time.
NodeFor(p, chunk) ==
  IF Id[chunk.command] \in DOMAIN nodes[p] THEN nodes[p][Id[chunk.command]] ELSE NewNode(chunk)

StartedOver(p, chunk) == [NewNode(chunk) EXCEPT ![chunk.number] = chunk.data]   \* mutant
\* copyChunkData: a chunk past the end or already there is not copied.
CopyChunkData(p, chunk) ==
  LET node == NodeFor(p, chunk)
  IN  [k \in DOMAIN node |-> IF k = chunk.number /\ node[k] = NoData THEN chunk.data ELSE node[k]]

OneShort(node)    == Cardinality({k \in DOMAIN node : node[k] = NoData}) <= 1   \* mutant
IsComplete(node)  == \A k \in DOMAIN node : node[k] # NoData

\* processWrapper, then getReadyCommands takes a complete node out of the list.
Collected(p, chunk) ==
  LET i    == Id[chunk.command]
      node == CopyChunkData(p, chunk)
      rest == DOMAIN nodes[p] \ {i}
  IN  [j \in IF IsComplete(node) THEN rest ELSE rest \cup {i} |->
         IF j = i THEN node ELSE nodes[p][j]]

AckToOwner(p, chunk) == Origin[chunk.command]   \* mutant
\* ackCommand: the ack of a wrapper goes to the router, or from the router to
\* the player whose command it carries, whoever sent the wrapper.
AckTo(p, chunk) == IF p = Router THEN Origin[chunk.command] ELSE Router

\* processAckStage1 there: the wrapper is taken off the queue to p.
Acked(p, chunk, queues) ==
  [queues EXCEPT ![AckTo(p, chunk)][p] = {m \in @ : m.chunk # chunk}]

\* sendRemoteCommand: a wrapper is passed on as it is, and a command that has
\* become complete is split anew.
PassedOn(q, m) ==
  IF q \in m.relay THEN {[m EXCEPT !.relay = {q}]} ELSE {}
SentAgain(p, q, bytes) ==
  IF q \in bytes[0].relay THEN SendLarge(p, q, bytes, {q}) ELSE {}

\* doRelay on a packet with one wrapper.  (The ack of the complete command
\* concerns no wrapper.)
ReceiveWrapper(p, m) ==
  LET bytes == CopyChunkData(p, m.chunk)
      ready == IsComplete(bytes)
      sent  == [q \in Player |->
                  IF q = p THEN {}
                  ELSE PassedOn(q, m) \cup (IF ready THEN SentAgain(p, q, bytes) ELSE {})]
  IN  /\ m \in wire[p]
      /\ queue' = Acked(p, m.chunk, Queued(p, sent))
      /\ wire' = OnWire(sent)
      /\ nodes' = [nodes EXCEPT ![p] = Collected(p, m.chunk)]
      /\ processed' = IF ready /\ p \in bytes[0].relay
                        THEN [processed EXCEPT ![p] = @ \cup {[k \in DOMAIN bytes |-> bytes[k].of]}]
                        ELSE processed
      /\ UNCHANGED submitted

Next ==
  \/ \E c \in Large : Submit(c)
  \/ \E p \in Player : \E m \in wire[p] : ReceiveWrapper(p, m)

Spec == Init /\ [][Next]_vars

\* The wrappers p may send to q: his own command's, passed on, of a new split.
Wrappers(p, q) ==
  LET first(c) == SendLarge(Origin[c], Router, Bytes(c, {}), Relay[c])
  IN  UNION {IF p = Origin[c]
               THEN IF q = Router THEN first(c) ELSE SendLarge(p, q, Bytes(c, {}), {q})
               ELSE {[m EXCEPT !.relay = {q}] : m \in IF p = Router THEN first(c) ELSE {}}
                      \cup SendLarge(p, q, Bytes(c, {}), {q}) :
             c \in {d \in Large : p # q /\ (q \in Relay[d] \/ q = Router)}}

\* A wrapper is sent until it arrives.
Fairness ==
  \A p \in Player : \A q \in Player : \A m \in Wrappers(p, q) : WF_vars(ReceiveWrapper(q, m))

FairSpec == Spec /\ Fairness

-----------------------------------------------------------------------------
TypeOK ==
  /\ submitted \subseteq Large
  /\ \A p \in Player :
       /\ \A q \in Player : queue[p][q] \subseteq wire[q]
       /\ \A i \in DOMAIN nodes[p] : i \in {Id[c] : c \in Large} /\ ~ IsComplete(nodes[p][i])
       /\ \A bytes \in processed[p] : \A k \in DOMAIN bytes : bytes[k] \in Large

\* What is put together is what was taken apart: whatever chunks of a command
\* come late, twice or over two routes, and with different relays, nobody
\* processes a command with a part missing or with a part of another one.
RebuiltWhole ==
  \A p \in Player : \A bytes \in processed[p] :
    \E c \in submitted : p \in Relay[c] /\ bytes = [k \in 0 .. Chunks[c] - 1 |-> c]

\* A large command gets to everyone it is for.
EveryoneGetsIt ==
  \A c \in Large : \A p \in Relay[c] :
    c \in submitted ~> \E bytes \in processed[p] : bytes[0] = c

\* "We already received this chunk, no need to recopy it." (copyChunkData): a
\* chunk that is not copied for being present is the one present.
PresentIsThisChunk ==
  \A p \in Player : \A m \in wire[p] :
    LET node == NodeFor(p, m.chunk)
        k    == m.chunk.number
    IN  k \in DOMAIN node /\ node[k] # NoData => node[k].of = m.chunk.data.of

\* Sending a wrapper comes to an end.
AcknowledgedTo(p) ==
  \A q \in Player : \A m \in Wrappers(p, q) : m \in queue[p][q] ~> m \notin queue[p][q]

\* The router and the players whose commands he passes on get their acks: no
\* wrapper of theirs keeps its queue from emptying (canILeave).
ResendingEnds == AcknowledgedTo(Router) /\ \A c \in Large : AcknowledgedTo(Origin[c])

\* "We should remove it from the connection that sent it so it doesn't keep
\* resending it." (the comment on processAckStage1), for whoever sent it.
NobodyKeepsResending == \A p \in Player : AcknowledgedTo(p)

=============================================================================
