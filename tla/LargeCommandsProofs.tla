-------------------------- MODULE LargeCommandsProofs --------------------------
(***************************************************************************)
(* What is put together is what was taken apart, for any players, commands, *)
(* numbers of chunks and relays, and whatever is repeated, reordered or     *)
(* late.  The invariant follows a command from the wires over the nodes of  *)
(* the wrapper lists to what is processed: everything on a wire is a chunk  *)
(* of a command that goes there, every node is the command of its ID with   *)
(* parts missing.                                                           *)
(*                                                                          *)
(* A node is found by the ID alone, and IDs are the owner's own: the        *)
(* theorems are about players who get no two commands with one ID           *)
(* (SeparateIds).                                                           *)
(***************************************************************************)
EXTENDS LargeCommands, TLAPS, FiniteSetTheorems

\* Those who get wrappers of c.
Receivers(c) == Relay[c] \cup (IF Origin[c] = Router THEN {} ELSE {Router})

\* Nobody gets two commands with one ID.
SeparateIds ==
  \A c, d \in Large : Id[c] = Id[d] /\ Receivers(c) \cap Receivers(d) # {} => c = d

\* The parts, chunks and wrappers of c.
Numbers(c)    == 0 .. Chunks[c] - 1
Part(c)       == [of : {c}, relay : SUBSET Relay[c]]
ChunksOf(c)   == [by : Player, for : Player, command : {c}, chunks : {Chunks[c]},
                  number : Numbers(c), data : Part(c)]
WrappersOf(c) == [chunk : ChunksOf(c), relay : SUBSET Relay[c]]
Wrapper       == UNION {WrappersOf(c) : c \in Large}

\* c put together, and c with parts missing.
WholeBytes(c)  == [Numbers(c) -> Part(c)]
BytesSoFar(c)  == [Numbers(c) -> Part(c) \cup {NoData}]

Types ==
  /\ submitted \subseteq Large
  /\ queue \in [Player -> [Player -> SUBSET Wrapper]]
  /\ wire \in [Player -> SUBSET Wrapper]
  /\ DOMAIN nodes = Player /\ DOMAIN processed = Player

QueuesInv == \A p, q \in Player : queue[p][q] \subseteq wire[q]

\* Only chunks of submitted commands are on the wires, and only on those to
\* players the command goes to.
WiresInv ==
  \A q \in Player : \A m \in wire[q] :
    \E c \in submitted : q \in Receivers(c) /\ m \in WrappersOf(c)

\* A node is one command, incomplete.
NodesInv ==
  \A p \in Player : \A i \in DOMAIN nodes[p] :
    \E c \in submitted : /\ p \in Receivers(c) /\ Id[c] = i
                         /\ nodes[p][i] \in BytesSoFar(c)
                         /\ ~ IsComplete(nodes[p][i])

Inv == Types /\ QueuesInv /\ WiresInv /\ NodesInv /\ RebuiltWhole

-----------------------------------------------------------------------------
(* Taking a command apart.                                                  *)

LEMMA ChunkNumbers ==
  ASSUME NEW c \in Large
  PROVE  0 \in Numbers(c) /\ Cardinality(Numbers(c)) = Chunks[c]
  <1>1. Chunks[c] \in Nat \ {0}
    BY LargeCommandsAssumption
  <1>2. Cardinality(0 .. Chunks[c] - 1) = (Chunks[c] - 1) - 0 + 1
    BY <1>1, FS_Interval
  <1> QED BY <1>1, <1>2 DEF Numbers

LEMMA SplitWrappers ==
  ASSUME NEW c \in Large, NEW p \in Player, NEW q \in Player,
         NEW bytes \in WholeBytes(c), NEW relay \in SUBSET Relay[c]
  PROVE  SendLarge(p, q, bytes, relay) \subseteq WrappersOf(c)
  <1> DEFINE all == [bytes EXCEPT ![0].relay = relay]
  <1>1. all \in WholeBytes(c)
    <2>1. \A k \in Numbers(c) : bytes[k] \in Part(c)
      BY DEF WholeBytes
    <2>2. [bytes[0] EXCEPT !.relay = relay] \in Part(c)
      BY <2>1, ChunkNumbers DEF Part
    <2> QED BY <2>1, <2>2 DEF WholeBytes
  <1>2. DOMAIN all = Numbers(c) /\ Cardinality(DOMAIN all) = Chunks[c]
    BY <1>1, ChunkNumbers DEF WholeBytes
  <1>3. \A k \in Numbers(c) : all[k] \in Part(c) /\ all[k].of = c
    BY <1>1 DEF WholeBytes, Part
  <1> HIDE DEF all
  <1>4. Split(p, q, all) \subseteq ChunksOf(c)
    BY <1>2, <1>3, ChunkNumbers DEF Split, ChunksOf
  <1> QED BY <1>4 DEF SendLarge, WrappersOf, all

LEMMA SubmittedBytes ==
  ASSUME NEW c \in Large
  PROVE  Bytes(c, {}) \in WholeBytes(c)
BY DEF Bytes, WholeBytes, Numbers, Part

-----------------------------------------------------------------------------
(* Putting it together.                                                     *)

\* A wrapper that arrives finds the node of its own command.
LEMMA NodeIsThisCommand ==
  ASSUME SeparateIds, Inv, NEW p \in Player, NEW m \in wire[p],
         NEW c \in submitted, p \in Receivers(c), m \in WrappersOf(c)
  PROVE  NodeFor(p, m.chunk) \in BytesSoFar(c)
  <1>1. m.chunk.command = c /\ m.chunk.chunks = Chunks[c]
    BY DEF WrappersOf, ChunksOf
  <1>2. CASE Id[c] \in DOMAIN nodes[p]
    <2>1. PICK d \in submitted : /\ p \in Receivers(d) /\ Id[d] = Id[c]
                                 /\ nodes[p][Id[c]] \in BytesSoFar(d)
      BY <1>2 DEF Inv, NodesInv
    <2>2. d = c
      BY <2>1 DEF SeparateIds, Inv, Types
    <2> QED BY <1>1, <1>2, <2>1, <2>2 DEF NodeFor
  <1>3. CASE Id[c] \notin DOMAIN nodes[p]
    <2>1. NodeFor(p, m.chunk) = NewNode(m.chunk)
      BY <1>1, <1>3 DEF NodeFor
    <2> QED BY <1>1, <2>1 DEF NewNode, BytesSoFar, Numbers
  <1> QED BY <1>2, <1>3

\* Its part is added to it, and when none is missing it is that command.
LEMMA CopiedIsThisCommand ==
  ASSUME SeparateIds, Inv, NEW p \in Player, NEW m \in wire[p],
         NEW c \in submitted, p \in Receivers(c), m \in WrappersOf(c)
  PROVE  LET node == CopyChunkData(p, m.chunk)
         IN  /\ node \in BytesSoFar(c)
             /\ IsComplete(node) => node \in WholeBytes(c)
  <1> DEFINE node == CopyChunkData(p, m.chunk)
  <1>1. NodeFor(p, m.chunk) \in BytesSoFar(c)
    BY NodeIsThisCommand
  <1>2. m.chunk.data \in Part(c)
    BY DEF WrappersOf, ChunksOf
  <1>3. node \in BytesSoFar(c)
    BY <1>1, <1>2 DEF CopyChunkData, BytesSoFar
  <1> HIDE DEF node
  <1>4. ASSUME IsComplete(node) PROVE node \in WholeBytes(c)
    <2>1. \A k \in Numbers(c) : node[k] \in Part(c)
      BY <1>3, <1>4 DEF IsComplete, BytesSoFar
    <2> QED BY <1>3, <2>1 DEF BytesSoFar, WholeBytes
  <1> QED BY <1>3, <1>4 DEF node

-----------------------------------------------------------------------------
(* Sending.  What a step puts on the wires are wrappers of one command, to  *)
(* players it goes to.                                                      *)

SendsOf(c, sent) ==
  \A q \in Player : sent[q] \subseteq WrappersOf(c) /\ (sent[q] # {} => q \in Receivers(c))

LEMMA SentWires ==
  ASSUME Inv, NEW c \in Large, NEW sent, SendsOf(c, sent),
         submitted' = submitted \cup {c}, wire' = OnWire(sent)
  PROVE  /\ wire' \in [Player -> SUBSET Wrapper]
         /\ \A q \in Player : wire'[q] = wire[q] \cup sent[q]
         /\ WiresInv'
  <1>1. \A q \in Player : wire'[q] = wire[q] \cup sent[q]
    BY DEF OnWire
  <1>2. wire' \in [Player -> SUBSET Wrapper]
    BY DEF OnWire, SendsOf, Inv, Types, Wrapper
  <1>3. WiresInv'
    <2> SUFFICES ASSUME NEW q \in Player, NEW m \in wire'[q]
                 PROVE  \E d \in submitted' : q \in Receivers(d) /\ m \in WrappersOf(d)
      BY DEF WiresInv
    <2>1. CASE m \in wire[q]
      BY <2>1 DEF Inv, WiresInv
    <2>2. CASE m \in sent[q]
      BY <2>2 DEF SendsOf
    <2> QED BY <1>1, <2>1, <2>2
  <1> QED BY <1>1, <1>2, <1>3

LEMMA SentQueues ==
  ASSUME Inv, NEW c \in Large, NEW sent, SendsOf(c, sent), NEW p \in Player
  PROVE  /\ Queued(p, sent) \in [Player -> [Player -> SUBSET Wrapper]]
         /\ \A r, q \in Player : Queued(p, sent)[r][q] \subseteq wire[q] \cup sent[q]
  <1>1. \A q \in Player : sent[q] \subseteq Wrapper
    BY DEF SendsOf, Wrapper
  <1> QED BY <1>1 DEF Queued, Inv, Types, QueuesInv

LEMMA AckedQueues ==
  ASSUME NEW p \in Player, NEW chunk, NEW queues \in [Player -> [Player -> SUBSET Wrapper]]
  PROVE  /\ Acked(p, chunk, queues) \in [Player -> [Player -> SUBSET Wrapper]]
         /\ \A r, q \in Player : Acked(p, chunk, queues)[r][q] \subseteq queues[r][q]
BY DEF Acked

-----------------------------------------------------------------------------
LEMMA InitInv == Init => Inv
BY DEF Init, Inv, Types, QueuesInv, WiresInv, NodesInv, RebuiltWhole

LEMMA SubmitInv ==
  ASSUME Inv, NEW c \in Large, Submit(c)
  PROVE  Inv'
  <1> DEFINE p == Origin[c]
             relay(q) == IF p = Router THEN {q} \cap Relay[c] ELSE Relay[c]
             to == IF p = Router THEN Relay[c] ELSE {Router}
             sent == [q \in Player |->
                        IF q \in to THEN SendLarge(p, q, Bytes(c, {}), relay(q)) ELSE {}]
  <1>1. /\ submitted' = submitted \cup {c} /\ queue' = Queued(p, sent)
        /\ wire' = OnWire(sent) /\ UNCHANGED <<nodes, processed>>
    BY Zenon DEF Submit
  <1>2. p \in Player
    BY LargeCommandsAssumption
  <1>3. SendsOf(c, sent)
    <2> SUFFICES ASSUME NEW q \in Player, q \in to
                 PROVE  /\ SendLarge(p, q, Bytes(c, {}), relay(q)) \subseteq WrappersOf(c)
                        /\ q \in Receivers(c)
      BY DEF SendsOf
    <2>1. relay(q) \in SUBSET Relay[c]
      OBVIOUS
    <2> QED BY <1>2, <2>1, SplitWrappers, SubmittedBytes DEF Receivers
  <1> HIDE DEF sent
  <1>4. /\ wire' \in [Player -> SUBSET Wrapper] /\ WiresInv'
        /\ \A q \in Player : wire'[q] = wire[q] \cup sent[q]
    BY <1>1, <1>3, SentWires
  <1>5. /\ queue' \in [Player -> [Player -> SUBSET Wrapper]]
        /\ \A r, q \in Player : queue'[r][q] \subseteq wire[q] \cup sent[q]
    BY <1>1, <1>2, <1>3, SentQueues
  <1>6. Types' /\ QueuesInv'
    BY <1>1, <1>4, <1>5 DEF Inv, Types, QueuesInv
  <1>7. NodesInv'
    BY <1>1 DEF Inv, NodesInv
  <1>8. RebuiltWhole'
    BY <1>1 DEF Inv, RebuiltWhole
  <1> QED BY <1>4, <1>6, <1>7, <1>8 DEF Inv

LEMMA ReceiveInv ==
  ASSUME SeparateIds, Inv, NEW p \in Player, NEW m \in wire[p], ReceiveWrapper(p, m)
  PROVE  Inv'
  <1> DEFINE bytes == CopyChunkData(p, m.chunk)
             ready == IsComplete(bytes)
             sent  == [q \in Player |->
                         IF q = p THEN {}
                         ELSE PassedOn(q, m) \cup (IF ready THEN SentAgain(p, q, bytes) ELSE {})]
  <1>1. /\ submitted' = submitted
        /\ queue' = Acked(p, m.chunk, Queued(p, sent))
        /\ wire' = OnWire(sent)
        /\ nodes' = [nodes EXCEPT ![p] = Collected(p, m.chunk)]
        /\ processed' = IF ready /\ p \in bytes[0].relay
                          THEN [processed EXCEPT ![p] = @ \cup {[k \in DOMAIN bytes |-> bytes[k].of]}]
                          ELSE processed
    BY Zenon DEF ReceiveWrapper
  <1>2. PICK c \in submitted : p \in Receivers(c) /\ m \in WrappersOf(c)
    BY DEF Inv, WiresInv
  <1>3. c \in Large /\ submitted' = submitted \cup {c}
    BY <1>1 DEF Inv, Types
  <1>4. bytes \in BytesSoFar(c) /\ (ready => bytes \in WholeBytes(c))
    BY <1>2, CopiedIsThisCommand
  <1>5. ready => bytes[0].relay \subseteq Relay[c]
    BY <1>3, <1>4, ChunkNumbers DEF WholeBytes, Part
  <1> HIDE DEF bytes, ready
  <1>6. SendsOf(c, sent)
    <2> SUFFICES ASSUME NEW q \in Player
                 PROVE  /\ PassedOn(q, m) \subseteq WrappersOf(c)
                        /\ PassedOn(q, m) # {} => q \in Receivers(c)
                        /\ ready => /\ SentAgain(p, q, bytes) \subseteq WrappersOf(c)
                                    /\ SentAgain(p, q, bytes) # {} => q \in Receivers(c)
      BY DEF SendsOf
    <2>1. m.relay \subseteq Relay[c] /\ m.chunk \in ChunksOf(c)
      BY <1>2 DEF WrappersOf
    <2>2. q \in m.relay => [m EXCEPT !.relay = {q}] \in WrappersOf(c)
      BY <1>2, <2>1 DEF WrappersOf
    <2>3. /\ PassedOn(q, m) \subseteq WrappersOf(c)
          /\ PassedOn(q, m) # {} => q \in Receivers(c)
      BY <2>1, <2>2 DEF PassedOn, Receivers
    <2>4. ASSUME ready
          PROVE  /\ SentAgain(p, q, bytes) \subseteq WrappersOf(c)
                 /\ SentAgain(p, q, bytes) # {} => q \in Receivers(c)
      <3>1. q \in bytes[0].relay => {q} \in SUBSET Relay[c]
        BY <1>5, <2>4
      <3>2. q \in bytes[0].relay => SendLarge(p, q, bytes, {q}) \subseteq WrappersOf(c)
        BY <1>3, <1>4, <2>4, <3>1, SplitWrappers
      <3> QED BY <1>5, <2>4, <3>2 DEF SentAgain, Receivers
    <2> QED BY <2>3, <2>4
  <1> HIDE DEF sent
  <1>7. /\ wire' \in [Player -> SUBSET Wrapper] /\ WiresInv'
        /\ \A q \in Player : wire'[q] = wire[q] \cup sent[q]
    BY <1>1, <1>3, <1>6, SentWires
  <1>8. /\ queue' \in [Player -> [Player -> SUBSET Wrapper]]
        /\ \A r, q \in Player : queue'[r][q] \subseteq wire[q] \cup sent[q]
    <2>1. /\ Queued(p, sent) \in [Player -> [Player -> SUBSET Wrapper]]
          /\ \A r, q \in Player : Queued(p, sent)[r][q] \subseteq wire[q] \cup sent[q]
      BY <1>3, <1>6, SentQueues
    <2>2. /\ queue' \in [Player -> [Player -> SUBSET Wrapper]]
          /\ \A r, q \in Player : queue'[r][q] \subseteq Queued(p, sent)[r][q]
      BY <1>1, <2>1, AckedQueues
    <2> QED BY <2>1, <2>2
  <1>9. Types' /\ QueuesInv'
    BY <1>1, <1>7, <1>8 DEF Inv, Types, QueuesInv
  <1>10. NodesInv'
    <2> SUFFICES ASSUME NEW q \in Player, NEW i \in DOMAIN nodes'[q]
                 PROVE  \E d \in submitted : /\ q \in Receivers(d) /\ Id[d] = i
                                             /\ nodes'[q][i] \in BytesSoFar(d)
                                             /\ ~ IsComplete(nodes'[q][i])
      BY <1>1 DEF NodesInv, IsComplete
    <2>1. m.chunk.command = c
      BY <1>2 DEF WrappersOf, ChunksOf
    <2>2. CASE q # p
      <3>1. nodes'[q] = nodes[q]
        BY <1>1, <2>2 DEF Inv, Types
      <3> QED BY <3>1 DEF Inv, NodesInv
    <2>3. CASE q = p
      <3>1. nodes'[p] = Collected(p, m.chunk)
        BY <1>1 DEF Inv, Types
      <3> DEFINE rest == DOMAIN nodes[p] \ {Id[c]}
      <3>2. nodes'[p] = [j \in IF ready THEN rest ELSE rest \cup {Id[c]} |->
                           IF j = Id[c] THEN bytes ELSE nodes[p][j]]
        BY <2>1, <3>1 DEF Collected, bytes, ready
      <3>3. CASE i # Id[c]
        <4>1. nodes'[p][i] = nodes[p][i] /\ i \in DOMAIN nodes[p]
          BY <2>3, <3>2, <3>3
        <4> QED BY <2>3, <4>1 DEF Inv, NodesInv
      <3>4. CASE i = Id[c]
        <4>1. ~ ready /\ nodes'[p][i] = bytes
          BY <2>3, <3>2, <3>4
        <4> QED BY <1>2, <1>4, <2>3, <3>4, <4>1 DEF ready
      <3> QED BY <3>3, <3>4
    <2> QED BY <2>2, <2>3
  <1>11. RebuiltWhole'
    <2> SUFFICES ASSUME NEW q \in Player, NEW b \in processed'[q]
                 PROVE  \E d \in submitted : q \in Relay[d] /\ b = [k \in 0 .. Chunks[d] - 1 |-> d]
      BY <1>1 DEF RebuiltWhole
    <2>1. CASE b \in processed[q]
      BY <2>1 DEF Inv, RebuiltWhole
    <2>2. CASE b \notin processed[q]
      <3>1. q = p /\ ready /\ p \in bytes[0].relay /\ b = [k \in DOMAIN bytes |-> bytes[k].of]
        BY <1>1, <2>2 DEF Inv, Types
      <3>2. b = [k \in 0 .. Chunks[c] - 1 |-> c]
        BY <1>4, <3>1 DEF WholeBytes, Part, Numbers
      <3> QED BY <1>5, <3>1, <3>2
    <2> QED BY <2>1, <2>2
  <1> QED BY <1>7, <1>9, <1>10, <1>11 DEF Inv

LEMMA NextInv == SeparateIds /\ Inv /\ [Next]_vars => Inv'
  <1> SUFFICES ASSUME SeparateIds, Inv, [Next]_vars PROVE Inv'
    OBVIOUS
  <1>1. CASE UNCHANGED vars
    BY <1>1 DEF vars, Inv, Types, QueuesInv, WiresInv, NodesInv, RebuiltWhole
  <1>2. CASE Next
    BY <1>2, SubmitInv, ReceiveInv DEF Next
  <1> QED BY <1>1, <1>2

-----------------------------------------------------------------------------
\* Every wrapper under way and every incomplete node is of one command that
\* goes there, whatever arrives late, twice or over two routes.
THEOREM ChunksOfOneCommand == ASSUME SeparateIds PROVE Spec => []Inv
BY InitInv, NextInv, PTL DEF Spec

\* Whatever a player with separate IDs processes is a whole command for him that
\* somebody issued, each of its parts in its place.
THEOREM CommandsAreRebuiltWhole == ASSUME SeparateIds PROVE Spec => []RebuiltWhole
  <1>1. Inv => RebuiltWhole
    BY DEF Inv
  <1> QED BY <1>1, ChunksOfOneCommand, PTL

\* A chunk that copyChunkData leaves out for being present is the one present.
THEOREM PresentChunksAreTheSame == ASSUME SeparateIds PROVE Spec => []PresentIsThisChunk
  <1>1. SeparateIds /\ Inv => PresentIsThisChunk
    <2> SUFFICES ASSUME SeparateIds, Inv, NEW p \in Player, NEW m \in wire[p],
                        m.chunk.number \in DOMAIN NodeFor(p, m.chunk),
                        NodeFor(p, m.chunk)[m.chunk.number] # NoData
                 PROVE  NodeFor(p, m.chunk)[m.chunk.number].of = m.chunk.data.of
      BY DEF PresentIsThisChunk
    <2>1. PICK c \in submitted : p \in Receivers(c) /\ m \in WrappersOf(c)
      BY DEF Inv, WiresInv
    <2>2. NodeFor(p, m.chunk) \in BytesSoFar(c)
      BY <2>1, NodeIsThisCommand
    <2> QED BY <2>1, <2>2 DEF BytesSoFar, WrappersOf, ChunksOf, Part
  <1> QED BY <1>1, ChunksOfOneCommand, PTL

=============================================================================
