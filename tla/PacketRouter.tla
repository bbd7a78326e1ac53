------------------------------ MODULE PacketRouter ------------------------------
(***************************************************************************)
(* How commands get to everybody through the packet router, and what        *)
(* happens to those under way when the router leaves the game or crashes    *)
(* (ConnectionManager.cpp).  A player sends his commands to the router, who *)
(* relays them and acknowledges in two stages: "I have it" and "all have    *)
(* it".  Until stage 2 a command is pending: when another player becomes    *)
(* router, its owner sends it again through him.                            *)
(*                                                                          *)
(* A few commands are followed, every one with the frame it is for; the     *)
(* other frames' counts only keep players within RunAhead frames.  A wire   *)
(* keeps what was ever put on it: what it holds may arrive late, repeatedly *)
(* and out of order.  An ack is taken at once or lost: what a late one says *)
(* the next copy of its command has said again.                             *)
(***************************************************************************)
EXTENDS Integers, Sequences, SequencesExt

CONSTANTS
  Plan,        \* the players' slots, numbers, in order
  Command,     \* the commands followed
  Owner,       \* Owner[c]: the player who issues c
  Frame,       \* Frame[c]: its execution frame
  Leaving,     \* the commands that are PLAYERLEAVEs of their owners
  Crashers,    \* bound: the players who may crash
  RunAhead,
  MaxFrame     \* bound: the last frame run

Player == Range(Plan)

ASSUME PacketRouterAssumption ==
  /\ Plan \in Seq(Nat) /\ Plan # <<>> /\ Plan[1] = 0
  /\ \A i, j \in DOMAIN Plan : i < j => Plan[i] < Plan[j]
  /\ Owner \in [Command -> Player] /\ Leaving \subseteq Command /\ Crashers \subseteq Player
  /\ RunAhead \in Nat \ {0} /\ MaxFrame \in Nat
  /\ Frame \in [Command -> RunAhead + 1 .. MaxFrame]
  /\ \A c, d \in Leaving : Frame[c] = Frame[d] => c = d   \* bound: one leaves at a frame

VARIABLES
  frame,      \* frame[p]: TheGameLogic->getFrame()
  status,     \* status[p]: playing, has left or crashed
  has,        \* has[p]: the commands in p's frame data
  fallback,   \* fallback[p]: m_packetRouterFallback, up to the first -1
  router,     \* router[p]: m_packetRouterSlot
  conn,       \* conn[p][q]: p's connection to q
  queue,      \* queue[p][q]: what it keeps sending
  pending,    \* pending[p]: m_pendingCommands
  relayed,    \* relayed[p]: m_relayedCommands, with whose acks are missing
  wire,       \* wire[q]: all that was ever sent to q
  issued      \* history: the commands issued so far

links == <<conn, queue, pending, relayed, wire>>
vars  == <<frame, status, has, fallback, router, links, issued>>

NoRouter == -1
In(p)      == status[p] = "playing"
Exists(p, q)  == conn[p][q] # "none"
IsOpen(p, q)  == conn[p][q] = "open"
OpenTo(p)  == {q \in Player : IsOpen(p, q)}
Gone(p)    == {q \in Player : q \notin Range(fallback[p])}

TypeOK ==
  /\ frame \in [Player -> 1 .. MaxFrame + 1]
  /\ status \in [Player -> {"playing", "left", "crashed"}]
  /\ has \in [Player -> SUBSET Command]
  /\ router \in [Player -> Player \cup {NoRouter}]
  /\ conn \in [Player -> [Player -> {"open", "quitting", "none"}]]
  /\ pending \in [Player -> SUBSET Command]
  /\ \A p \in Player :
       /\ IsInjective(fallback[p]) /\ Range(fallback[p]) \subseteq Player
       /\ \A q \in Player : queue[p][q] \subseteq wire[q]
       /\ DOMAIN relayed[p] \subseteq Command
       /\ \A c \in DOMAIN relayed[p] : relayed[p][c] \in (SUBSET Player) \ {{}}

\* parseUserList: the fallback plan is in slot order, the first slot routes.
Init ==
  /\ frame    = [p \in Player |-> 1]
  /\ status   = [p \in Player |-> "playing"]
  /\ has      = [p \in Player |-> {}]
  /\ fallback = [p \in Player |-> Plan]
  /\ router   = [p \in Player |-> 0]
  /\ conn     = [p \in Player |-> [q \in Player |-> IF p = q THEN "none" ELSE "open"]]
  /\ queue    = [p \in Player |-> [q \in Player |-> {}]]
  /\ pending  = [p \in Player |-> {}]
  /\ relayed  = [p \in Player |-> [c \in {} |-> {}]]
  /\ wire     = [q \in Player |-> {}]
  /\ issued   = {}

-----------------------------------------------------------------------------
\* What p's connections are given when he sends his commands cs to the players
\* other than himself: through the router unless there is no connection to him.
ThroughRouter(p, r) == r \in Player /\ Exists(p, r)
Sent(p, r, cs) ==
  LET others == Player \ {p}
  IN  [q \in Player |->
         IF ThroughRouter(p, r) THEN IF q = r THEN [command : cs, relay : {others}] ELSE {}
         ELSE IF q \in others THEN [command : cs, relay : {{q}}] ELSE {}]

\* Connection::sendNetCommandMsg takes nothing on a quitting connection.
Queued(conns, queues, sent) ==
  [q \in Player |-> IF conns[q] = "open" THEN queues[q] \cup sent[q] ELSE queues[q]]
OnWire(conns, sent) ==
  [q \in Player |-> IF conns[q] = "open" THEN wire[q] \cup sent[q] ELSE wire[q]]

\* getExecutionFrame, and the frame behind it for a PLAYERLEAVE.
ExecutionFrame(p, c) == frame[p] + RunAhead + (IF c \in Leaving THEN 1 ELSE 0)

\* sendLocalCommand.
Issue(c) ==
  LET p    == Owner[c]
      sent == Sent(p, router[p], {c})
  IN  /\ In(p) /\ c \notin issued
      /\ Frame[c] = ExecutionFrame(p, c)
      /\ issued' = issued \cup {c}
      /\ has' = [has EXCEPT ![p] = @ \cup {c}]
      /\ queue' = [queue EXCEPT ![p] = Queued(conn[p], @, sent)]
      /\ wire' = OnWire(conn[p], sent)
      /\ pending' = [pending EXCEPT ![p] = IF ThroughRouter(p, router[p]) THEN @ \cup {c} ELSE @]
      /\ UNCHANGED <<frame, status, fallback, router, conn, relayed>>

-----------------------------------------------------------------------------
\* ackCommand: to whom p acknowledges c, and whether it is for both stages, as
\* he relays c to nobody.
AckTo(p, c) == IF router[p] = p THEN Owner[c] ELSE router[p]

IsBoth(p, m) == OpenTo(p) \cap m.relay = {}

\* processAckStage1: t takes c off his queue to p.
OffQueue(t, p, c, queues) ==
  IF Exists(t, p) THEN [queues EXCEPT ![t][p] = {m \in @ : m.command # c}] ELSE queues

\* processAckStage2: c is pending no more, and p is off the mask of a relayed c,
\* which goes with the last one.
Settled(t, c)     == pending[t] \ {c}
StillToAck(t, p, c) == IF c \in DOMAIN relayed[t] THEN relayed[t][c] \ {p} ELSE {}
Cleared(t, p, c) ==
  IF StillToAck(t, p, c) = {}
    THEN [d \in DOMAIN relayed[t] \ {c} |-> relayed[t][d]]
    ELSE [relayed[t] EXCEPT ![c] = @ \ {p}]

\* The ACKSTAGE2 that t sends the owner then: direct, or through his own router.
SendsStageTwo(t, p, c) == c \in DOMAIN relayed[t] /\ relayed[t][c] = {p}
ArrivesFrom(t, o) ==
  IF ThroughRouter(t, router[t])
    THEN IsOpen(t, router[t]) /\ (router[t] = o \/ IsOpen(router[t], o))
    ELSE IsOpen(t, o)

\* The ack of this copy may be lost, and so may be the relayer's to the owner.
AckArrives(p, t)  == t \in Player /\ IsOpen(p, t) /\ status[t] # "crashed"
StageTwo(p, t, m) ==
  IsBoth(p, m) /\ SendsStageTwo(t, p, m.command) /\ ArrivesFrom(t, Owner[m.command])

NoAck(queues) == queue' = queues /\ UNCHANGED pending

AckTaken(p, t, m, queues) ==
  LET c == m.command
  IN  /\ queue' = OffQueue(t, p, c, queues)
      /\ \E alsoOwner \in IF StageTwo(p, t, m) THEN BOOLEAN ELSE {FALSE} :
           pending' = [q \in Player |->
                         IF IsBoth(p, m) /\ (q = t \/ (alsoOwner /\ q = Owner[c]))
                           THEN Settled(q, c) ELSE pending[q]]

\* doRelay: acknowledge, drop what is from nobody or out of date, store and
\* relay the rest.
OutOfDate(p, c) == Frame[c] < frame[p]
Accepted(p, c)  == (Exists(p, Owner[c]) \/ p = Owner[c]) /\ ~ OutOfDate(p, c)

ActualRelay(p, m) == IF Accepted(p, m.command) THEN OpenTo(p) \cap m.relay ELSE {}

AddedAlways(p, c, relay) ==   \* mutant: although it was relayed to nobody
  [d \in DOMAIN relayed[p] \cup {c} |-> IF d = c THEN relay ELSE relayed[p][d]]
\* m_relayedCommands of p with c added, unless it is there.
AddedTo(p, c, relay) ==
  IF relay = {} \/ c \in DOMAIN relayed[p] THEN relayed[p]
  ELSE [d \in DOMAIN relayed[p] \cup {c} |-> IF d = c THEN relay ELSE relayed[p][d]]

Receive(p, m, acked) ==
  LET c    == m.command
      t    == AckTo(p, c)
      to   == ActualRelay(p, m)
      sent == [q \in Player |-> IF q \in to THEN {[command |-> c, relay |-> {q}]} ELSE {}]
      queues == [queue EXCEPT ![p] = Queued(conn[p], @, sent)]
  IN  /\ m \in wire[p] /\ status[p] # "crashed"
      /\ IF acked THEN AckArrives(p, t) /\ AckTaken(p, t, m, queues) ELSE NoAck(queues)
      /\ wire' = OnWire(conn[p], sent)
      /\ has' = IF Accepted(p, c) /\ p \in m.relay
                  THEN [has EXCEPT ![p] = @ \cup {c}] ELSE has
      /\ relayed' = [q \in Player |->
                       CASE q = p -> AddedTo(p, c, to)
                         [] q = t /\ acked /\ IsBoth(p, m) -> Cleared(t, p, c)
                         [] OTHER -> relayed[q]]
      /\ UNCHANGED <<frame, status, fallback, router, conn, issued>>

-----------------------------------------------------------------------------
\* disconnectPlayer: the router after x is the one behind him in the plan.
FirstOfPlan(p, x) == fallback[p][1]   \* mutant: while x is in the plan still
Place(p, x) == CHOOSE j \in DOMAIN fallback[p] : fallback[p][j] = x
NextRouter(p, x) ==
  LET i == Place(p, x) + 1
  IN  IF i \in DOMAIN fallback[p] THEN fallback[p][i] ELSE NoRouter

RouterWithout(p, x)   == IF router[p] = x THEN NextRouter(p, x) ELSE router[p]
FallbackWithout(p, x) == RemoveAt(fallback[p], Place(p, x))

\* resendPendingCommands, if x was the router.
NothingResent(p, x) == {}   \* mutant
Resent(p, x)        == IF router[p] = x THEN pending[p] ELSE {}

\* p no longer plays with x: his connection to x becomes state, with what is
\* kept of its queue.
Drop(p, x, state, kept) ==
  LET conns  == [conn[p] EXCEPT ![x] = IF @ = "none" THEN @ ELSE state]
      queues == [queue[p] EXCEPT ![x] = kept]
      sent   == Sent(p, RouterWithout(p, x), Resent(p, x))
  IN  /\ conn' = [conn EXCEPT ![p] = conns]
      /\ queue' = [queue EXCEPT ![p] = Queued(conns, queues, sent)]
      /\ wire' = OnWire(conns, sent)
      /\ router' = [router EXCEPT ![p] = RouterWithout(p, x)]
      /\ fallback' = [fallback EXCEPT ![p] = FallbackWithout(p, x)]

NothingOf(p, ms) == {}   \* mutant: his own commands are cleared too
OwnOf(p, ms)     == {m \in ms : Owner[m.command] = p}

\* processPlayerLeave for the player himself: he gives up what he relays.
LeaveGame(p) ==
  /\ status' = [status EXCEPT ![p] = "left"]
  /\ conn' = [conn EXCEPT ![p] = [q \in Player |-> IF @[q] = "open" THEN "quitting" ELSE @[q]]]
  /\ queue' = [queue EXCEPT ![p] = [q \in Player |-> OwnOf(p, @[q])]]
  /\ router' = [router EXCEPT ![p] = RouterWithout(p, p)]
  /\ fallback' = [fallback EXCEPT ![p] = FallbackWithout(p, p)]
  /\ UNCHANGED wire

\* q has announced how many commands he has for frame f: processCommand does so
\* for the frames up to the next execution frame, and when he leaves up to that
\* of his PLAYERLEAVE.
Counted(q, f) ==
  \/ f < frame[q] + RunAhead
  \/ \E c \in Leaving \cap issued : Owner[c] = q /\ f <= Frame[c]

\* Those who are in the game for p have counted frame f and p has their commands.
Ready(p, f) ==
  /\ \A q \in Player \ Gone(p) : Counted(q, f)
  /\ \A c \in Command : Frame[c] = f /\ Owner[c] \notin Gone(p) => c \in has[p]

Ticked(p) == \A c \in Command : Owner[c] = p /\ Frame[c] <= ExecutionFrame(p, c) => c \in issued

\* The player, if any, whose PLAYERLEAVE is for f.
Leavers(p, f) == {Owner[c] : c \in {d \in Leaving : Frame[d] = f /\ Owner[d] \notin Gone(p)}}

ExecuteFrame(p) ==
  LET f == frame[p]
  IN  /\ In(p) /\ f <= MaxFrame
      /\ Ticked(p) /\ Ready(p, f)
      /\ frame' = [frame EXCEPT ![p] = f + 1]
      /\ \/ Leavers(p, f) = {} /\ UNCHANGED <<status, conn, queue, wire, router, fallback>>
         \/ p \in Leavers(p, f) /\ LeaveGame(p)
         \/ \E x \in Leavers(p, f) \ {p} :
              Drop(p, x, "quitting", queue[p][x]) /\ UNCHANGED status
      /\ UNCHANGED <<has, pending, relayed, issued>>

\* ConnectionManager::update.
DeleteConnection(p, q) ==
  /\ conn[p][q] = "quitting" /\ queue[p][q] = {}
  /\ conn' = [conn EXCEPT ![p][q] = "none"]
  /\ UNCHANGED <<frame, status, has, fallback, router, queue, pending, relayed, wire, issued>>

Crash(x) ==
  /\ x \in Crashers /\ In(x)
  /\ status' = [status EXCEPT ![x] = "crashed"]
  /\ UNCHANGED <<frame, has, fallback, router, links, issued>>

\* DisconnectManager::disconnectPlayer of a crashed player, when those who play
\* on have agreed on a frame (allOnSameFrame).
Disconnect(p, x) ==
  /\ In(p) /\ status[x] = "crashed" /\ x \notin Gone(p)
  /\ \A q \in Player : In(q) => frame[q] = frame[p] \/ x \in Gone(q)
  /\ Drop(p, x, "none", {})
  /\ has' = [has EXCEPT ![p] = {c \in @ : Owner[c] # x}]
  /\ UNCHANGED <<frame, status, pending, relayed, issued>>

Next ==
  \/ \E c \in Command : Issue(c)
  \/ \E p \in Player : \E m \in wire[p] : \E acked \in BOOLEAN : Receive(p, m, acked)
  \/ \E p \in Player : ExecuteFrame(p)
  \/ \E p \in Player : \E q \in Player : DeleteConnection(p, q) \/ Disconnect(p, q)
  \/ \E x \in Player : Crash(x)

Spec == Init /\ [][Next]_vars

\* Machines keep updating, and what a connection keeps sending arrives.
SentTo(p) == {m \in [command : Command, relay : SUBSET Player] : p \in m.relay}
Queueing(p, m) == \E q \in Player : m \in queue[q][p]

Fairness ==
  /\ \A c \in Command : WF_vars(Issue(c))
  /\ \A p \in Player : WF_vars(ExecuteFrame(p))
  /\ \A p \in Player : \A m \in SentTo(p) :
       WF_vars(Queueing(p, m) /\ Receive(p, m, AckArrives(p, AckTo(p, m.command))))

FairSpec == Spec /\ Fairness

-----------------------------------------------------------------------------
\* q, whom the owner of c still plays with, needs c and has not got it.
Lacks(q, c) ==
  /\ In(q) /\ In(Owner[c]) /\ q # Owner[c] /\ Owner[c] \notin Gone(q)
  /\ c \in issued /\ c \notin has[q] /\ frame[q] <= Frame[c]

Carries(p, q, c) == \E m \in queue[p][q] : m.command = c

\* Somebody plays on without x.
Dropped(x) == \E p \in Player \ {x} : x \in Gone(p)

\* A command somebody lacks is on its way: its owner sends it to him, or has it
\* pending and sends it to the router, or the router sends it on.  When the
\* router is gone it is pending still, for the owner to send it through the
\* next one (resendPendingCommands).  So for whoever everybody plays with, and with
\* three players throughout; with more, as long as nobody has dropped the first
\* router: later the new router may answer the old one's late copy for both
\* stages, and the command is settled before all have it (the configuration
\* MCPacketRouter_settled).
NothingStranded ==
  \A c \in Command : \A q \in Player :
    Lacks(q, c) /\ ~ Dropped(q) /\ (Len(Plan) <= 3 \/ ~ Dropped(Plan[1])) =>
      LET p == Owner[c]
          r == router[p]
      IN  \/ Carries(p, q, c)
          \/ /\ c \in pending[p]
             /\ r \in Player
             /\ ~ In(r) \/ Carries(p, r, c) \/ Carries(r, q, c)

\* The router of a player in the game is the first of his plan, so that the
\* search for the next one (disconnectPlayer) ends inside the plan, and the lowest
\* slot still in the game for him, so that players whom the same others have left
\* route through the same one.
RouterInPlan ==
  \A p \in Player : In(p) =>
    /\ fallback[p] # <<>> /\ router[p] = fallback[p][1]
    /\ \A q \in Range(fallback[p]) : router[p] <= q

\* Everybody gets through all frames, the router's leaving included; when someone
\* crashes that is the business of Disconnection.
Advances ==
  \A p \in Player :
    <>(frame[p] = MaxFrame + 1 \/ status[p] # "playing" \/ \E x \in Player : status[x] = "crashed")

OnItsWay(q, c) ==
  \E r, s \in Player : \E m \in queue[r][s] : m.command = c /\ q \in m.relay

\* "Remove it from the pending commands list so it doesn't get sent in the case
\* of a new packet router." (the comment on processAckStage2): a command that
\* is pending no more needs no further router to get to everybody.
SettledEverywhere ==
  \A c \in issued \ UNION {pending[p] : p \in Player} :
    \A q \in Player : Lacks(q, c) => OnItsWay(q, c)

\* "Don't allow an out of date command to be sent through.  Its unnecessary
\* traffic" (processNetCommand): while its owner has it pending, whoever lacks
\* a command that is dropped gets it from somebody.
OutOfDateIsUnnecessary ==
  \A p \in Player : \A m \in wire[p] :
    LET c == m.command
    IN  In(p) /\ OutOfDate(p, c) /\ c \in pending[Owner[c]] =>
          \A q \in m.relay : Lacks(q, c) => OnItsWay(q, c)

=============================================================================
