----------------------------- MODULE Disconnection -----------------------------
(***************************************************************************)
(* How players who wait for somebody get rid of him (DisconnectManager.cpp   *)
(* and what it calls of ConnectionManager.cpp).  Whoever has been stuck on a *)
(* frame shows the disconnect screen and tells the others his frame; who is  *)
(* ahead sends those behind the frames they lack.  When all who are left are *)
(* on one frame, the player who will be packet router removes those who have *)
(* timed out or been voted out and tells the others to do so.                *)
(*                                                                          *)
(* Only the commands of the Troubled players come late or never; everybody   *)
(* else's count as received when announced.  A wire keeps what was ever put  *)
(* on it, which may arrive late, repeatedly and out of order.                *)
(***************************************************************************)
EXTENDS Integers, FiniteSets, FiniteSetsExt

CONSTANTS
  Player,          \* the slots, numbers
  Troubled,        \* bound: whose commands may come late
  Crashers,        \* bound: who may crash
  Votable,         \* bound: who may be voted against
  Prompt,          \* TRUE if nobody is kept waiting but for one who has crashed
  RunAhead,
  FRAMES_TO_KEEP,
  Word,            \* 2^32, the modulus of UnsignedInt
  MaxFrame         \* bound: the last frame run

ASSUME DisconnectionAssumption ==
  /\ Player \subseteq Nat /\ IsFiniteSet(Player)
  /\ Troubled \subseteq Player /\ Crashers \subseteq Troubled /\ Votable \subseteq Player
  /\ Prompt \in BOOLEAN
  /\ RunAhead \in Nat \ {0} /\ MaxFrame \in Nat /\ Word \in Nat \ {0}
  /\ RunAhead < FRAMES_TO_KEEP

VARIABLES
  frame,       \* frame[p]: TheGameLogic->getFrame()
  crashed,     \* the players who have crashed
  removedAt,   \* removedAt[p][q]: the frame at which p removed q, 0 if he has not
  upto,        \* upto[p][q]: the last frame p has all of q's commands to
  screen,      \* screen[p]: m_disconnectState is not SCREENOFF
  notified,    \* notified[p]: m_haveNotifiedOtherPlayersOfCurrentFrame
  timedOut,    \* timedOut[p]: those for whom hasPlayerTimedOut
  dframe,      \* dframe[p][q]: m_disconnectFrames
  received,    \* received[p][q]: m_disconnectFramesReceived
  votes,       \* votes[p][x][v]: the frame of v's vote against x, 0 if FALSE
  wire         \* wire[p]: all that was ever sent to p

screenVars == <<screen, notified, timedOut, dframe, received, votes>>
vars == <<frame, crashed, removedAt, upto, screenVars, wire>>

Frames == 1 .. MaxFrame + 1
In(p)  == p \notin crashed
Connected(p, q) == removedAt[p][q] = 0
Others(p) == {q \in Player \ {p} : Connected(p, q)}

Messages ==
  [type : {"frame", "off", "vote", "player", "data"},
   from : Player, by : Player, slot : Player, frame : Frames]

TypeOK ==
  /\ frame \in [Player -> Frames]
  /\ crashed \subseteq Crashers
  /\ removedAt \in [Player -> [Player -> 0 .. MaxFrame + 1]]
  /\ upto \in [Player -> [Troubled -> 0 .. MaxFrame + RunAhead]]
  /\ screen \in [Player -> BOOLEAN]
  /\ notified \in [Player -> BOOLEAN]
  /\ timedOut \in [Player -> SUBSET Player]
  /\ dframe \in [Player -> [Player -> 0 .. MaxFrame + 1]]
  /\ received \in [Player -> [Player -> BOOLEAN]]
  /\ votes \in [Player -> [Player -> [Player -> 0 .. MaxFrame + 1]]]
  /\ wire \in [Player -> SUBSET Messages]

Init ==
  /\ frame     = [p \in Player |-> 1]
  /\ crashed   = {}
  /\ removedAt = [p \in Player |-> [q \in Player |-> 0]]
  /\ upto      = [p \in Player |-> [q \in Troubled |-> RunAhead - 1]]
  /\ screen    = [p \in Player |-> FALSE]
  /\ notified  = [p \in Player |-> FALSE]
  /\ timedOut  = [p \in Player |-> {}]
  /\ dframe    = [p \in Player |-> [q \in Player |-> 0]]
  /\ received  = [p \in Player |-> [q \in Player |-> FALSE]]
  /\ votes     = [p \in Player |-> [x \in Player |-> [v \in Player |-> 0]]]
  /\ wire      = [p \in Player |-> {}]

-----------------------------------------------------------------------------
\* Votes count at the local frame only.
VotesFor(p, x) == {v \in Player : votes[p][x][v] = frame[p]}
NumPlayers(p)  == Cardinality(Others(p)) + 1
VotedOut(p, x) == x # p /\ Cardinality(VotesFor(p, x)) >= NumPlayers(p) - 1
InGame(p, q)   == Connected(p, q) /\ ~ VotedOut(p, q) /\ q \notin timedOut[p]

\* resetPlayersVotes.
WithoutVotes(p, v, f) ==
  [x \in Player |-> IF votes[p][x][v] <= f THEN [votes[p][x] EXCEPT ![v] = 0] ELSE votes[p][x]]

SentByAll(p, ms) == [q \in Player |-> IF q \in Others(p) THEN wire[q] \cup ms ELSE wire[q]]
Note(type, p, slot, f) == [type |-> type, from |-> p, by |-> p, slot |-> slot, frame |-> f]

OneMore(q, p) ==   \* mutant: the frame after as well
  (IF Connected(q, p) THEN frame[q] ELSE removedAt[q][p]) + RunAhead
\* The last frame q has counted his commands for and sent p the count.
Announced(q, p) ==
  (IF Connected(q, p) THEN frame[q] ELSE removedAt[q][p]) + RunAhead - 1

UpTo(p, q) == IF q \in Troubled THEN upto[p][q] ELSE Announced(q, p)

\* ConnectionManager::allCommandsReady.
Ready(p) == \A q \in Others(p) : frame[p] <= UpTo(p, q)

\* Network::update looks for a frame that is ready after every update of the
\* DisconnectManager, and runs it when it has been stuck: who shows the screen
\* or changes anything there is not ready.
Stuck(p) == In(p) /\ ~ Ready(p)

-----------------------------------------------------------------------------
\* processNetCommand drops what is from somebody who has been removed.
Accepted(p, m) == m \in wire[p] /\ In(p) /\ m.from \in Others(p)

\* m changes something at p: it is not older than what p knows.
Pending(p, m) ==
  /\ Accepted(p, m)
  /\ \/ m.type = "data" /\ m.frame = upto[p][m.from] + 1
     \/ m.type = "frame" /\ dframe[p][m.from] < m.frame
     \/ m.type = "off" /\ dframe[p][m.from] <= m.frame
     \/ m.type = "vote" /\ InGame(p, m.from)
     \/ m.type = "player" /\ m.slot \in Others(p)

\* Commands of x, in his own packets or the router's.
Arrive(p, x) ==
  /\ x \in Troubled /\ x \in Others(p) /\ In(p)
  /\ Prompt => In(x)
  /\ upto[p][x] < Announced(x, p)
  /\ upto' = [upto EXCEPT ![p][x] = @ + 1]
  /\ UNCHANGED <<frame, crashed, removedAt, screenVars, wire>>

KnownOff(p, m) == m.type = "off" /\ dframe[p][m.from] = m.frame /\ ~ received[p][m.from]

\* Who can run a frame has done so, and what has been sent has arrived, in less
\* time than it takes for a screen to show (m_networkDisconnectTime).
Quiet(p) ==
  \A q \in ({p} \cup Others(p)) \ crashed :
    /\ frame[q] > MaxFrame \/ ~ Ready(q)
    /\ \A x \in Troubled \cap (Others(q) \ crashed) : upto[q][x] = Announced(x, q)
    /\ \A m \in wire[q] : In(m.by) /\ m.type # "vote" => ~ Pending(q, m) \/ KnownOff(q, m)

TurnOnScreen(p) ==
  /\ Stuck(p) /\ ~ screen[p]
  /\ Prompt => Quiet(p)
  /\ screen' = [screen EXCEPT ![p] = TRUE]
  /\ notified' = [notified EXCEPT ![p] = FALSE]
  /\ timedOut' = [timedOut EXCEPT ![p] = {}]
  /\ UNCHANGED <<frame, crashed, removedAt, upto, dframe, received, votes, wire>>

\* sendSingleFrameToPlayer: the subtraction is unsigned.
TooOld(s, f) == (frame[s] - FRAMES_TO_KEEP) % Word > f

FromTheNext(s, t, start) ==   \* mutant: the frame t is stuck on is left out
  {[type |-> "data", from |-> x, by |-> s, slot |-> x, frame |-> f] :
     x \in {q \in Troubled \ {t} : Connected(s, q)},
     f \in {g \in Frames : start < g /\ g < frame[s] /\ ~ TooOld(s, g)}}
\* sendFrameDataToPlayer.
FrameDataFor(s, t, start) ==
  {[type |-> "data", from |-> x, by |-> s, slot |-> x, frame |-> f] :
     x \in {q \in Troubled \ {t} : Connected(s, q)},
     f \in {g \in Frames : start <= g /\ g < frame[s] /\ ~ TooOld(s, g)}}

\* updateDisconnectStatus: notifyOthersOfCurrentFrame, which sends those behind
\* their frames.
Behind(p) == {q \in Others(p) : InGame(p, q) /\ received[p][q] /\ dframe[p][q] < frame[p]}

Notify(p) ==
  LET f    == frame[p]
      news == SentByAll(p, {Note("frame", p, p, f)})
  IN  /\ Stuck(p) /\ screen[p] /\ ~ notified[p] /\ Others(p) # {}
      /\ notified' = [notified EXCEPT ![p] = TRUE]
      /\ IF dframe[p][p] >= f
           THEN wire' = news /\ UNCHANGED <<dframe, received, votes>>
           ELSE /\ dframe' = [dframe EXCEPT ![p][p] = f]
                /\ received' = [received EXCEPT ![p][p] = TRUE]
                /\ votes' = [votes EXCEPT ![p] = WithoutVotes(p, p, f - 1)]
                /\ wire' = [q \in Player |->
                              IF q \in Behind(p) THEN news[q] \cup FrameDataFor(p, q, dframe[p][q])
                              ELSE news[q]]
      /\ UNCHANGED <<frame, crashed, removedAt, upto, screen, timedOut>>

\* Nobody has heard from x for m_networkPlayerTimeoutTime.
TimeOut(p, x) ==
  /\ Stuck(p) /\ screen[p] /\ x \in Others(p) \ timedOut[p]
  /\ x \in crashed \/ ~ Connected(x, p)
  /\ timedOut' = [timedOut EXCEPT ![p] = @ \cup {x}]
  /\ UNCHANGED <<frame, crashed, removedAt, upto, screen, notified, dframe, received, votes, wire>>

\* voteForPlayerDisconnect, on the disconnect screen.
VoteFor(p, x) ==
  /\ In(p) /\ screen[p] /\ x \in Others(p) \cap Votable
  /\ votes[p][x][p] = 0
  /\ votes' = [votes EXCEPT ![p][x][p] = frame[p]]
  /\ wire' = SentByAll(p, {Note("vote", p, x, frame[p])})
  /\ UNCHANGED <<frame, crashed, removedAt, upto, screen, notified, timedOut, dframe, received>>

-----------------------------------------------------------------------------
Out(p) == {x \in Others(p) : ~ InGame(p, x)}

AnyFrame(p) == TRUE   \* mutant: whatever frames the others are on
AllOnSameFrame(p) ==
  \A q \in Others(p) \ Out(p) : received[p][q] /\ dframe[p][q] = dframe[p][p]

\* isLocalPlayerNextPacketRouter: the fallback plan holds the slots in order
\* (PacketRouter.RouterInPlan).
AnyoneRoutes(p) == TRUE   \* mutant: whoever gets there first
IsNextRouter(p) == \A q \in Others(p) \ Out(p) : p < q

\* updateDisconnectStatus: sendDisconnectCommand and disconnectPlayer.  That
\* fewer votes are enough once somebody is removed shows in the next update.
Disconnect(p) ==
  /\ Stuck(p) /\ screen[p] /\ notified[p] /\ Out(p) # {}
  /\ AllOnSameFrame(p) /\ IsNextRouter(p)
  /\ removedAt' = [removedAt EXCEPT ![p] =
                     [q \in Player |-> IF q \in Out(p) THEN frame[p] ELSE @[q]]]
  /\ wire' = SentByAll(p, {Note("player", p, x, Max({dframe[p][q] : q \in Player})) : x \in Out(p)})
  /\ UNCHANGED <<frame, crashed, upto, screenVars>>

\* A frame is run; the screen goes off (allCommandsReady, notifyOthersOfNewFrame)
\* and the DisconnectManager's nextFrame starts the time-outs again.
ScreenOff(p) ==
  LET f == frame[p]
  IN  IF ~ screen[p] THEN UNCHANGED <<dframe, received, votes, wire>>
      ELSE /\ dframe' = [dframe EXCEPT ![p][p] = f]
           /\ received' = [received EXCEPT ![p][p] = FALSE]
           /\ votes' = [votes EXCEPT ![p] = [x \in Player |-> [@[x] EXCEPT ![p] = 0]]]
           /\ wire' = SentByAll(p, {Note("off", p, p, f)})

ExecuteFrame(p) ==
  /\ In(p) /\ frame[p] <= MaxFrame /\ Ready(p)
  /\ frame' = [frame EXCEPT ![p] = @ + 1]
  /\ ScreenOff(p)
  /\ screen' = [screen EXCEPT ![p] = FALSE]
  /\ timedOut' = [timedOut EXCEPT ![p] = {}]
  /\ UNCHANGED <<crashed, removedAt, upto, notified>>

-----------------------------------------------------------------------------
ReceiveData(p, m) ==
  /\ m.type = "data" /\ Pending(p, m)
  /\ upto' = [upto EXCEPT ![p][m.from] = m.frame]
  /\ UNCHANGED <<frame, crashed, removedAt, screenVars, wire>>

\* processDisconnectFrame.
ReceiveFrame(p, m) ==
  LET q == m.from
  IN  /\ m.type = "frame" /\ Pending(p, m)
      /\ votes' = [votes EXCEPT ![p] = WithoutVotes(p, q, m.frame - 1)]
      /\ dframe' = [dframe EXCEPT ![p][q] = m.frame]
      /\ received' = [received EXCEPT ![p][q] = TRUE]
      /\ wire' = IF m.frame < dframe[p][p]
                   THEN [wire EXCEPT ![q] = @ \cup FrameDataFor(p, q, m.frame)] ELSE wire
      /\ UNCHANGED <<frame, crashed, removedAt, upto, screen, notified, timedOut>>

\* processDisconnectScreenOff.
ReceiveScreenOff(p, m) ==
  LET q == m.from
  IN  /\ m.type = "off" /\ Pending(p, m)
      /\ votes' = [votes EXCEPT ![p] = WithoutVotes(p, q, m.frame)]
      /\ dframe' = [dframe EXCEPT ![p][q] = m.frame]
      /\ received' = [received EXCEPT ![p][q] = FALSE]
      /\ UNCHANGED <<frame, crashed, removedAt, upto, screen, notified, timedOut, wire>>

\* processDisconnectVote.
ReceiveVote(p, m) ==
  /\ m.type = "vote" /\ Pending(p, m)
  /\ votes' = [votes EXCEPT ![p][m.slot][m.from] = m.frame]
  /\ UNCHANGED <<frame, crashed, removedAt, upto, screen, notified, timedOut, dframe, received, wire>>

\* processDisconnectPlayer; who is told to disconnect himself ignores it.
ReceivePlayer(p, m) ==
  /\ m.type = "player" /\ Pending(p, m)
  /\ removedAt' = [removedAt EXCEPT ![p][m.slot] = frame[p]]
  /\ UNCHANGED <<frame, crashed, upto, screenVars, wire>>

Receive(p, m) ==
  \/ ReceiveData(p, m)
  \/ ReceiveFrame(p, m)
  \/ ReceiveScreenOff(p, m)
  \/ ReceiveVote(p, m)
  \/ ReceivePlayer(p, m)

\* x crashes while there are frames left to wait for him.
Crash(x) ==
  /\ x \in Crashers \ crashed
  /\ frame[x] + RunAhead <= MaxFrame
  /\ crashed' = crashed \cup {x}
  /\ UNCHANGED <<frame, removedAt, upto, screenVars, wire>>

Next ==
  \/ \E p \in Player : TurnOnScreen(p) \/ Notify(p) \/ Disconnect(p) \/ ExecuteFrame(p) \/ Crash(p)
  \/ \E p, x \in Player : Arrive(p, x) \/ TimeOut(p, x) \/ VoteFor(p, x)
  \/ \E p \in Player : \E m \in wire[p] : Receive(p, m)

Spec == Init /\ [][Next]_vars

\* Machines keep updating, and what is sent between players in the game arrives,
\* however often an old vote or screen-off comes again before it.
\* A message that was taken and changes nothing any more is not enabled.
ReceiveSome(p, types) ==
  \E m \in wire[p] : m.type \in types /\ In(m.by) /\ Connected(m.by, p) /\ Receive(p, m)

Fairness ==
  \A p \in Player :
    /\ WF_vars(TurnOnScreen(p)) /\ WF_vars(Notify(p)) /\ WF_vars(Disconnect(p))
    /\ WF_vars(ExecuteFrame(p))
    /\ \A types \in {{"vote"}, {"off"}, {"data", "frame", "player"}} : WF_vars(ReceiveSome(p, types))
    /\ \A x \in Player : WF_vars(TimeOut(p, x)) /\ WF_vars(In(x) /\ Arrive(p, x))

FairSpec == Spec /\ Fairness

-----------------------------------------------------------------------------
Together(p, q) == In(p) /\ In(q) /\ Connected(p, q) /\ Connected(q, p)

\* Players who play on together remove a player at one frame: who has not removed
\* him yet has not run it.  Else one would run a frame with his commands that
\* the other ran without them.
RemovedTogether ==
  \A p, q, x \in Player :
    Together(p, q) /\ removedAt[p][x] # 0 /\ q # x =>
      IF removedAt[q][x] = 0 THEN frame[q] <= removedAt[p][x]
      ELSE removedAt[q][x] = removedAt[p][x]

\* One player removes another and has him destroyed (sendPlayerDestruct); the
\* others are told.
Removers(x) ==
  {p \in Player \ crashed :
     \E q \in Player : \E m \in wire[q] : m.type = "player" /\ m.slot = x /\ m.by = p}
RemovedByOne == \A x \in Player : Cardinality(Removers(x)) <= 1

\* Whoever crashes, the others get through all frames.
Recovers == \A p \in Player : <>(frame[p] = MaxFrame + 1 \/ ~ In(p))

\* "We now have to keep around the last 'run ahead' frames so we can potentially
\* send those commands to the other players in the game so they can catch up"
\* (getFrameCommandList): who plays with somebody ahead of him has what he lacks
\* from him, or is being told to go on without it.
BehindCatchUp ==
  \A p, q \in Player : Together(p, q) /\ frame[q] < frame[p] =>
    \A x \in Others(q) :
      \/ frame[q] <= UpTo(q, x)
      \/ Connected(p, x)
      \/ \E m \in wire[q] : m.type = "player" /\ m.slot = x /\ In(m.by) /\ Pending(q, m)

\* "Disconnecting player on the wrong frame!!!" (the assertion of
\* processDisconnectPlayer): who is told to remove a player is on the frame it
\* is for.
RightFrame ==
  \A p \in Player : \A m \in wire[p] :
    m.type = "player" /\ Pending(p, m) => frame[p] = m.frame

\* "We need to reset this player's votes that happened before or on the given
\* frame" (resetPlayersVotes): no vote is kept of a player who is known to have
\* gone on from the frame he cast it on.
NoStaleVotes ==
  \A p, x, v \in Player :
    v # p /\ ~ received[p][v] /\ votes[p][x][v] # 0 => votes[p][x][v] > dframe[p][v]

=============================================================================
