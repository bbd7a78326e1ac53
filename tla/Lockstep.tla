------------------------------- MODULE Lockstep -------------------------------
(***************************************************************************)
(* The deterministic lockstep of Network.cpp and ConnectionManager.cpp.     *)
(* Every machine sends each of its commands for a future execution frame,   *)
(* announces with a FRAMEINFO how many commands it issued for a frame, and  *)
(* runs a frame only when the count of every player still in the game is    *)
(* matched by the commands received.  Players send through the packet       *)
(* router, which relays to the others.                                      *)
(*                                                                          *)
(* The connections (Connection.cpp) resend until acknowledged over UDP:     *)
(* here a message stays in flight for ever and may be received any number   *)
(* of times, in any order, or never.                                        *)
(*                                                                          *)
(* Bounds: the frames up to MaxFrame are run and received, MaxCommands[p]   *)
(* commands are issued by p.                                                *)
(* Restrictions: the packet router stays in the game (its failover is       *)
(* another component), and nobody is disconnected.  Without disconnection   *)
(* the RESEND branch of allCommandsReady is dead: NeverResend says so.       *)
(***************************************************************************)
EXTENDS FrameData, Sequences

CONSTANTS
  Player,            \* the occupied slots
  PacketRouter,      \* m_packetRouterSlot
  MIN_RUNAHEAD,      \* the least run ahead updateRunAhead chooses
  InitialRunAhead,   \* m_runAhead after Network::init
  MayLeave,          \* the players who may leave the game
  MaxFrame,
  MaxCommands

ASSUME LockstepAssumption ==
  /\ PacketRouter \in Player
  /\ IsFiniteSet(Player)
  /\ MIN_RUNAHEAD \in Nat \ {0} /\ MIN_RUNAHEAD <= MAX_RUNAHEAD
  /\ InitialRunAhead \in MIN_RUNAHEAD .. MAX_RUNAHEAD
  /\ MayLeave \subseteq Player \ {PacketRouter}
  /\ MaxFrame \in Nat
  /\ MaxCommands \in [Player -> Nat]

VARIABLES
  frame,               \* TheGameLogic->getFrame()
  runAhead,            \* m_runAhead
  lastExecutionFrame,  \* m_lastExecutionFrame
  lastFrameCompleted,  \* m_lastFrameCompleted
  localStatus,         \* m_localStatus, from the moment the game is on
  nextID,              \* commands issued so far
  frameData,           \* frameData[p][q]: p's FrameDataManager for q
  quitFrame,           \* quitFrame[p][q]: its m_quitFrame, 0 while not quitting
  inFlight,            \* inFlight[p]: what was ever sent to p
  issued,              \* history: every command issued
  executed             \* history: executed[p][f], the commands p ran at frame f

networkVars == <<runAhead, lastExecutionFrame, lastFrameCompleted, localStatus>>
vars == <<frame, networkVars, nextID, frameData, quitFrame, inFlight, issued, executed>>

\* The synchronized commands of the game (DESTROYPLAYER belongs to
\* disconnection).  arg is the count of a FRAMEINFO, the run ahead of a RUNAHEAD.
CommandType == {"FRAMEINFO", "GAMECOMMAND", "PLAYERLEAVE", "RUNAHEAD"}

Command ==
  [type : CommandType, player : Player, id : Nat, frame : Nat, arg : Nat]

Message == [cmd : Command, relay : SUBSET Player]

RunAheads == MIN_RUNAHEAD .. MAX_RUNAHEAD

TypeOK ==
  /\ frame              \in [Player -> Nat]
  /\ runAhead           \in [Player -> RunAheads]
  /\ lastExecutionFrame \in [Player -> Nat]
  /\ lastFrameCompleted \in [Player -> Nat]
  /\ localStatus        \in [Player -> {"INGAME", "LEAVING", "LEFT"}]
  /\ nextID             \in [Player -> Nat]
  /\ frameData          \in [Player -> [Player -> FrameRings(Command)]]
  /\ quitFrame          \in [Player -> [Player -> Nat]]
  /\ inFlight           \in [Player -> SUBSET Message]
  /\ issued             \in SUBSET Command
  /\ executed           \in [Player -> Seq(SUBSET Command)]

\* Logic frame 1 of the game: processCommand has just turned PREGAME into
\* INGAME and frame 0 was skipped.
Init ==
  /\ frame              = [p \in Player |-> 1]
  /\ runAhead           = [p \in Player |-> InitialRunAhead]
  /\ lastExecutionFrame = [p \in Player |-> InitialRunAhead - 1]
  /\ lastFrameCompleted = [p \in Player |-> InitialRunAhead - 1]
  /\ localStatus        = [p \in Player |-> "INGAME"]
  /\ nextID             = [p \in Player |-> 0]
  /\ frameData          = [p \in Player |-> [q \in Player |->
                              InitialFrames(p = q, InitialRunAhead)]]
  /\ quitFrame          = [p \in Player |-> [q \in Player |-> 0]]
  /\ inFlight           = [p \in Player |-> {}]
  /\ issued             = {}
  /\ executed           = [p \in Player |-> << >>]

-----------------------------------------------------------------------------
ForgetfulExecutionFrame(p) == frame[p] + runAhead[p]   \* mutant: it goes back

\* Network::getExecutionFrame: it never goes back when the run ahead shrinks.
ExecutionFrame(p) ==
  IF frame[p] + runAhead[p] > lastExecutionFrame[p]
    THEN frame[p] + runAhead[p]
    ELSE lastExecutionFrame[p]

\* p's connection to q exists and is not quitting.
Connected(p, q) == q # p /\ quitFrame[p][q] = 0

\* ConnectionManager::update deletes a quitting player's manager at his quit
\* frame, before that frame is run.
HasFrameData(p, q) == quitFrame[p][q] = 0 \/ frame[p] < quitFrame[p][q]

\* What ConnectionManager::sendLocalCommand puts on the wire to q when p sends
\* cs to everyone: the router sends to each connection (sendLocalCommandDirect),
\* the others to the router, asking it to relay to everyone but themselves.
SentTo(q, p, cs) ==
  IF p = PacketRouter
    THEN IF Connected(p, q) THEN [cmd : cs, relay : {{q}}] ELSE {}
    ELSE IF q = PacketRouter THEN [cmd : cs, relay : {Player \ {p}}] ELSE {}

Send(p, cs) == inFlight' = [q \in Player |-> inFlight[q] \cup SentTo(q, p, cs)]

FrameInfo(p, f, n) ==
  [type |-> "FRAMEINFO", player |-> p, id |-> 0, frame |-> f, arg |-> n]

LocalCount(p, f) == frameData[p][p][Slot(f)].commandCount

\* The FRAMEINFOs of processCommand's loop over processFrameTick.
PendingFrameInfos(p) ==
  {FrameInfo(p, f, LocalCount(p, f)) :
     f \in (lastFrameCompleted[p] + 1) .. (ExecutionFrame(p) - 1)}

\* The run aheads updateRunAhead chooses from, by its clamp.
Unclamped     == 0 .. MAX_FRAMES_AHEAD   \* mutant: the clamp is forgotten
NewRunAheads  == RunAheads

\* The frames a leaving player counts on top of those of a tick.
LeaveFrameOnly(p) == {ExecutionFrame(p) + 1}   \* mutant: one tick is enough
LeaveFrames(p)    == {ExecutionFrame(p), ExecutionFrame(p) + 1}

\* p's logic frame has seen processCommand (m_lastFrame is the logic frame).
Ticked(p)      == localStatus[p] = "INGAME" => PendingFrameInfos(p) = {}

\* A synchronized command of p for frame f enters his own frame data and is
\* sent to everyone.
Issue(p, c, alsoSent) ==
  /\ nextID' = [nextID EXCEPT ![p] = @ + 1]
  /\ frameData' = [frameData EXCEPT ![p][p] = addNetCommandMsg(@, c, TRUE)]
  /\ issued' = issued \cup {c}
  /\ Send(p, {c} \cup alsoSent)

-----------------------------------------------------------------------------
\* Network::processCommand on the first message of a new logic frame.
FrameTick(p) ==
  /\ localStatus[p] = "INGAME"
  /\ PendingFrameInfos(p) # {}
  /\ Send(p, PendingFrameInfos(p))
  /\ lastExecutionFrame' = [lastExecutionFrame EXCEPT ![p] = ExecutionFrame(p)]
  /\ lastFrameCompleted' = [lastFrameCompleted EXCEPT ![p] = ExecutionFrame(p) - 1]
  /\ UNCHANGED <<frame, runAhead, localStatus, nextID, frameData, quitFrame,
                 issued, executed>>

\* Network::GetCommandsFromCommandList on a transfer command.
GameCommand(p) ==
  [type |-> "GAMECOMMAND", player |-> p, id |-> nextID[p],
   frame |-> ExecutionFrame(p), arg |-> 0]

SendLocalGameMessage(p) ==
  /\ localStatus[p] = "INGAME"
  /\ nextID[p] < MaxCommands[p]
  /\ Issue(p, GameCommand(p), {})
  /\ lastExecutionFrame' = [lastExecutionFrame EXCEPT ![p] = ExecutionFrame(p)]
  /\ UNCHANGED <<frame, runAhead, lastFrameCompleted, localStatus, quitFrame, executed>>

\* ConnectionManager::updateRunAhead on the packet router.  The two RUNAHEAD
\* messages with one id (they differ in the frame rate, left out here) reach
\* disjoint players who together are everyone.
RunAheadCommand(p, r) ==
  [type |-> "RUNAHEAD", player |-> p, id |-> nextID[p],
   frame |-> IF ExecutionFrame(p) > frame[p] + runAhead[p]
               THEN ExecutionFrame(p) ELSE frame[p] + runAhead[p],
   arg |-> r]

UpdateRunAhead(p) ==
  /\ p = PacketRouter
  /\ localStatus[p] = "INGAME"
  /\ nextID[p] < MaxCommands[p]
  /\ Ticked(p)
  /\ \E r \in NewRunAheads : Issue(p, RunAheadCommand(p, r), {})
  /\ lastExecutionFrame' = [lastExecutionFrame EXCEPT ![p] = ExecutionFrame(p)]
  /\ UNCHANGED <<frame, runAhead, lastFrameCompleted, localStatus, quitFrame, executed>>

\* Network::processCommand on MSG_CLEAR_GAME_DATA: p leaves on the frame after
\* his execution frame, and counts both frames, after the frames of a tick.
PlayerLeaveCommand(p) ==
  [type |-> "PLAYERLEAVE", player |-> p, id |-> nextID[p],
   frame |-> ExecutionFrame(p) + 1, arg |-> 0]

LeaveFrameInfos(p) ==
  LET mine == addNetCommandMsg(frameData[p][p], PlayerLeaveCommand(p), TRUE)
  IN  {FrameInfo(p, f, mine[Slot(f)].commandCount) : f \in LeaveFrames(p)}

ClearGameData(p) ==
  /\ localStatus[p] = "INGAME"
  /\ p \in MayLeave
  /\ ExecutionFrame(p) + 1 <= MaxFrame
  /\ Issue(p, PlayerLeaveCommand(p), PendingFrameInfos(p) \cup LeaveFrameInfos(p))
  /\ lastExecutionFrame' = [lastExecutionFrame EXCEPT ![p] = ExecutionFrame(p)]
  /\ lastFrameCompleted' = [lastFrameCompleted EXCEPT ![p] = ExecutionFrame(p)]
  /\ localStatus' = [localStatus EXCEPT ![p] = "LEAVING"]
  /\ UNCHANGED <<frame, runAhead, quitFrame, executed>>

-----------------------------------------------------------------------------
\* The guard of processNetCommand on synchronized commands.
NeverOutOfDate(p, c) == FALSE   \* mutant: old commands are let through
OutOfDate(p, c)      == c.frame < frame[p]

\* sendRemoteCommand passes m on to those of its relay who are still connected.
NotRelayed(p, m, q) == {}   \* mutant: the packet router forgets to relay
Relayed(p, m, q) ==
  IF q \in m.relay /\ Connected(p, q) THEN {[m EXCEPT !.relay = {q}]} ELSE {}

\* The sender's ring after m: processFrameInfo, or sendRemoteCommand when m is
\* for p too.
Stored(p, m) ==
  LET c == m.cmd
      mine == frameData[p][c.player]
  IN  IF c.type = "FRAMEINFO" THEN setFrameCommandCount(mine, c.frame, c.arg)
      ELSE IF p \in m.relay THEN addNetCommandMsg(mine, c, FALSE)
      ELSE mine

\* ConnectionManager::processNetCommand and sendRemoteCommand on p, for one
\* command of a received packet.  An out of date command is dropped before
\* anything else, relaying included.
Receive(p, m) ==
  LET s == m.cmd.player
  IN  /\ localStatus[p] # "LEFT"
      /\ ~ OutOfDate(p, m.cmd)
      /\ m.cmd.frame <= MaxFrame
      /\ frameData' = IF HasFrameData(p, s)
                        THEN [frameData EXCEPT ![p][s] = Stored(p, m)]
                        ELSE frameData
      /\ inFlight' = [q \in Player |-> inFlight[q] \cup Relayed(p, m, q)]
      /\ UNCHANGED <<frame, networkVars, nextID, quitFrame, issued, executed>>

-----------------------------------------------------------------------------
\* ConnectionManager::allCommandsReady for p's logic frame.  Its RESEND branch
\* is dead here (NeverResend).
RemoteCommandsReady(p) ==   \* mutant: the packet router is not waited for
  \A q \in Player \ {PacketRouter} :
     quitFrame[p][q] = 0 => Ready(frameData[p][q], frame[p])
AllCommandsReady(p) ==
  \A q \in Player : quitFrame[p][q] = 0 => Ready(frameData[p][q], frame[p])

\* ConnectionManager::getFrameCommandList.
OthersCommands(p) ==   \* mutant: p forgets to run his own commands
  UNION {frameData[p][q][Slot(frame[p])].commandList :
           q \in {x \in Player \ {p} : HasFrameData(p, x)}}
FrameCommands(p) ==
  UNION {frameData[p][q][Slot(frame[p])].commandList :
           q \in {x \in Player : HasFrameData(p, x)}}

\* p's ring for q once that list is collected: the frame that is now
\* FRAMES_TO_KEEP in the past is forgotten.
Advanced(p, q) ==
  IF frame[p] > FRAMES_TO_KEEP /\ HasFrameData(p, q)
    THEN resetFrame(frameData[p][q], frame[p] - FRAMES_TO_KEEP, p = q)
    ELSE frameData[p][q]

Leavers(cs) == {c.player : c \in {d \in cs : d.type = "PLAYERLEAVE"}}

\* The last RUNAHEAD of a frame's list decides (the list is sorted by id).
RunAheadAfter(p, cs) ==
  LET changes == {c \in cs : c.type = "RUNAHEAD"}
      last    == {c \in changes : \A d \in changes : d.id <= c.id}
  IN  IF last = {} THEN runAhead[p] ELSE (CHOOSE c \in last : TRUE).arg

\* Network::update when the frame is ready: RelayCommandsToCommandList, and the
\* game logic runs the frame.  The tick of this logic frame came first.
\* A player who left runs on alone, which is left out.
ExecuteFrame(p) ==
  LET f  == frame[p]
      cs == FrameCommands(p)
  IN  /\ localStatus[p] # "LEFT"
      /\ Ticked(p)
      /\ f <= MaxFrame
      /\ AllCommandsReady(p)
      /\ executed' = [executed EXCEPT ![p] = Append(@, cs)]
      /\ frame' = [frame EXCEPT ![p] = f + 1]
      /\ runAhead' = [runAhead EXCEPT ![p] = RunAheadAfter(p, cs)]
      /\ quitFrame' = [quitFrame EXCEPT ![p] = [q \in Player |->
                         IF q \in Leavers(cs) \ {p} /\ @[q] = 0
                           THEN f + FRAMES_TO_KEEP + 1 ELSE @[q]]]
      /\ localStatus' = [localStatus EXCEPT ![p] =
                           IF p \in Leavers(cs) THEN "LEFT" ELSE @]
      /\ frameData' = [frameData EXCEPT ![p] = [q \in Player |-> Advanced(p, q)]]
      /\ UNCHANGED <<lastExecutionFrame, lastFrameCompleted, nextID, inFlight, issued>>

-----------------------------------------------------------------------------
ReceiveAny(p) == \E m \in inFlight[p] : Receive(p, m)

Next ==
  \E p \in Player :
    \/ FrameTick(p)
    \/ SendLocalGameMessage(p)
    \/ UpdateRunAhead(p)
    \/ ClearGameData(p)
    \/ ReceiveAny(p)
    \/ ExecuteFrame(p)

Spec == Init /\ [][Next]_vars

\* Every machine keeps updating, and the connections resend what was not
\* acknowledged, so a message that still matters is eventually received.
Fairness ==
  \A p \in Player :
    WF_vars(FrameTick(p)) /\ WF_vars(ReceiveAny(p)) /\ WF_vars(ExecuteFrame(p))

FairSpec == Spec /\ Fairness

-----------------------------------------------------------------------------
\* Any two players who ran a frame ran it with the same commands: the games do
\* not diverge (RelayCommandsToCommandList).
LockstepAgreement ==
  \A p, q \in Player : \A f \in 1 .. Len(executed[p]) :
     f <= Len(executed[q]) => executed[p][f] = executed[q][f]

\* A frame is run with every command that is ever issued for it: nobody issues
\* for a frame somebody has run, and no command on its way is overtaken
\* (getExecutionFrame, allCommandsReady, addCommand).
NothingLost ==
  \A p \in Player : \A f \in 1 .. Len(executed[p]) :
     executed[p][f] = {c \in issued : c.frame = f}

\* A count on the wire is final: its sender never issues another command for
\* the frame (the case of updateRunAhead's comment, ConnectionManager.cpp 1403).
CountIsFinal ==
  \A p \in Player : \A m \in inFlight[p] :
     m.cmd.type = "FRAMEINFO" =>
       m.cmd.arg = Cardinality({c \in issued : /\ c.player = m.cmd.player
                                               /\ c.frame = m.cmd.frame})

\* No frame anybody asks about has more commands than announced, so the RESEND
\* of FrameData::allCommandsReady, and the loss of the frame's data that comes
\* with it, needs a disconnection.
NeverResend ==
  \A p, q \in Player : \A f \in frame[p] .. frame[p] + FRAMES_TO_KEEP :
     quitFrame[p][q] = 0 /\ q # p => ~ NeedsResend(frameData[p][q], f)

\* While a player is in the game no slot of his rings holds a command of a frame
\* other than the one of his window that lives there (the ring length of
\* NetworkUtil.cpp against the span from the frames kept to the furthest frame
\* anybody issues for).
NoAliasing ==
  \A p, q \in Player : \A k \in FrameIndex :
     \A c \in frameData[p][q][k].commandList : localStatus[p] = "INGAME" =>
        /\ frame[p] - FRAMES_TO_KEEP <= c.frame
        /\ c.frame < frame[p] - FRAMES_TO_KEEP + FRAME_DATA_LENGTH

\* Players on the same frame have the same run ahead, however RUNAHEADs and
\* frames interleaved (processRunAheadCommand).
RunAheadAgreement ==
  \A p, q \in Player : frame[p] = frame[q] => runAhead[p] = runAhead[q]

\* Nobody gets further ahead of a player in the game than the largest run ahead.
BoundedSkew ==
  \A p, q \in Player :
     localStatus[q] = "INGAME" => frame[p] <= frame[q] + MAX_RUNAHEAD

\* Once a frame's commands are ready no late or repeated message makes them
\* unready again: update may test and run in different calls (Network::update,
\* timeForNewFrame).
ReadyIsStable ==
  [][\A p \in Player :
       AllCommandsReady(p) /\ frame'[p] = frame[p] => AllCommandsReady(p)']_vars

\* Everybody gets through the game, past the leaving of others.
Advances ==
  \A p \in Player : <>(frame[p] = MaxFrame + 1 \/ localStatus[p] = "LEFT")

\* Whoever leaves is let go: the others' counts and his own reach the frame of
\* his PLAYERLEAVE (processCommand, ConnectionManager::processPlayerLeave).
LeaverLeaves ==
  \A p \in Player : localStatus[p] = "LEAVING" ~> localStatus[p] = "LEFT"

\* The messages, counts and rings implement the promise of FrameSync.
Sync == INSTANCE FrameSync WITH
          schedule <- issued,
          open     <- [p \in Player |-> localStatus[p] = "INGAME"],
          closed   <- lastFrameCompleted,
          ran      <- executed

ImplementsFrameSync == Sync!Spec

=============================================================================
