-------------------------- MODULE LockstepInvariant --------------------------
(***************************************************************************)
(* The inductive invariant of Lockstep.  A player's FRAMEINFOs close frames:*)
(* he issues nothing more for a frame he has counted, so what everyone      *)
(* counted can be run.  The rest bounds how far the players are apart, which*)
(* keeps what they send inside the window of each other's rings.            *)
(***************************************************************************)
EXTENDS Lockstep

IssuedFor(q, f) == {c \in issued : c.player = q /\ c.frame = f}

\* The last frame q counts: the frame of his PLAYERLEAVE once he leaves.
LastCounted(q) ==
  IF localStatus[q] = "INGAME" THEN lastFrameCompleted[q]
                               ELSE lastFrameCompleted[q] + 1

\* The counters of one player.
CountersInv ==
  \A p \in Player :
    /\ frame[p] >= 1
    /\ Len(executed[p]) = frame[p] - 1
    /\ lastFrameCompleted[p] <= lastExecutionFrame[p]
    /\ lastExecutionFrame[p] <= frame[p] + MAX_RUNAHEAD
    /\ localStatus[p] # "LEFT" => frame[p] <= lastFrameCompleted[p] + 1
    /\ localStatus[p] = "INGAME" =>
         /\ lastFrameCompleted[p] < frame[p] + MAX_RUNAHEAD
         /\ \/ lastFrameCompleted[p] < lastExecutionFrame[p]
            \/ lastFrameCompleted[p] + 1 < frame[p] + runAhead[p]

\* What the issued commands say about their players.
IssuedInv ==
  /\ IsFiniteSet(issued)
  /\ \A c \in issued :
       /\ c.type # "FRAMEINFO"
       /\ c.id < nextID[c.player]
       /\ IF localStatus[c.player] = "INGAME"
            THEN c.frame <= lastExecutionFrame[c.player]
            ELSE c.frame <= LastCounted(c.player)
       /\ c.type = "RUNAHEAD" => c.player = PacketRouter /\ c.arg \in RunAheads
       /\ c.type = "PLAYERLEAVE" =>
            localStatus[c.player] # "INGAME" /\ c.frame = LastCounted(c.player)

\* Whoever is not in the game any more has issued his PLAYERLEAVE.
LeaveInv ==
  \A q \in Player : localStatus[q] # "INGAME" =>
    /\ q # PacketRouter
    /\ \E c \in issued :
         c.type = "PLAYERLEAVE" /\ c.player = q /\ c.frame = LastCounted(q)

\* A player is waited for until his leave frame has been run.
SkewInv ==
  \A p, q \in Player :
    IF quitFrame[p][q] = 0
      THEN q # p => frame[p] <= lastFrameCompleted[q] + 1
      ELSE q # p /\ localStatus[q] # "INGAME" /\ LastCounted(q) < frame[p]

\* What is on the wire.
MessageInv ==
  \A p \in Player : \A m \in inFlight[p] :
    LET c == m.cmd
    IN  /\ c.player # p
        /\ c.player \notin m.relay
        /\ IF c.type = "FRAMEINFO"
             THEN /\ c.frame <= LastCounted(c.player)
                  /\ c.arg = Cardinality(IssuedFor(c.player, c.frame))
             ELSE c \in issued
        /\ p # PacketRouter =>
             /\ m.relay \subseteq {p}
             /\ c.frame <= lastFrameCompleted[p] + 2 * MAX_RUNAHEAD + 2

\* The frames of p's rings that will be looked at.
WindowTop(p) ==
  IF localStatus[p] # "INGAME" THEN LastCounted(p)
  ELSE IF frame[p] <= FRAMES_TO_KEEP THEN FRAME_DATA_LENGTH
  ELSE frame[p] - FRAMES_TO_KEEP + FRAME_DATA_LENGTH - 1

SlotOK(p, q, f) ==
  LET fd == frameData[p][q][Slot(f)]
  IN  /\ fd.commandList \subseteq IssuedFor(q, f)
      /\ fd.commandCount = Cardinality(fd.commandList)
      /\ q = p => /\ fd.commandList = IssuedFor(q, f)
                  /\ fd.frameCommandCount = fd.commandCount
      /\ q # p /\ fd.frameCommandCount # NoCount =>
           /\ f <= LastCounted(q)
           /\ fd.frameCommandCount = Cardinality(IssuedFor(q, f))

RingInv ==
  \A p \in Player : localStatus[p] # "LEFT" =>
    \A q \in Player : HasFrameData(p, q) =>
      \A f \in frame[p] .. WindowTop(p) : SlotOK(p, q, f)

\* What has been run is final.
FrozenInv ==
  \A p \in Player : \A f \in 1 .. Len(executed[p]) :
    /\ executed[p][f] = {c \in issued : c.frame = f}
    /\ \A q \in Player : localStatus[q] = "INGAME" => f <= lastFrameCompleted[q]

IndInv ==
  /\ TypeOK
  /\ CountersInv
  /\ IssuedInv
  /\ LeaveInv
  /\ SkewInv
  /\ MessageInv
  /\ RingInv
  /\ FrozenInv

=============================================================================
