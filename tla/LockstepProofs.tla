--------------------------- MODULE LockstepProofs ----------------------------
(***************************************************************************)
(* Lockstep keeps the invariant IndInv, for any players, ring length, run   *)
(* aheads and numbers of frames and commands.  In five parts:               *)
(*                                                                          *)
(*   what the ring operators of FrameData do, for any ring length;          *)
(*   the actions keep the variables in their types;                         *)
(*   the actions keep IndInv, and what follows: agreement, counts that are  *)
(*   final, nothing lost, and the refinement of FrameSync;                  *)
(*   what else holds beside and by IndInv: a frame that is ready stays      *)
(*   ready, players on one frame use one run ahead, no slot of a ring       *)
(*   mixes two frames, no frame has more commands than announced, and       *)
(*   nobody is asked to resend what is there;                               *)
(*   what FrameSync promises, whatever implements it.                       *)
(***************************************************************************)
EXTENDS LockstepInvariant, FiniteSetTheorems, TLAPS

-----------------------------------------------------------------------------
(*****************************************************************************)
(* The rings of FrameData.                                                   *)
(*****************************************************************************)

-----------------------------------------------------------------------------
(* The constants and the ring.                                              *)

LEMMA Sizes ==
  /\ MAX_RUNAHEAD \in Nat \ {0}
  /\ FRAMES_TO_KEEP = MAX_RUNAHEAD + 1
  /\ FRAME_DATA_LENGTH \in Nat
  /\ FRAME_DATA_LENGTH >= 4 * MAX_RUNAHEAD + 2
  BY FramesAheadAssumption
     DEF MAX_RUNAHEAD, FRAMES_TO_KEEP, FRAME_DATA_LENGTH

LEMMA DivMod ==
  ASSUME NEW L \in Nat \ {0}, NEW a \in Int
  PROVE  a = L * (a \div L) + (a % L) /\ (a % L) \in 0 .. (L - 1) /\ (a \div L) \in Int
  BY SMT

\* No whole multiple of L is strictly between 0 and L.
LEMMA NoMultiple ==
  ASSUME NEW L \in Nat \ {0}, NEW k \in Int, 0 < L * k, L * k < L
  PROVE  FALSE
  <1>1. k > 0
    <2> SUFFICES ASSUME k <= 0 PROVE FALSE
      OBVIOUS
    <2>1. L * k <= 0
      BY SMT
    <2> QED BY <2>1
  <1>2. L * k >= L
    <2>1. L * (k - 1) >= 0
      BY <1>1, SMT
    <2>2. L * (k - 1) = L * k - L
      BY SMT
    <2> QED BY <2>1, <2>2
  <1> QED BY <1>2

LEMMA ModInjective ==
  ASSUME NEW L \in Nat \ {0}, NEW a \in Int, NEW b \in Int, a < b, b < a + L
  PROVE  (a % L) # (b % L)
  <1> SUFFICES ASSUME (a % L) = (b % L) PROVE FALSE
    OBVIOUS
  <1>1. a = L * (a \div L) + (a % L) /\ (a \div L) \in Int /\ (a % L) \in Int
    BY DivMod
  <1>2. b = L * (b \div L) + (b % L) /\ (b \div L) \in Int
    BY DivMod
  <1> DEFINE x == a \div L
             y == b \div L
  <1>3. x \in Int /\ y \in Int /\ L * x \in Int /\ L * y \in Int
    BY <1>1, <1>2
  <1>4. L * (y - x) = L * y - L * x
    <2> HIDE DEF x, y
    <2> QED BY <1>3, SMT
  <1>5. b - a = L * y - L * x
    <2>1. a = L * x + (a % L)
      BY <1>1
    <2>2. b = L * y + (a % L)
      BY <1>2
    <2> HIDE DEF x, y
    <2> QED BY <2>1, <2>2, <1>1, <1>3
  <1> HIDE DEF x, y
  <1>6. y - x \in Int /\ 0 < L * (y - x) /\ L * (y - x) < L
    BY <1>3, <1>4, <1>5
  <1> QED BY <1>6, NoMultiple

LEMMA SlotType == \A f \in Int : Slot(f) \in FrameIndex
  <1> TAKE f \in Int
  <1>1. FRAME_DATA_LENGTH \in Nat \ {0}
    BY Sizes
  <1>2. (f % FRAME_DATA_LENGTH) \in 0 .. (FRAME_DATA_LENGTH - 1)
    BY <1>1, DivMod
  <1> QED BY <1>2 DEF Slot, FrameIndex

LEMMA SlotInjective ==
  ASSUME NEW f \in Int, NEW g \in Int, f # g,
         g < f + FRAME_DATA_LENGTH, f < g + FRAME_DATA_LENGTH
  PROVE  Slot(f) # Slot(g)
  <1>1. FRAME_DATA_LENGTH \in Nat \ {0}
    BY Sizes
  <1>2. CASE f < g
    BY <1>1, <1>2, ModInjective DEF Slot
  <1>3. CASE g < f
    BY <1>1, <1>3, ModInjective DEF Slot
  <1> QED BY <1>2, <1>3

LEMMA SlotOfIndex ==
  \A f \in FrameIndex : Slot(f) = f
  <1> TAKE f \in FrameIndex
  <1>1. FRAME_DATA_LENGTH \in Nat \ {0}
    BY Sizes
  <1>2. f \in Int /\ 0 <= f /\ f < FRAME_DATA_LENGTH
    BY <1>1 DEF FrameIndex
  <1> DEFINE L == FRAME_DATA_LENGTH
  <1>3. L \in Nat \ {0}
    BY <1>1
  <1> HIDE DEF L
  <1>4. (f % L) = f
    BY <1>2, <1>3, SMT DEF L
  <1> QED BY <1>4 DEF Slot, L

LEMMA SlotPeriod == \A f \in Int : Slot(f + FRAME_DATA_LENGTH) = Slot(f)
  <1> SUFFICES ASSUME NEW f \in Int PROVE Slot(f + FRAME_DATA_LENGTH) = Slot(f)
    OBVIOUS
  <1> DEFINE L == FRAME_DATA_LENGTH
             g == f + L
             r == (f % L)
             s == (g % L)
             x == f \div L
             y == g \div L
  <1>1. L \in Nat \ {0}
    BY Sizes
  <1> HIDE DEF L
  <1>2. f = L * x + r /\ x \in Int /\ r \in 0 .. (L - 1)
    BY <1>1, DivMod
  <1>3. g \in Int
    BY <1>1
  <1> HIDE DEF g
  <1>4. g = L * y + s /\ y \in Int /\ s \in 0 .. (L - 1)
    BY <1>1, <1>3, DivMod
  <1> HIDE DEF r, s, x, y
  <1>5. g = f + L
    BY DEF g
  <1>6. L * (y - x - 1) = L * y - L * x - L /\ L * (x + 1 - y) = L * x + L - L * y
    BY <1>1, <1>2, <1>4, SMT
  <1>7. L * x \in Int /\ L * y \in Int
    BY <1>1, <1>2, <1>4
  <1>8. ASSUME s < r PROVE FALSE
    <2>1. y - x - 1 \in Int /\ 0 < L * (y - x - 1) /\ L * (y - x - 1) < L
      BY <1>1, <1>2, <1>4, <1>5, <1>6, <1>7, <1>8
    <2> QED BY <1>1, <2>1, NoMultiple
  <1>9. ASSUME r < s PROVE FALSE
    <2>1. x + 1 - y \in Int /\ 0 < L * (x + 1 - y) /\ L * (x + 1 - y) < L
      BY <1>1, <1>2, <1>4, <1>5, <1>6, <1>7, <1>9
    <2> QED BY <1>1, <2>1, NoMultiple
  <1>10. s = r
    BY <1>2, <1>4, <1>8, <1>9
  <1> QED BY <1>10 DEF Slot, L, g, r, s

-----------------------------------------------------------------------------
(* The operators of a ring change one slot.                                 *)

LEMMA AddCommand ==
  ASSUME NEW Commands, NEW old \in FrameDatas(Commands), NEW c \in Commands
  PROVE  /\ addCommand(old, c) \in FrameDatas(Commands)
         /\ addCommand(old, c).commandList = old.commandList \cup {c}
         /\ addCommand(old, c).commandCount =
              IF c \in old.commandList THEN old.commandCount ELSE old.commandCount + 1
         /\ addCommand(old, c).frameCommandCount = old.frameCommandCount
  <1> DEFINE add == addCommand(old, c)
  <1>1. CASE c \in old.commandList
    BY <1>1 DEF addCommand, FrameDatas
  <1>2. CASE c \notin old.commandList
    <2>1. old.commandList \cup {c} \in SUBSET Commands /\ old.commandCount + 1 \in Nat
      BY DEF FrameDatas
    <2>2. add = [old EXCEPT !.commandList = old.commandList \cup {c},
                            !.commandCount = old.commandCount + 1]
      BY <1>2, Zenon DEF addCommand
    <2>3. old = [frameCommandCount |-> old.frameCommandCount,
                 commandCount |-> old.commandCount, commandList |-> old.commandList]
      BY DEF FrameDatas
    <2>4. add = [frameCommandCount |-> old.frameCommandCount,
                 commandCount |-> old.commandCount + 1,
                 commandList |-> old.commandList \cup {c}]
      BY <2>2, <2>3
    <2> HIDE DEF add
    <2> QED BY <1>2, <2>1, <2>4 DEF FrameDatas, add
  <1> QED BY <1>1, <1>2

\* A command someone else issued: the count he announced stays.
LEMMA AddNetCommandMsg ==
  ASSUME NEW Commands, NEW frames \in FrameRings(Commands),
         NEW c \in Commands, c.frame \in Int
  PROVE  /\ addNetCommandMsg(frames, c, FALSE) \in FrameRings(Commands)
         /\ \A k \in FrameIndex \ {Slot(c.frame)} :
              addNetCommandMsg(frames, c, FALSE)[k] = frames[k]
         /\ addNetCommandMsg(frames, c, FALSE)[Slot(c.frame)] =
              addCommand(frames[Slot(c.frame)], c)
  <1>1. Slot(c.frame) \in FrameIndex
    BY SlotType
  <1>2. addCommand(frames[Slot(c.frame)], c) \in FrameDatas(Commands)
    <2>1. frames[Slot(c.frame)] \in FrameDatas(Commands)
      BY <1>1 DEF FrameRings
    <2> QED BY <2>1, AddCommand
  <1>3. addNetCommandMsg(frames, c, FALSE) =
          [frames EXCEPT ![Slot(c.frame)] = addCommand(frames[Slot(c.frame)], c)]
    BY DEF addNetCommandMsg
  <1> QED BY <1>1, <1>2, <1>3 DEF FrameRings

\* A command of the local player: the count follows.
LEMMA AddOwnNetCommandMsg ==
  ASSUME NEW Commands, NEW frames \in FrameRings(Commands),
         NEW c \in Commands, c.frame \in Int
  PROVE  /\ addNetCommandMsg(frames, c, TRUE) \in FrameRings(Commands)
         /\ \A k \in FrameIndex \ {Slot(c.frame)} :
              addNetCommandMsg(frames, c, TRUE)[k] = frames[k]
         /\ addNetCommandMsg(frames, c, TRUE)[Slot(c.frame)] =
              [frameCommandCount |-> addCommand(frames[Slot(c.frame)], c).commandCount,
               commandCount |-> addCommand(frames[Slot(c.frame)], c).commandCount,
               commandList |-> addCommand(frames[Slot(c.frame)], c).commandList]
  <1> DEFINE s   == Slot(c.frame)
             add == addCommand(frames[s], c)
             fd  == [add EXCEPT !.frameCommandCount = add.commandCount]
  <1>1. s \in FrameIndex
    BY SlotType
  <1>2. add \in FrameDatas(Commands)
    <2>1. frames[s] \in FrameDatas(Commands)
      BY <1>1 DEF FrameRings
    <2> QED BY <2>1, AddCommand
  <1>3. addNetCommandMsg(frames, c, TRUE) = [frames EXCEPT ![s] = fd]
    BY DEF addNetCommandMsg
  <1>4. /\ fd \in FrameDatas(Commands)
        /\ fd = [frameCommandCount |-> add.commandCount,
                 commandCount |-> add.commandCount, commandList |-> add.commandList]
    <2> HIDE DEF add
    <2> QED BY <1>2 DEF FrameDatas
  <1> HIDE DEF fd, add, s
  <1>5. /\ [frames EXCEPT ![s] = fd] \in FrameRings(Commands)
        /\ [frames EXCEPT ![s] = fd][s] = fd
        /\ \A k \in FrameIndex \ {s} : [frames EXCEPT ![s] = fd][k] = frames[k]
    BY <1>1, <1>4 DEF FrameRings
  <1> QED BY <1>3, <1>4, <1>5 DEF add, s

LEMMA SetFrameCommandCount ==
  ASSUME NEW Commands, NEW frames \in FrameRings(Commands),
         NEW f \in Int, NEW n \in Nat
  PROVE  LET old == frames[Slot(f)]
             new == setFrameCommandCount(frames, f, n)
             fd  == new[Slot(f)]
         IN  /\ new \in FrameRings(Commands)
             /\ \A k \in FrameIndex \ {Slot(f)} : new[k] = frames[k]
             /\ fd.commandList = old.commandList
             /\ fd.commandCount = old.commandCount
             /\ fd.frameCommandCount = n
  <1>1. Slot(f) \in FrameIndex
    BY SlotType
  <1> QED BY <1>1 DEF setFrameCommandCount, FrameDatas, FrameRings

LEMMA ResetFrame ==
  ASSUME NEW Commands, NEW frames \in FrameRings(Commands),
         NEW f \in Int, NEW isLocal \in BOOLEAN
  PROVE  LET new == resetFrame(frames, f, isLocal)
         IN  /\ new \in FrameRings(Commands)
             /\ \A k \in FrameIndex \ {Slot(f)} : new[k] = frames[k]
             /\ new[Slot(f)] = FreshFrame(isLocal)
  <1>1. Slot(f) \in FrameIndex
    BY SlotType
  <1>2. FreshFrame(isLocal) \in FrameDatas(Commands)
    BY DEF FreshFrame, FrameDatas
  <1> QED BY <1>1, <1>2 DEF resetFrame, FrameRings

LEMMA InitialFramesType ==
  ASSUME NEW Commands, NEW isLocal \in BOOLEAN, NEW r \in Int
  PROVE  InitialFrames(isLocal, r) \in FrameRings(Commands)
  BY DEF InitialFrames, FreshFrame, ZeroFrame, FrameDatas, FrameRings

-----------------------------------------------------------------------------
(*****************************************************************************)
(* The types of Lockstep.                                                    *)
(*****************************************************************************)

-----------------------------------------------------------------------------
(* Types.                                                                   *)

LEMMA RunAheadRange ==
  /\ RunAheads \subseteq Nat
  /\ \A r \in RunAheads : 1 <= r /\ r <= MAX_RUNAHEAD
  /\ InitialRunAhead \in RunAheads
  BY LockstepAssumption, Sizes DEF RunAheads

LEMMA ExecutionFrameBounds ==
  ASSUME TypeOK, NEW p \in Player
  PROVE  /\ ExecutionFrame(p) \in Nat
         /\ frame[p] + runAhead[p] <= ExecutionFrame(p)
         /\ lastExecutionFrame[p] <= ExecutionFrame(p)
         /\ \/ ExecutionFrame(p) = frame[p] + runAhead[p]
            \/ ExecutionFrame(p) = lastExecutionFrame[p]
  <1>1. runAhead[p] \in Nat /\ frame[p] \in Nat /\ lastExecutionFrame[p] \in Nat
    BY RunAheadRange DEF TypeOK
  <1> QED BY <1>1 DEF ExecutionFrame

LEMMA LocalCountType ==
  ASSUME TypeOK, NEW p \in Player, NEW f \in Int
  PROVE  LocalCount(p, f) \in Nat
  <1>1. Slot(f) \in FrameIndex
    BY SlotType
  <1> QED BY <1>1 DEF TypeOK, LocalCount, FrameDatas, FrameRings

LEMMA FrameInfoType ==
  ASSUME NEW p \in Player, NEW f \in Nat, NEW n \in Nat
  PROVE  FrameInfo(p, f, n) \in Command
  BY DEF FrameInfo, Command, CommandType

LEMMA PendingFrameInfosType ==
  ASSUME TypeOK, NEW p \in Player
  PROVE  PendingFrameInfos(p) \subseteq Command
  <1>1. \A f \in (lastFrameCompleted[p] + 1) .. (ExecutionFrame(p) - 1) : f \in Nat
    BY ExecutionFrameBounds DEF TypeOK
  <1> QED BY <1>1, LocalCountType, FrameInfoType DEF PendingFrameInfos

LEMMA SendType ==
  ASSUME TypeOK, NEW p \in Player, NEW cs \in SUBSET Command, Send(p, cs)
  PROVE  inFlight' \in [Player -> SUBSET Message]
  <1>1. \A q \in Player : SentTo(q, p, cs) \subseteq Message
    BY DEF SentTo, Message
  <1> QED BY <1>1 DEF TypeOK, Send

LEMMA IssueType ==
  ASSUME TypeOK, NEW p \in Player, NEW c \in Command, c.player = p,
         NEW cs \in SUBSET Command, Issue(p, c, cs)
  PROVE  /\ nextID'    \in [Player -> Nat]
         /\ frameData' \in [Player -> [Player -> FrameRings(Command)]]
         /\ issued'    \in SUBSET Command
         /\ inFlight'  \in [Player -> SUBSET Message]
  <1>1. nextID' \in [Player -> Nat]
    BY DEF TypeOK, Issue
  <1>2. addNetCommandMsg(frameData[p][p], c, TRUE) \in FrameRings(Command)
    <2>1. c.frame \in Int
      BY DEF Command
    <2>2. frameData[p][p] \in FrameRings(Command)
      BY DEF TypeOK
    <2> QED BY <2>1, <2>2, AddOwnNetCommandMsg
  <1>3. frameData' \in [Player -> [Player -> FrameRings(Command)]]
    BY <1>2 DEF TypeOK, Issue
  <1>4. issued' \in SUBSET Command
    BY DEF TypeOK, Issue
  <1>5. Send(p, {c} \cup cs)
    BY DEF Issue
  <1>6. inFlight' \in [Player -> SUBSET Message]
    BY <1>5, SendType
  <1> QED BY <1>1, <1>3, <1>4, <1>6

LEMMA FrameTickType ==
  ASSUME TypeOK, NEW p \in Player, FrameTick(p)
  PROVE  TypeOK'
  <1>1. inFlight' \in [Player -> SUBSET Message]
    BY PendingFrameInfosType, SendType DEF FrameTick
  <1>2. ExecutionFrame(p) \in Nat /\ ExecutionFrame(p) - 1 \in Nat
    <2>1. frame[p] \in Nat /\ runAhead[p] \in Nat /\ 1 <= runAhead[p]
      BY RunAheadRange DEF TypeOK
    <2> QED BY <2>1, ExecutionFrameBounds
  <1> QED BY <1>1, <1>2 DEF TypeOK, FrameTick

LEMMA SendLocalGameMessageType ==
  ASSUME TypeOK, NEW p \in Player, SendLocalGameMessage(p)
  PROVE  TypeOK'
  <1>1. ExecutionFrame(p) \in Nat
    BY ExecutionFrameBounds
  <1>2. GameCommand(p) \in Command /\ GameCommand(p).player = p
    BY <1>1 DEF GameCommand, Command, CommandType, TypeOK
  <1>3. Issue(p, GameCommand(p), {}) /\ {} \in SUBSET Command
    BY DEF SendLocalGameMessage
  <1>4. /\ nextID'    \in [Player -> Nat]
        /\ frameData' \in [Player -> [Player -> FrameRings(Command)]]
        /\ issued'    \in SUBSET Command
        /\ inFlight'  \in [Player -> SUBSET Message]
    BY <1>2, <1>3, IssueType
  <1> QED BY <1>1, <1>4 DEF TypeOK, SendLocalGameMessage

LEMMA UpdateRunAheadType ==
  ASSUME TypeOK, NEW p \in Player, UpdateRunAhead(p)
  PROVE  TypeOK'
  <1>1. ExecutionFrame(p) \in Nat /\ runAhead[p] \in Nat /\ frame[p] \in Nat
    BY ExecutionFrameBounds, RunAheadRange DEF TypeOK
  <1>2. PICK r \in NewRunAheads : Issue(p, RunAheadCommand(p, r), {})
    BY DEF UpdateRunAhead
  <1>3. r \in Nat
    BY RunAheadRange DEF NewRunAheads
  <1>4. RunAheadCommand(p, r) \in Command /\ RunAheadCommand(p, r).player = p
    BY <1>1, <1>3 DEF RunAheadCommand, Command, CommandType, TypeOK
  <1>5. /\ nextID'    \in [Player -> Nat]
        /\ frameData' \in [Player -> [Player -> FrameRings(Command)]]
        /\ issued'    \in SUBSET Command
        /\ inFlight'  \in [Player -> SUBSET Message]
    <2>1. {} \in SUBSET Command
      OBVIOUS
    <2> QED BY <1>2, <1>4, <2>1, IssueType
  <1> QED BY <1>1, <1>5 DEF TypeOK, UpdateRunAhead

LEMMA PlayerLeaveCommandType ==
  ASSUME TypeOK, NEW p \in Player
  PROVE  /\ PlayerLeaveCommand(p) \in Command
         /\ PlayerLeaveCommand(p).player = p
         /\ PlayerLeaveCommand(p).type = "PLAYERLEAVE"
         /\ PlayerLeaveCommand(p).frame = ExecutionFrame(p) + 1
         /\ PlayerLeaveCommand(p).frame \in Int
         /\ addNetCommandMsg(frameData[p][p], PlayerLeaveCommand(p), TRUE)
              \in FrameRings(Command)
  <1>1. ExecutionFrame(p) \in Nat
    BY ExecutionFrameBounds
  <1>2. /\ PlayerLeaveCommand(p) \in Command
        /\ PlayerLeaveCommand(p).player = p
        /\ PlayerLeaveCommand(p).type = "PLAYERLEAVE"
        /\ PlayerLeaveCommand(p).frame = ExecutionFrame(p) + 1
        /\ PlayerLeaveCommand(p).frame \in Int
    BY <1>1 DEF PlayerLeaveCommand, Command, CommandType, TypeOK
  <1> HIDE DEF PlayerLeaveCommand
  <1>3. frameData[p][p] \in FrameRings(Command)
    BY DEF TypeOK
  <1> QED BY <1>2, <1>3, AddOwnNetCommandMsg

LEMMA LeaveFrameInfosType ==
  ASSUME TypeOK, NEW p \in Player
  PROVE  LeaveFrameInfos(p) \subseteq Command
  <1> DEFINE mine == addNetCommandMsg(frameData[p][p], PlayerLeaveCommand(p), TRUE)
  <1>1. mine \in FrameRings(Command)
    BY PlayerLeaveCommandType
  <1> HIDE DEF mine
  <1>2. LeaveFrames(p) \subseteq Nat
    BY ExecutionFrameBounds DEF LeaveFrames
  <1>3. \A f \in LeaveFrames(p) : mine[Slot(f)].commandCount \in Nat
    BY <1>1, <1>2, SlotType DEF FrameDatas, FrameRings
  <1>4. \A f \in LeaveFrames(p) : FrameInfo(p, f, mine[Slot(f)].commandCount) \in Command
    BY <1>2, <1>3, FrameInfoType
  <1> QED BY <1>4 DEF LeaveFrameInfos, mine

LEMMA ClearGameDataType ==
  ASSUME TypeOK, NEW p \in Player, ClearGameData(p)
  PROVE  TypeOK'
  <1>1. ExecutionFrame(p) \in Nat
    BY ExecutionFrameBounds
  <1> DEFINE cs == PendingFrameInfos(p) \cup LeaveFrameInfos(p)
  <1>2. cs \in SUBSET Command
    BY PendingFrameInfosType, LeaveFrameInfosType
  <1>3. Issue(p, PlayerLeaveCommand(p), cs)
    BY DEF ClearGameData
  <1>4. /\ nextID'    \in [Player -> Nat]
        /\ frameData' \in [Player -> [Player -> FrameRings(Command)]]
        /\ issued'    \in SUBSET Command
        /\ inFlight'  \in [Player -> SUBSET Message]
    <2> HIDE DEF cs
    <2> QED BY <1>2, <1>3, PlayerLeaveCommandType, IssueType
  <1> QED BY <1>1, <1>4 DEF TypeOK, ClearGameData

LEMMA MessageType ==
  ASSUME TypeOK, NEW p \in Player, NEW m \in inFlight[p]
  PROVE  /\ m \in Message /\ m.cmd \in Command /\ m.relay \in SUBSET Player
         /\ m.cmd.player \in Player /\ m.cmd.frame \in Nat /\ m.cmd.arg \in Nat
         /\ m.cmd.type \in CommandType /\ m.cmd.id \in Nat
  <1>1. m \in Message
    BY DEF TypeOK
  <1>2. m.cmd \in Command /\ m.relay \in SUBSET Player
    BY <1>1 DEF Message
  <1> QED BY <1>1, <1>2 DEF Command

LEMMA StoredType ==
  ASSUME TypeOK, NEW p \in Player, NEW m \in inFlight[p]
  PROVE  Stored(p, m) \in FrameRings(Command)
  <1>1. frameData[p][m.cmd.player] \in FrameRings(Command)
    <2>1. m.cmd.player \in Player
      BY MessageType
    <2> QED BY <2>1 DEF TypeOK
  <1>2. setFrameCommandCount(frameData[p][m.cmd.player], m.cmd.frame, m.cmd.arg)
          \in FrameRings(Command)
    BY <1>1, MessageType, SetFrameCommandCount
  <1>3. addNetCommandMsg(frameData[p][m.cmd.player], m.cmd, FALSE)
          \in FrameRings(Command)
    <2>1. m.cmd \in Command /\ m.cmd.frame \in Int
      BY MessageType
    <2> QED BY <1>1, <2>1, AddNetCommandMsg
  <1> QED BY <1>1, <1>2, <1>3 DEF Stored

LEMMA RelayedType ==
  ASSUME TypeOK, NEW p \in Player, NEW m \in inFlight[p], NEW q \in Player
  PROVE  /\ Relayed(p, m, q) \subseteq Message
         /\ \A n \in Relayed(p, m, q) :
              n.cmd = m.cmd /\ n.relay = {q} /\ q \in m.relay /\ Connected(p, q)
  <1>1. m \in [cmd : Command, relay : SUBSET Player]
    BY MessageType DEF Message
  <1>2. [m EXCEPT !.relay = {q}] = [cmd |-> m.cmd, relay |-> {q}]
    BY <1>1
  <1> QED BY <1>1, <1>2 DEF Relayed, Message

LEMMA ReceiveType ==
  ASSUME TypeOK, NEW p \in Player, NEW m \in inFlight[p], Receive(p, m)
  PROVE  TypeOK'
  <1>1. frameData' \in [Player -> [Player -> FrameRings(Command)]]
    <2>1. m.cmd.player \in Player
      BY MessageType
    <2>2. Stored(p, m) \in FrameRings(Command)
      BY StoredType
    <2>3. CASE HasFrameData(p, m.cmd.player)
      BY <2>1, <2>2, <2>3 DEF TypeOK, Receive
    <2>4. CASE ~ HasFrameData(p, m.cmd.player)
      BY <2>4 DEF TypeOK, Receive
    <2> QED BY <2>3, <2>4
  <1>2. inFlight' \in [Player -> SUBSET Message]
    BY RelayedType DEF TypeOK, Receive
  <1> QED BY <1>1, <1>2 DEF TypeOK, Receive, networkVars

LEMMA RunAheadAfterType ==
  ASSUME TypeOK, NEW p \in Player, NEW cs,
         \A c \in cs : c.type = "RUNAHEAD" => c.arg \in RunAheads
  PROVE  RunAheadAfter(p, cs) \in RunAheads
  BY DEF RunAheadAfter, TypeOK

-----------------------------------------------------------------------------
(*****************************************************************************)
(* The inductive invariant.                                                  *)
(*****************************************************************************)

-----------------------------------------------------------------------------
(* What the invariant says of one player.                                   *)

LEMMA NumberTypes ==
  ASSUME TypeOK, NEW p \in Player
  PROVE  /\ frame[p] \in Nat /\ lastExecutionFrame[p] \in Nat
         /\ lastFrameCompleted[p] \in Nat /\ nextID[p] \in Nat
         /\ runAhead[p] \in Nat /\ 1 <= runAhead[p] /\ runAhead[p] <= MAX_RUNAHEAD
         /\ \A q \in Player : quitFrame[p][q] \in Nat
         /\ LastCounted(p) \in Nat
  <1>1. /\ frame[p] \in Nat /\ lastExecutionFrame[p] \in Nat
        /\ lastFrameCompleted[p] \in Nat /\ nextID[p] \in Nat
        /\ \A q \in Player : quitFrame[p][q] \in Nat
        /\ runAhead[p] \in RunAheads
    BY DEF TypeOK
  <1>2. runAhead[p] \in Nat /\ 1 <= runAhead[p] /\ runAhead[p] <= MAX_RUNAHEAD
    BY <1>1, RunAheadRange
  <1>3. LastCounted(p) \in Nat
    BY <1>1 DEF LastCounted
  <1> QED BY <1>1, <1>2, <1>3

\* The frames a player in the game issues for and counts.
LEMMA InGameFrames ==
  ASSUME IndInv, NEW p \in Player, localStatus[p] = "INGAME"
  PROVE  /\ ExecutionFrame(p) \in Nat
         /\ frame[p] <= lastFrameCompleted[p] + 1
         /\ lastFrameCompleted[p] + 1 <= ExecutionFrame(p)
         /\ lastExecutionFrame[p] <= ExecutionFrame(p)
         /\ ExecutionFrame(p) <= frame[p] + MAX_RUNAHEAD
         /\ LastCounted(p) = lastFrameCompleted[p]
         /\ RunAheadCommand(p, 0).frame = ExecutionFrame(p)
  <1>1. /\ frame[p] <= lastFrameCompleted[p] + 1
        /\ lastExecutionFrame[p] <= frame[p] + MAX_RUNAHEAD
        /\ \/ lastFrameCompleted[p] < lastExecutionFrame[p]
           \/ lastFrameCompleted[p] + 1 < frame[p] + runAhead[p]
    BY DEF IndInv, CountersInv
  <1>2. TypeOK
    BY DEF IndInv
  <1> QED BY <1>1, <1>2, NumberTypes, ExecutionFrameBounds, Sizes
          DEF LastCounted, RunAheadCommand

\* The frames kept are less than a ring apart.
LEMMA Window ==
  ASSUME IndInv, NEW p \in Player, localStatus[p] # "LEFT"
  PROVE  /\ WindowTop(p) \in Nat
         /\ frame[p] <= WindowTop(p)
         /\ WindowTop(p) < frame[p] + FRAME_DATA_LENGTH
         /\ \A f, g \in frame[p] .. WindowTop(p) : f # g => Slot(f) # Slot(g)
         /\ localStatus[p] = "INGAME" =>
              frame[p] + 3 * MAX_RUNAHEAD <= WindowTop(p)
  <1>1. TypeOK
    BY DEF IndInv
  <1>2. /\ frame[p] >= 1
        /\ frame[p] <= lastFrameCompleted[p] + 1
        /\ lastFrameCompleted[p] <= lastExecutionFrame[p]
        /\ lastExecutionFrame[p] <= frame[p] + MAX_RUNAHEAD
    BY DEF IndInv, CountersInv
  <1>3. /\ WindowTop(p) \in Nat
        /\ frame[p] <= WindowTop(p)
        /\ WindowTop(p) < frame[p] + FRAME_DATA_LENGTH
        /\ localStatus[p] = "INGAME" =>
             frame[p] + 3 * MAX_RUNAHEAD <= WindowTop(p)
    BY <1>1, <1>2, NumberTypes, Sizes DEF WindowTop, LastCounted
  <1>4. ASSUME NEW f \in frame[p] .. WindowTop(p), NEW g \in frame[p] .. WindowTop(p), f # g
        PROVE  Slot(f) # Slot(g)
    <2>1. frame[p] \in Nat /\ FRAME_DATA_LENGTH \in Nat
      BY <1>1, NumberTypes, Sizes
    <2>2. f \in Int /\ g \in Int /\ g < f + FRAME_DATA_LENGTH /\ f < g + FRAME_DATA_LENGTH
      BY <1>3, <2>1
    <2> QED BY <1>4, <2>2, SlotInjective
  <1> QED BY <1>3, <1>4

\* The packet router is in the game, so everybody waits for it.
LEMMA Router ==
  ASSUME IndInv
  PROVE  /\ PacketRouter \in Player
         /\ localStatus[PacketRouter] = "INGAME"
         /\ \A p \in Player :
              /\ quitFrame[p][PacketRouter] = 0
              /\ frame[p] <= frame[PacketRouter] + MAX_RUNAHEAD
  <1>1. PacketRouter \in Player
    BY LockstepAssumption
  <1>2. localStatus[PacketRouter] = "INGAME"
    BY <1>1 DEF IndInv, LeaveInv
  <1>3. ASSUME NEW p \in Player
        PROVE  /\ quitFrame[p][PacketRouter] = 0
               /\ frame[p] <= frame[PacketRouter] + MAX_RUNAHEAD
    <2>1. quitFrame[p][PacketRouter] = 0
      BY <1>1, <1>2 DEF IndInv, SkewInv
    <2>2. p # PacketRouter => frame[p] <= lastFrameCompleted[PacketRouter] + 1
      BY <1>1, <2>1 DEF IndInv, SkewInv
    <2>3. lastFrameCompleted[PacketRouter] < frame[PacketRouter] + MAX_RUNAHEAD
      BY <1>1, <1>2 DEF IndInv, CountersInv
    <2>4. TypeOK
      BY DEF IndInv
    <2> QED BY <1>1, <2>1, <2>2, <2>3, <2>4, NumberTypes, Sizes
  <1> QED BY <1>1, <1>2, <1>3

\* The frame of an issued or counted command.
LEMMA CommandFrames ==
  ASSUME IndInv, NEW s \in Player, NEW f \in Nat,
         \/ f <= LastCounted(s)
         \/ \E c \in issued : c.player = s /\ c.frame = f
  PROVE  f <= frame[s] + MAX_RUNAHEAD + 1
  <1>1. TypeOK
    BY DEF IndInv
  <1>2. /\ lastFrameCompleted[s] <= lastExecutionFrame[s]
        /\ lastExecutionFrame[s] <= frame[s] + MAX_RUNAHEAD
    BY DEF IndInv, CountersInv
  <1>3. LastCounted(s) <= lastFrameCompleted[s] + 1
    BY <1>1, NumberTypes DEF LastCounted
  <1>4. CASE f <= LastCounted(s)
    BY <1>1, <1>2, <1>3, <1>4, NumberTypes, Sizes
  <1>5. CASE \E c \in issued : c.player = s /\ c.frame = f
    <2>1. f <= lastExecutionFrame[s] \/ f <= LastCounted(s)
      BY <1>5 DEF IndInv, IssuedInv
    <2> QED BY <1>1, <1>2, <1>3, <2>1, NumberTypes, Sizes
  <1> QED BY <1>4, <1>5

-----------------------------------------------------------------------------
(* A player in the game issues commands after what he counted, and counts.  *)

Announced(p) ==
  /\ localStatus[p] = "INGAME" /\ localStatus'[p] \in {"INGAME", "LEAVING"}
  /\ lastFrameCompleted[p] <= lastFrameCompleted'[p]
  /\ \A q \in Player \ {p} : /\ localStatus'[q] = localStatus[q]
                             /\ lastFrameCompleted'[q] = lastFrameCompleted[q]
  /\ issued \subseteq issued'
  /\ \A c \in issued' \ issued : c.player = p /\ c.frame > lastFrameCompleted[p]
  /\ UNCHANGED <<frame, quitFrame, executed>>

LEMMA AnnouncedCounts ==
  ASSUME IndInv, TypeOK', NEW p \in Player, Announced(p), NEW q \in Player
  PROVE  /\ lastFrameCompleted[q] \in Nat /\ lastFrameCompleted'[q] \in Nat
         /\ lastFrameCompleted[q] <= lastFrameCompleted'[q]
         /\ LastCounted(q) \in Nat /\ LastCounted(q)' \in Nat
         /\ LastCounted(q) <= LastCounted(q)'
         /\ q # p => LastCounted(q)' = LastCounted(q)
         /\ \A f \in Nat : q # p \/ f <= LastCounted(q) =>
              IssuedFor(q, f)' = IssuedFor(q, f)
  <1>1. /\ lastFrameCompleted[q] \in Nat /\ lastFrameCompleted'[q] \in Nat
        /\ lastFrameCompleted[q] <= lastFrameCompleted'[q]
    <2>1. lastFrameCompleted[q] \in Nat /\ lastFrameCompleted'[q] \in Nat
      BY DEF IndInv, TypeOK
    <2> QED BY <2>1 DEF Announced
  <1>2. /\ LastCounted(q) \in Nat /\ LastCounted(q)' \in Nat
        /\ LastCounted(q) <= LastCounted(q)'
        /\ q # p => LastCounted(q)' = LastCounted(q)
    BY <1>1 DEF Announced, LastCounted
  <1>3. ASSUME NEW f \in Nat, q # p \/ f <= LastCounted(q)
        PROVE  IssuedFor(q, f)' = IssuedFor(q, f)
    <2>1. \A c \in issued' \ issued : ~ (c.player = q /\ c.frame = f)
      BY <1>1, <1>3 DEF Announced, LastCounted
    <2> QED BY <2>1 DEF IssuedFor, Announced
  <1> QED BY <1>1, <1>2, <1>3

LEMMA AnnouncedFrozen ==
  ASSUME IndInv, TypeOK', NEW p \in Player, Announced(p)
  PROVE  FrozenInv'
  <1> SUFFICES ASSUME NEW r \in Player, NEW f \in 1 .. Len(executed[r])
               PROVE  /\ executed[r][f] = {c \in issued' : c.frame = f}
                      /\ \A q \in Player : localStatus'[q] = "INGAME" =>
                                               f <= lastFrameCompleted'[q]
    BY DEF FrozenInv, Announced
  <1>1. /\ executed[r][f] = {c \in issued : c.frame = f}
        /\ \A q \in Player : localStatus[q] = "INGAME" => f <= lastFrameCompleted[q]
    BY DEF IndInv, FrozenInv
  <1>2. Len(executed[r]) \in Nat /\ f \in Nat
    BY DEF IndInv, TypeOK
  <1>3. \A q \in Player : localStatus'[q] = "INGAME" => f <= lastFrameCompleted'[q]
    BY <1>1, <1>2, AnnouncedCounts DEF Announced
  <1>4. \A c \in issued' \ issued : c.frame # f
    <2>1. lastFrameCompleted[p] \in Nat /\ f <= lastFrameCompleted[p]
      BY <1>1, AnnouncedCounts DEF Announced
    <2> QED BY <1>2, <2>1 DEF Announced
  <1> QED BY <1>1, <1>3, <1>4 DEF Announced

LEMMA AnnouncedSkew ==
  ASSUME IndInv, TypeOK', NEW p \in Player, Announced(p)
  PROVE  SkewInv'
  <1> SUFFICES ASSUME NEW r \in Player, NEW q \in Player
               PROVE  IF quitFrame[r][q] = 0
                        THEN q # r => frame[r] <= lastFrameCompleted'[q] + 1
                        ELSE /\ q # r /\ localStatus'[q] # "INGAME"
                             /\ LastCounted(q)' < frame[r]
    BY DEF SkewInv, Announced
  <1>1. IF quitFrame[r][q] = 0
          THEN q # r => frame[r] <= lastFrameCompleted[q] + 1
          ELSE q # r /\ localStatus[q] # "INGAME" /\ LastCounted(q) < frame[r]
    BY DEF IndInv, SkewInv
  <1>2. frame[r] \in Nat
    BY DEF IndInv, TypeOK
  <1>3. CASE quitFrame[r][q] = 0
    BY <1>1, <1>2, <1>3, AnnouncedCounts
  <1>4. CASE quitFrame[r][q] # 0
    BY <1>1, <1>4, AnnouncedCounts DEF Announced
  <1> QED BY <1>3, <1>4

\* What p puts on the wire is about what he issued and counted.
LEMMA AnnouncedMessages ==
  ASSUME IndInv, TypeOK', NEW p \in Player, Announced(p),
         NEW cs \in SUBSET Command, Send(p, cs),
         \A c \in cs :
           /\ c.player = p
           /\ p = PacketRouter => c.frame <= ExecutionFrame(p)
           /\ IF c.type = "FRAMEINFO"
                THEN /\ c.frame <= LastCounted(p)'
                     /\ c.arg = Cardinality(IssuedFor(p, c.frame)')
                ELSE c \in issued'
  PROVE  MessageInv'
  <1> SUFFICES ASSUME NEW q \in Player, NEW m \in inFlight'[q]
               PROVE  /\ m.cmd.player # q
                      /\ m.cmd.player \notin m.relay
                      /\ IF m.cmd.type = "FRAMEINFO"
                           THEN /\ m.cmd.frame <= LastCounted(m.cmd.player)'
                                /\ m.cmd.arg = Cardinality(IssuedFor(m.cmd.player, m.cmd.frame)')
                           ELSE m.cmd \in issued'
                      /\ q # PacketRouter =>
                           /\ m.relay \subseteq {q}
                           /\ m.cmd.frame <= lastFrameCompleted'[q] + 2 * MAX_RUNAHEAD + 2
    BY DEF MessageInv
  <1>1. TypeOK
    BY DEF IndInv
  <1>2. CASE m \in inFlight[q]
    <2>1. m.cmd.player \in Player /\ m.cmd.frame \in Nat
      BY <1>1, <1>2, MessageType
    <2>2. /\ m.cmd.player # q
          /\ m.cmd.player \notin m.relay
          /\ IF m.cmd.type = "FRAMEINFO"
               THEN /\ m.cmd.frame <= LastCounted(m.cmd.player)
                    /\ m.cmd.arg = Cardinality(IssuedFor(m.cmd.player, m.cmd.frame))
               ELSE m.cmd \in issued
          /\ q # PacketRouter =>
               /\ m.relay \subseteq {q}
               /\ m.cmd.frame <= lastFrameCompleted[q] + 2 * MAX_RUNAHEAD + 2
      BY <1>2 DEF IndInv, MessageInv
    <2>3. m.cmd.type = "FRAMEINFO" =>
            /\ m.cmd.frame <= LastCounted(m.cmd.player)'
            /\ IssuedFor(m.cmd.player, m.cmd.frame)' = IssuedFor(m.cmd.player, m.cmd.frame)
      BY <2>1, <2>2, AnnouncedCounts
    <2>4. issued \subseteq issued'
      BY DEF Announced
    <2>5. q # PacketRouter => m.cmd.frame <= lastFrameCompleted'[q] + 2 * MAX_RUNAHEAD + 2
      BY <2>1, <2>2, AnnouncedCounts, Sizes
    <2> QED BY <2>2, <2>3, <2>4, <2>5
  <1>3. CASE m \in SentTo(q, p, cs)
    <2>1. /\ m.cmd \in cs
          /\ q # p /\ p \notin m.relay
          /\ q # PacketRouter => m.relay = {q} /\ p = PacketRouter /\ quitFrame[p][q] = 0
      BY <1>3 DEF SentTo, Connected
    <2>2. ASSUME q # PacketRouter
          PROVE  m.cmd.frame <= lastFrameCompleted'[q] + 2 * MAX_RUNAHEAD + 2
      <3>1. frame[p] <= lastFrameCompleted[q] + 1
        BY <2>1, <2>2 DEF IndInv, SkewInv
      <3>2. m.cmd.frame <= frame[p] + MAX_RUNAHEAD /\ m.cmd.frame \in Nat
        <4>1. m.cmd.frame \in Nat
          BY <2>1 DEF Command
        <4>2. /\ m.cmd.frame <= ExecutionFrame(p)
              /\ ExecutionFrame(p) <= frame[p] + MAX_RUNAHEAD
              /\ ExecutionFrame(p) \in Nat /\ frame[p] \in Nat
          BY <1>1, <2>1, <2>2, InGameFrames, NumberTypes DEF Announced
        <4> QED BY <4>1, <4>2, Sizes
      <3>3. frame[p] \in Nat
        BY <1>1, NumberTypes
      <3> QED BY <3>1, <3>2, <3>3, AnnouncedCounts, Sizes
    <2> QED BY <2>1, <2>2
  <1> QED BY <1>2, <1>3 DEF Send

LEMMA AnnouncedWindow ==
  ASSUME IndInv, TypeOK', NEW p \in Player, Announced(p),
         localStatus'[p] = "LEAVING" => LastCounted(p)' <= ExecutionFrame(p) + 1,
         NEW r \in Player, localStatus'[r] # "LEFT"
  PROVE  /\ localStatus[r] # "LEFT" /\ WindowTop(r)' \in Int
         /\ WindowTop(r)' <= WindowTop(r) /\ WindowTop(r) \in Nat
  <1>1. localStatus[r] # "LEFT"
    BY DEF Announced
  <1>2. WindowTop(r) \in Nat
    BY <1>1, Window
  <1>3. CASE r # p
    <2>1. /\ LastCounted(r)' = LastCounted(r) /\ localStatus'[r] = localStatus[r]
          /\ frame'[r] = frame[r]
      BY <1>3, AnnouncedCounts DEF Announced
    <2>2. WindowTop(r)' = WindowTop(r)
      BY <2>1 DEF WindowTop
    <2> QED BY <1>1, <1>2, <2>2
  <1>4. CASE r = p /\ localStatus'[p] = "INGAME"
    <2>1. localStatus[p] = "INGAME" /\ frame'[p] = frame[p]
      BY DEF Announced
    <2>2. WindowTop(r)' = WindowTop(r)
      BY <1>4, <2>1 DEF WindowTop
    <2> QED BY <1>1, <1>2, <2>2
  <1>5. CASE r = p /\ localStatus'[p] = "LEAVING"
    <2>1. WindowTop(p)' = LastCounted(p)'
      BY <1>5 DEF WindowTop
    <2>2. /\ localStatus[p] = "INGAME" /\ frame[p] \in Nat /\ LastCounted(p)' \in Nat
      BY AnnouncedCounts, NumberTypes DEF Announced, IndInv
    <2>3. /\ ExecutionFrame(p) \in Nat
          /\ ExecutionFrame(p) <= frame[p] + MAX_RUNAHEAD
      BY <2>2, InGameFrames
    <2>4. frame[p] + 3 * MAX_RUNAHEAD <= WindowTop(p)
      BY <2>2, Window
    <2> QED BY <1>1, <1>2, <1>5, <2>1, <2>2, <2>3, <2>4, Sizes
  <1> QED BY <1>3, <1>4, <1>5 DEF Announced

LEMMA AnnouncedRings ==
  ASSUME IndInv, TypeOK', NEW p \in Player, Announced(p),
         localStatus'[p] = "LEAVING" => LastCounted(p)' <= ExecutionFrame(p) + 1,
         \A r, q \in Player : r # p \/ q # p => frameData'[r][q] = frameData[r][q],
         \A f \in frame[p] .. WindowTop(p) : SlotOK(p, p, f)'
  PROVE  RingInv'
  <1> SUFFICES ASSUME NEW r \in Player, localStatus'[r] # "LEFT",
                      NEW q \in Player, HasFrameData(r, q)',
                      NEW f \in frame'[r] .. WindowTop(r)'
               PROVE  SlotOK(r, q, f)'
    BY DEF RingInv
  <1>1. /\ localStatus[r] # "LEFT" /\ HasFrameData(r, q)
        /\ f \in frame[r] .. WindowTop(r) /\ f \in Nat
    <2>1. frame'[r] = frame[r] /\ frame[r] \in Nat /\ HasFrameData(r, q)
      BY NumberTypes DEF Announced, HasFrameData, IndInv
    <2> QED BY <2>1, AnnouncedWindow
  <1>2. CASE r = p /\ q = p
    BY <1>1, <1>2
  <1>3. CASE r # p \/ q # p
    <2> DEFINE fd == frameData[r][q][Slot(f)]
    <2>1. frameData'[r][q][Slot(f)] = fd
      BY <1>3
    <2>2. SlotOK(r, q, f)
      BY <1>1 DEF IndInv, RingInv
    <2>3. /\ fd.commandList \subseteq IssuedFor(q, f)
          /\ fd.commandCount = Cardinality(fd.commandList)
          /\ q = r => /\ fd.commandList = IssuedFor(q, f)
                      /\ fd.frameCommandCount = fd.commandCount
          /\ q # r /\ fd.frameCommandCount # NoCount =>
               /\ f <= LastCounted(q)
               /\ fd.frameCommandCount = Cardinality(IssuedFor(q, f))
      BY <2>2 DEF SlotOK
    <2>4. IssuedFor(q, f) \subseteq IssuedFor(q, f)'
      BY DEF IssuedFor, Announced
    <2>5. q = r => IssuedFor(q, f)' = IssuedFor(q, f)
      BY <1>1, <1>3, AnnouncedCounts
    <2>6. f <= LastCounted(q) =>
            f <= LastCounted(q)' /\ IssuedFor(q, f)' = IssuedFor(q, f)
      BY <1>1, AnnouncedCounts
    <2> HIDE DEF fd
    <2>7. /\ fd.commandList \subseteq IssuedFor(q, f)'
          /\ fd.commandCount = Cardinality(fd.commandList)
          /\ q = r => /\ fd.commandList = IssuedFor(q, f)'
                      /\ fd.frameCommandCount = fd.commandCount
          /\ q # r /\ fd.frameCommandCount # NoCount =>
               /\ f <= LastCounted(q)'
               /\ fd.frameCommandCount = Cardinality(IssuedFor(q, f)')
      BY <2>3, <2>4, <2>5, <2>6
    <2> QED BY <2>1, <2>7 DEF SlotOK
  <1> QED BY <1>2, <1>3

\* The slot fd holds exactly cs, and counts it.
Holds(fd, cs) ==
  /\ fd.commandList = cs
  /\ fd.commandCount = Cardinality(cs)
  /\ fd.frameCommandCount = Cardinality(cs)

LEMMA OwnSlot ==
  ASSUME IndInv, NEW p \in Player, localStatus[p] = "INGAME",
         NEW f \in frame[p] .. WindowTop(p)
  PROVE  Holds(frameData[p][p][Slot(f)], IssuedFor(p, f))
  <1>1. HasFrameData(p, p)
    BY DEF IndInv, SkewInv, HasFrameData
  <1>2. SlotOK(p, p, f)
    BY <1>1 DEF IndInv, RingInv
  <1> QED BY <1>2 DEF SlotOK, Holds

LEMMA AnnouncedCounters ==
  ASSUME IndInv, TypeOK', NEW p \in Player, Announced(p), runAhead' = runAhead,
         lastExecutionFrame' = [lastExecutionFrame EXCEPT ![p] = ExecutionFrame(p)],
         lastFrameCompleted'[p] <= ExecutionFrame(p),
         localStatus'[p] = "INGAME" => lastFrameCompleted'[p] < ExecutionFrame(p)
  PROVE  CountersInv'
  <1>1. TypeOK
    BY DEF IndInv
  <1> SUFFICES ASSUME NEW q \in Player
               PROVE  /\ frame[q] >= 1
                      /\ Len(executed[q]) = frame[q] - 1
                      /\ lastFrameCompleted'[q] <= lastExecutionFrame'[q]
                      /\ lastExecutionFrame'[q] <= frame[q] + MAX_RUNAHEAD
                      /\ localStatus'[q] # "LEFT" => frame[q] <= lastFrameCompleted'[q] + 1
                      /\ localStatus'[q] = "INGAME" =>
                           /\ lastFrameCompleted'[q] < frame[q] + MAX_RUNAHEAD
                           /\ \/ lastFrameCompleted'[q] < lastExecutionFrame'[q]
                              \/ lastFrameCompleted'[q] + 1 < frame[q] + runAhead[q]
    BY DEF CountersInv, Announced
  <1>2. CASE q # p
    <2>1. /\ lastFrameCompleted'[q] = lastFrameCompleted[q]
          /\ lastExecutionFrame'[q] = lastExecutionFrame[q]
          /\ localStatus'[q] = localStatus[q]
      BY <1>1, <1>2 DEF Announced, TypeOK
    <2> QED BY <2>1 DEF IndInv, CountersInv
  <1>3. CASE q = p
    <2>1. /\ frame[p] >= 1 /\ Len(executed[p]) = frame[p] - 1
      BY DEF IndInv, CountersInv
    <2>2. /\ ExecutionFrame(p) \in Nat /\ ExecutionFrame(p) <= frame[p] + MAX_RUNAHEAD
          /\ frame[p] <= lastFrameCompleted[p] + 1
      BY InGameFrames DEF Announced
    <2>3. lastExecutionFrame'[p] = ExecutionFrame(p)
      BY <1>1 DEF TypeOK
    <2>4. /\ frame[p] \in Nat /\ lastFrameCompleted[p] \in Nat
          /\ lastFrameCompleted'[p] \in Nat
          /\ lastFrameCompleted[p] <= lastFrameCompleted'[p]
      BY <1>1, NumberTypes, AnnouncedCounts
    <2>5. /\ lastFrameCompleted'[p] <= lastExecutionFrame'[p]
          /\ lastExecutionFrame'[p] <= frame[p] + MAX_RUNAHEAD
          /\ frame[p] <= lastFrameCompleted'[p] + 1
          /\ localStatus'[p] = "INGAME" =>
               /\ lastFrameCompleted'[p] < frame[p] + MAX_RUNAHEAD
               /\ lastFrameCompleted'[p] < lastExecutionFrame'[p]
      BY <2>2, <2>3, <2>4, Sizes
    <2> QED BY <1>3, <2>1, <2>5
  <1> QED BY <1>2, <1>3

LEMMA FrameTickInv ==
  ASSUME IndInv, NEW p \in Player, FrameTick(p)
  PROVE  IndInv'
  <1>1. TypeOK /\ TypeOK'
    BY FrameTickType DEF IndInv
  <1> DEFINE x == ExecutionFrame(p)
  <1>2. /\ localStatus[p] = "INGAME" /\ lastFrameCompleted[p] + 1 <= x - 1
        /\ lastExecutionFrame' = [lastExecutionFrame EXCEPT ![p] = x]
        /\ lastFrameCompleted' = [lastFrameCompleted EXCEPT ![p] = x - 1]
        /\ UNCHANGED <<frame, runAhead, localStatus, nextID, frameData, quitFrame,
                       issued, executed>>
        /\ Send(p, PendingFrameInfos(p))
    <2>1. x \in Nat /\ lastFrameCompleted[p] \in Nat
      BY <1>1, ExecutionFrameBounds, NumberTypes
    <2> QED BY <2>1 DEF FrameTick, PendingFrameInfos
  <1>3. /\ x \in Nat /\ frame[p] <= lastFrameCompleted[p] + 1
        /\ lastExecutionFrame[p] <= x /\ x <= frame[p] + MAX_RUNAHEAD
    BY <1>2, InGameFrames
  <1> HIDE DEF x
  <1>4. /\ lastExecutionFrame'[p] = x /\ lastFrameCompleted'[p] = x - 1
        /\ \A q \in Player \ {p} : /\ lastExecutionFrame'[q] = lastExecutionFrame[q]
                                   /\ lastFrameCompleted'[q] = lastFrameCompleted[q]
    BY <1>1, <1>2 DEF TypeOK
  <1>5. Announced(p)
    BY <1>1, <1>2, <1>3, <1>4, NumberTypes DEF Announced
  <1>6. CountersInv'
    <2>1. lastFrameCompleted'[p] <= x /\ lastFrameCompleted'[p] < x
      BY <1>3, <1>4
    <2> QED BY <1>1, <1>2, <1>5, <2>1, AnnouncedCounters DEF x
  <1>7. IssuedInv'
    <2>1. \A q \in Player : localStatus[q] # "INGAME" => LastCounted(q)' = LastCounted(q)
      BY <1>1, <1>2, <1>5, AnnouncedCounts
    <2>2. \A q \in Player : /\ lastExecutionFrame[q] <= lastExecutionFrame'[q]
                            /\ lastExecutionFrame[q] \in Nat
                            /\ lastExecutionFrame'[q] \in Nat
      BY <1>1, <1>3, <1>4, NumberTypes
    <2>3. \A c \in issued : c.player \in Player /\ c.frame \in Nat
      BY <1>1 DEF TypeOK, Command
    <2> QED BY <1>2, <2>1, <2>2, <2>3 DEF IndInv, IssuedInv
  <1>8. LeaveInv'
    <2>1. \A q \in Player : localStatus[q] # "INGAME" => LastCounted(q)' = LastCounted(q)
      BY <1>1, <1>2, <1>5, AnnouncedCounts
    <2> QED BY <1>2, <2>1 DEF IndInv, LeaveInv
  <1>9. SkewInv'
    BY <1>1, <1>5, AnnouncedSkew
  <1>10. MessageInv'
    <2>1. PendingFrameInfos(p) \in SUBSET Command
      BY <1>1, PendingFrameInfosType
    <2>2. ASSUME NEW c \in PendingFrameInfos(p)
          PROVE  /\ c.player = p
                 /\ p = PacketRouter => c.frame <= ExecutionFrame(p)
                 /\ IF c.type = "FRAMEINFO"
                      THEN /\ c.frame <= LastCounted(p)'
                           /\ c.arg = Cardinality(IssuedFor(p, c.frame)')
                      ELSE c \in issued'
      <3>1. PICK f \in (lastFrameCompleted[p] + 1) .. (x - 1) :
                    c = FrameInfo(p, f, LocalCount(p, f))
        BY <2>2 DEF PendingFrameInfos, x
      <3>2. f \in Nat /\ f \in frame[p] .. WindowTop(p)
        BY <1>1, <1>2, <1>3, Window, NumberTypes, Sizes
      <3>3. LocalCount(p, f) = Cardinality(IssuedFor(p, f))
        BY <1>2, <3>2, OwnSlot DEF LocalCount, Holds
      <3>4. IssuedFor(p, f)' = IssuedFor(p, f)
        BY <1>2 DEF IssuedFor
      <3>5. LastCounted(p)' = x - 1
        BY <1>2, <1>4 DEF LastCounted
      <3>6. c.player = p /\ c.type = "FRAMEINFO" /\ c.frame = f /\ c.arg = LocalCount(p, f)
        BY <3>1 DEF FrameInfo
      <3> QED BY <1>3, <3>2, <3>3, <3>4, <3>5, <3>6 DEF x
    <2> QED BY <1>1, <1>2, <1>5, <2>1, <2>2, AnnouncedMessages
  <1>11. RingInv'
    <2>1. \A f \in frame[p] .. WindowTop(p) : SlotOK(p, p, f)'
      <3> TAKE f \in frame[p] .. WindowTop(p)
      <3>1. IssuedFor(p, f)' = IssuedFor(p, f) /\ frameData' = frameData
        BY <1>2 DEF IssuedFor
      <3> QED BY <1>2, <3>1, OwnSlot DEF SlotOK, Holds
    <2>2. localStatus'[p] # "LEAVING"
      BY <1>2
    <2> QED BY <1>1, <1>2, <1>5, <2>1, <2>2, AnnouncedRings
  <1>12. FrozenInv'
    BY <1>1, <1>5, AnnouncedFrozen
  <1> QED BY <1>1, <1>6, <1>7, <1>8, <1>9, <1>10, <1>11, <1>12 DEF IndInv

-----------------------------------------------------------------------------
(* The three actions that issue a command.                                  *)

\* p's next synchronized command: for his execution frame, or one later.
NextCommand(p, c) ==
  /\ localStatus[p] = "INGAME"
  /\ c \in Command /\ c.player = p /\ c.id = nextID[p] /\ c.type # "FRAMEINFO"
  /\ c.frame \in {ExecutionFrame(p), ExecutionFrame(p) + 1}

LEMMA OwnRing ==
  ASSUME NEW ring \in FrameRings(Command), NEW c \in Command
  PROVE  /\ \A k \in FrameIndex \ {Slot(c.frame)} :
              addNetCommandMsg(ring, c, TRUE)[k] = ring[k]
         /\ addNetCommandMsg(ring, c, TRUE)[Slot(c.frame)] =
              [frameCommandCount |-> addCommand(ring[Slot(c.frame)], c).commandCount,
               commandCount |-> addCommand(ring[Slot(c.frame)], c).commandCount,
               commandList |-> addCommand(ring[Slot(c.frame)], c).commandList]
  <1>1. c.frame \in Int
    BY DEF Command
  <1>2. \A k \in FrameIndex \ {Slot(c.frame)} :
          addNetCommandMsg(ring, c, TRUE)[k] = ring[k]
    <2> TAKE k \in FrameIndex \ {Slot(c.frame)}
    <2>1. DOMAIN ring = FrameIndex
      BY DEF FrameRings
    <2> HIDE DEF FrameIndex, Slot, addCommand
    <2> QED BY <2>1, Zenon DEF addNetCommandMsg
  <1>3. addNetCommandMsg(ring, c, TRUE)[Slot(c.frame)] =
          [frameCommandCount |-> addCommand(ring[Slot(c.frame)], c).commandCount,
           commandCount |-> addCommand(ring[Slot(c.frame)], c).commandCount,
           commandList |-> addCommand(ring[Slot(c.frame)], c).commandList]
    BY <1>1, AddOwnNetCommandMsg, Zenon
  <1> QED BY <1>2, <1>3

LEMMA IssuedOwnSlots ==
  ASSUME IndInv, NEW p \in Player, NEW c, NextCommand(p, c),
         NEW f \in frame[p] .. WindowTop(p)
  PROVE  Holds(addNetCommandMsg(frameData[p][p], c, TRUE)[Slot(f)],
               {d \in issued \cup {c} : d.player = p /\ d.frame = f})
  <1> DEFINE mine == addNetCommandMsg(frameData[p][p], c, TRUE)
             old  == frameData[p][p][Slot(c.frame)]
             new  == {d \in issued \cup {c} : d.player = p /\ d.frame = f}
  <1>1. TypeOK
    BY DEF IndInv
  <1>2. frameData[p][p] \in FrameRings(Command)
    BY <1>1 DEF TypeOK
  <1>3. c \in Command /\ c.frame \in Int /\ c.player = p
    BY DEF NextCommand, Command
  <1>4. c.frame \in frame[p] .. WindowTop(p)
    <2>1. /\ ExecutionFrame(p) \in Nat /\ frame[p] \in Nat /\ WindowTop(p) \in Nat
          /\ lastFrameCompleted[p] \in Nat
          /\ frame[p] <= lastFrameCompleted[p] + 1
          /\ lastFrameCompleted[p] + 1 <= ExecutionFrame(p)
          /\ ExecutionFrame(p) <= frame[p] + MAX_RUNAHEAD
          /\ frame[p] + 3 * MAX_RUNAHEAD <= WindowTop(p)
      BY <1>1, InGameFrames, NumberTypes, Window DEF NextCommand
    <2>2. c.frame = ExecutionFrame(p) \/ c.frame = ExecutionFrame(p) + 1
      BY DEF NextCommand
    <2> QED BY <2>1, <2>2, Sizes
  <1>5. /\ \A k \in FrameIndex \ {Slot(c.frame)} : mine[k] = frameData[p][p][k]
        /\ mine[Slot(c.frame)] =
              [frameCommandCount |-> addCommand(old, c).commandCount,
               commandCount |-> addCommand(old, c).commandCount,
               commandList |-> addCommand(old, c).commandList]
    <2> DEFINE ring == frameData[p][p]
    <2>1. ring \in FrameRings(Command) /\ c \in Command
      BY <1>2, <1>3
    <2> HIDE DEF ring
    <2>2. \A k \in FrameIndex \ {Slot(c.frame)} :
            addNetCommandMsg(ring, c, TRUE)[k] = ring[k]
      BY <2>1, OwnRing, Zenon
    <2>3. addNetCommandMsg(ring, c, TRUE)[Slot(c.frame)] =
            [frameCommandCount |-> addCommand(ring[Slot(c.frame)], c).commandCount,
             commandCount |-> addCommand(ring[Slot(c.frame)], c).commandCount,
             commandList |-> addCommand(ring[Slot(c.frame)], c).commandList]
      BY <2>1, OwnRing, Zenon
    <2> QED BY <2>2, <2>3 DEF ring
  <1>6. Slot(f) \in FrameIndex /\ Slot(c.frame) \in FrameIndex
    BY <1>3, SlotType
  <1>7. /\ localStatus[p] = "INGAME" /\ c \notin issued
    <2>1. nextID[p] \in Nat /\ c.id = nextID[p]
      BY <1>1, NumberTypes DEF NextCommand
    <2>2. c \in issued => c.id < nextID[p]
      BY <1>3 DEF IndInv, IssuedInv
    <2> QED BY <2>1, <2>2 DEF NextCommand
  <1> HIDE DEF mine
  <1>8. CASE f # c.frame
    <2>1. Slot(f) # Slot(c.frame)
      BY <1>4, <1>7, <1>8, Window
    <2>2. mine[Slot(f)] = frameData[p][p][Slot(f)]
      BY <1>5, <1>6, <2>1
    <2>3. new = IssuedFor(p, f)
      BY <1>8 DEF IssuedFor
    <2>4. Holds(frameData[p][p][Slot(f)], IssuedFor(p, f))
      BY <1>7, OwnSlot
    <2> HIDE DEF new
    <2> QED BY <2>2, <2>3, <2>4 DEF mine, new
  <1>9. CASE f = c.frame
    <2>1. /\ old.commandList = IssuedFor(p, f)
          /\ old.commandCount = Cardinality(IssuedFor(p, f))
      BY <1>7, <1>9, OwnSlot DEF Holds
    <2>2. old \in FrameDatas(Command)
      BY <1>2, <1>6 DEF FrameRings
    <2>3. c \notin IssuedFor(p, f)
      BY <1>7 DEF IssuedFor
    <2> HIDE DEF old
    <2>4. /\ addCommand(old, c).commandList = IssuedFor(p, f) \cup {c}
          /\ addCommand(old, c).commandCount = Cardinality(IssuedFor(p, f)) + 1
      BY <1>3, <2>1, <2>2, <2>3, AddCommand
    <2>5. new = IssuedFor(p, f) \cup {c}
      BY <1>3, <1>9 DEF IssuedFor
    <2>6. IsFiniteSet(IssuedFor(p, f))
      <3>1. IsFiniteSet(issued) /\ IssuedFor(p, f) \subseteq issued
        BY DEF IndInv, IssuedInv, IssuedFor
      <3> QED BY <3>1, FS_Subset
    <2>7. Cardinality(IssuedFor(p, f) \cup {c}) = Cardinality(IssuedFor(p, f)) + 1
      BY <2>3, <2>6, FS_AddElement
    <2> HIDE DEF new
    <2>8. /\ mine[Slot(f)].commandList = new
          /\ mine[Slot(f)].commandCount = Cardinality(new)
          /\ mine[Slot(f)].frameCommandCount = Cardinality(new)
      BY <1>5, <1>9, <2>4, <2>5, <2>7
    <2> QED BY <2>8 DEF mine, new, Holds
  <1> QED BY <1>8, <1>9

LEMMA IssueKeepsIssued ==
  ASSUME IndInv, TypeOK', NEW p \in Player, Announced(p),
         NEW c, NextCommand(p, c),
         nextID' = [nextID EXCEPT ![p] = @ + 1], issued' = issued \cup {c},
         lastExecutionFrame' = [lastExecutionFrame EXCEPT ![p] = ExecutionFrame(p)],
         IF localStatus'[p] = "INGAME" THEN c.frame = ExecutionFrame(p)
                                       ELSE LastCounted(p)' = ExecutionFrame(p) + 1,
         c.type = "RUNAHEAD" => p = PacketRouter /\ c.arg \in RunAheads,
         c.type = "PLAYERLEAVE" =>
           localStatus'[p] # "INGAME" /\ c.frame = LastCounted(p)'
  PROVE  IssuedInv'
  <1>1. TypeOK /\ nextID[p] \in Nat /\ lastExecutionFrame[p] \in Nat
    BY NumberTypes DEF IndInv
  <1>2. /\ ExecutionFrame(p) \in Nat /\ lastExecutionFrame[p] <= ExecutionFrame(p)
        /\ lastExecutionFrame'[p] = ExecutionFrame(p)
        /\ nextID'[p] = nextID[p] + 1
    BY <1>1, InGameFrames DEF NextCommand, TypeOK
  <1>3. IsFiniteSet(issued')
    BY FS_AddElement DEF IndInv, IssuedInv
  <1>4. ASSUME NEW d \in issued'
        PROVE  /\ d.type # "FRAMEINFO"
               /\ d.id < nextID'[d.player]
               /\ IF localStatus'[d.player] = "INGAME"
                    THEN d.frame <= lastExecutionFrame'[d.player]
                    ELSE d.frame <= LastCounted(d.player)'
               /\ d.type = "RUNAHEAD" => d.player = PacketRouter /\ d.arg \in RunAheads
               /\ d.type = "PLAYERLEAVE" =>
                    /\ localStatus'[d.player] # "INGAME"
                    /\ d.frame = LastCounted(d.player)'
    <2>1. CASE d = c
      <3>1. d.player = p /\ d.id = nextID[p] /\ d.type # "FRAMEINFO"
        BY <2>1 DEF NextCommand
      <3>2. d.frame <= ExecutionFrame(p) + 1 /\ d.frame \in Nat
        BY <1>2, <2>1 DEF NextCommand
      <3>3. d.id < nextID'[p]
        BY <1>1, <1>2, <3>1
      <3> QED BY <1>2, <2>1, <3>1, <3>2, <3>3
    <2>2. CASE d \in issued
      <3>1. /\ d.type # "FRAMEINFO"
            /\ d.id < nextID[d.player]
            /\ IF localStatus[d.player] = "INGAME"
                 THEN d.frame <= lastExecutionFrame[d.player]
                 ELSE d.frame <= LastCounted(d.player)
            /\ d.type = "RUNAHEAD" => d.player = PacketRouter /\ d.arg \in RunAheads
            /\ d.type = "PLAYERLEAVE" =>
                 localStatus[d.player] # "INGAME" /\ d.frame = LastCounted(d.player)
        BY <2>2 DEF IndInv, IssuedInv
      <3>2. d.player \in Player /\ d.frame \in Nat /\ d.id \in Nat
        BY <1>1, <2>2 DEF TypeOK, Command
      <3>3. CASE d.player # p
        <4>1. /\ nextID'[d.player] = nextID[d.player]
              /\ lastExecutionFrame'[d.player] = lastExecutionFrame[d.player]
              /\ localStatus'[d.player] = localStatus[d.player]
          BY <1>1, <3>2, <3>3 DEF Announced, TypeOK
        <4>2. LastCounted(d.player)' = LastCounted(d.player)
          BY <3>2, <3>3, AnnouncedCounts
        <4> QED BY <3>1, <4>1, <4>2
      <3>4. CASE d.player = p
        <4>1. localStatus[p] = "INGAME"
          BY DEF Announced
        <4>2. /\ d.id < nextID'[p] /\ d.frame <= ExecutionFrame(p)
              /\ d.frame <= ExecutionFrame(p) + 1
          BY <1>1, <1>2, <3>1, <3>2, <3>4, <4>1
        <4> QED BY <1>2, <3>1, <3>4, <4>1, <4>2
      <3> QED BY <3>3, <3>4
    <2> QED BY <2>1, <2>2
  <1> QED BY <1>3, <1>4 DEF IssuedInv

\* What the three actions have in common.
LEMMA IssueStep ==
  ASSUME IndInv, TypeOK', NEW p \in Player, NEW c, NextCommand(p, c),
         NEW cs \in SUBSET Command, Issue(p, c, cs),
         UNCHANGED <<frame, runAhead, quitFrame, executed>>,
         lastExecutionFrame' = [lastExecutionFrame EXCEPT ![p] = ExecutionFrame(p)],
         \A q \in Player \ {p} : /\ localStatus'[q] = localStatus[q]
                                 /\ lastFrameCompleted'[q] = lastFrameCompleted[q],
         IF localStatus'[p] = "INGAME"
           THEN /\ lastFrameCompleted'[p] = lastFrameCompleted[p]
                /\ c.frame = ExecutionFrame(p) /\ c.type # "PLAYERLEAVE"
           ELSE /\ localStatus'[p] = "LEAVING" /\ p # PacketRouter
                /\ lastFrameCompleted'[p] = ExecutionFrame(p)
                /\ c.frame = ExecutionFrame(p) + 1 /\ c.type = "PLAYERLEAVE",
         c.type = "RUNAHEAD" => p = PacketRouter /\ c.arg \in RunAheads,
         \A d \in cs : /\ d.player = p /\ d.type = "FRAMEINFO"
                       /\ p = PacketRouter => d.frame <= ExecutionFrame(p)
                       /\ d.frame <= LastCounted(p)'
                       /\ d.arg = Cardinality(IssuedFor(p, d.frame)')
  PROVE  IndInv'
  <1>1. TypeOK /\ localStatus[p] = "INGAME"
    BY DEF IndInv, NextCommand
  <1>2. /\ ExecutionFrame(p) \in Nat /\ lastFrameCompleted[p] \in Nat
        /\ lastFrameCompleted[p] + 1 <= ExecutionFrame(p)
    BY <1>1, InGameFrames, NumberTypes
  <1>3. /\ c \in Command /\ c.player = p /\ c.type # "FRAMEINFO" /\ c.frame \in Nat
        /\ c.frame > lastFrameCompleted[p]
    BY <1>2 DEF NextCommand, Command
  <1>4. /\ issued' = issued \cup {c}
        /\ nextID' = [nextID EXCEPT ![p] = @ + 1]
        /\ frameData' = [frameData EXCEPT ![p][p] = addNetCommandMsg(@, c, TRUE)]
        /\ Send(p, {c} \cup cs)
    BY DEF Issue
  <1>5. Announced(p)
    BY <1>1, <1>2, <1>3, <1>4 DEF Announced
  <1>6. localStatus'[p] # "INGAME" => LastCounted(p)' = ExecutionFrame(p) + 1
    BY DEF LastCounted
  <1>7. CountersInv'
    <2>1. /\ lastFrameCompleted'[p] <= ExecutionFrame(p)
          /\ localStatus'[p] = "INGAME" => lastFrameCompleted'[p] < ExecutionFrame(p)
      BY <1>2
    <2> QED BY <1>5, <2>1, AnnouncedCounters
  <1>8. IssuedInv'
    BY <1>4, <1>5, <1>6, IssueKeepsIssued
  <1>9. LeaveInv'
    <2> SUFFICES ASSUME NEW q \in Player, localStatus'[q] # "INGAME"
                 PROVE  /\ q # PacketRouter
                        /\ \E d \in issued' : /\ d.type = "PLAYERLEAVE" /\ d.player = q
                                              /\ d.frame = LastCounted(q)'
      BY DEF LeaveInv
    <2>1. CASE q = p
      BY <1>3, <1>4, <1>6, <2>1
    <2>2. CASE q # p
      <3>1. localStatus[q] # "INGAME" /\ LastCounted(q)' = LastCounted(q)
        BY <1>5, <2>2, AnnouncedCounts
      <3> QED BY <1>4, <3>1 DEF IndInv, LeaveInv
    <2> QED BY <2>1, <2>2
  <1>10. SkewInv'
    BY <1>5, AnnouncedSkew
  <1>11. MessageInv'
    <2>1. {c} \cup cs \in SUBSET Command
      BY <1>3
    <2>2. ASSUME NEW d \in {c} \cup cs
          PROVE  /\ d.player = p
                 /\ p = PacketRouter => d.frame <= ExecutionFrame(p)
                 /\ IF d.type = "FRAMEINFO"
                      THEN /\ d.frame <= LastCounted(p)'
                           /\ d.arg = Cardinality(IssuedFor(p, d.frame)')
                      ELSE d \in issued'
      <3>1. CASE d = c
        <4>1. p = PacketRouter => c.frame <= ExecutionFrame(p)
          BY <1>2
        <4> QED BY <1>3, <1>4, <3>1, <4>1
      <3>2. CASE d \in cs
        BY <3>2
      <3> QED BY <3>1, <3>2
    <2> QED BY <1>4, <1>5, <2>1, <2>2, AnnouncedMessages
  <1>12. RingInv'
    <2>1. localStatus'[p] = "LEAVING" => LastCounted(p)' <= ExecutionFrame(p) + 1
      BY <1>2, <1>6
    <2>0. frameData \in [Player -> [Player -> FrameRings(Command)]]
      BY <1>1 DEF TypeOK
    <2>2. \A r, q \in Player : r # p \/ q # p => frameData'[r][q] = frameData[r][q]
      BY <1>4, <2>0
    <2>3. frameData'[p][p] = addNetCommandMsg(frameData[p][p], c, TRUE)
      BY <1>4, <2>0
    <2>4. ASSUME NEW f \in frame[p] .. WindowTop(p)
          PROVE  SlotOK(p, p, f)'
      <3>1. IssuedFor(p, f)' = {d \in issued \cup {c} : d.player = p /\ d.frame = f}
        BY <1>4 DEF IssuedFor
      <3>2. Holds(addNetCommandMsg(frameData[p][p], c, TRUE)[Slot(f)],
                  {d \in issued \cup {c} : d.player = p /\ d.frame = f})
        BY <2>4, IssuedOwnSlots
      <3>3. Holds(frameData'[p][p][Slot(f)], IssuedFor(p, f)')
        BY <2>3, <3>1, <3>2
      <3> QED BY <3>3 DEF SlotOK, Holds
    <2> QED BY <1>5, <2>1, <2>2, <2>4, AnnouncedRings
  <1>13. FrozenInv'
    BY <1>5, AnnouncedFrozen
  <1> QED BY <1>7, <1>8, <1>9, <1>10, <1>11, <1>12, <1>13 DEF IndInv

LEMMA SendLocalGameMessageInv ==
  ASSUME IndInv, NEW p \in Player, SendLocalGameMessage(p)
  PROVE  IndInv'
  <1>1. TypeOK /\ TypeOK' /\ localStatus[p] = "INGAME"
    BY SendLocalGameMessageType DEF IndInv, SendLocalGameMessage
  <1>2. ExecutionFrame(p) \in Nat
    BY <1>1, ExecutionFrameBounds
  <1>3. /\ NextCommand(p, GameCommand(p))
        /\ GameCommand(p).type = "GAMECOMMAND"
        /\ GameCommand(p).frame = ExecutionFrame(p)
    BY <1>1, <1>2 DEF NextCommand, GameCommand, Command, CommandType, TypeOK
  <1>4. /\ Issue(p, GameCommand(p), {})
        /\ lastExecutionFrame' = [lastExecutionFrame EXCEPT ![p] = ExecutionFrame(p)]
        /\ UNCHANGED <<frame, runAhead, lastFrameCompleted, localStatus, quitFrame, executed>>
    BY DEF SendLocalGameMessage
  <1> HIDE DEF GameCommand
  <1> DEFINE none == {}
  <1>8. /\ none \in SUBSET Command /\ \A d \in none : FALSE
        /\ localStatus'[p] = "INGAME" /\ lastFrameCompleted'[p] = lastFrameCompleted[p]
        /\ \A q \in Player \ {p} : /\ localStatus'[q] = localStatus[q]
                                   /\ lastFrameCompleted'[q] = lastFrameCompleted[q]
    BY <1>1, <1>4
  <1> HIDE DEF none
  <1> QED BY <1>1, <1>3, <1>4, <1>8, IssueStep DEF none

LEMMA UpdateRunAheadInv ==
  ASSUME IndInv, NEW p \in Player, UpdateRunAhead(p)
  PROVE  IndInv'
  <1>1. TypeOK /\ TypeOK' /\ localStatus[p] = "INGAME" /\ p = PacketRouter
    BY UpdateRunAheadType DEF IndInv, UpdateRunAhead
  <1>2. PICK r \in NewRunAheads : Issue(p, RunAheadCommand(p, r), {})
    BY DEF UpdateRunAhead
  <1> DEFINE c == RunAheadCommand(p, r)
  <1>3. /\ ExecutionFrame(p) \in Nat
        /\ frame[p] \in Nat /\ runAhead[p] \in Nat
        /\ frame[p] + runAhead[p] <= ExecutionFrame(p)
    BY <1>1, ExecutionFrameBounds, NumberTypes
  <1>4. r \in RunAheads /\ r \in Nat
    BY RunAheadRange DEF NewRunAheads
  <1>5. c = [type |-> "RUNAHEAD", player |-> p, id |-> nextID[p],
             frame |-> ExecutionFrame(p), arg |-> r]
    BY <1>3 DEF RunAheadCommand
  <1>6. /\ NextCommand(p, c)
        /\ c.type = "RUNAHEAD" /\ c.frame = ExecutionFrame(p) /\ c.arg \in RunAheads
    <2>1. nextID[p] \in Nat
      BY <1>1, NumberTypes
    <2> HIDE DEF c
    <2> QED BY <1>1, <1>3, <1>4, <1>5, <2>1 DEF NextCommand, Command, CommandType
  <1>7. /\ Issue(p, c, {})
        /\ lastExecutionFrame' = [lastExecutionFrame EXCEPT ![p] = ExecutionFrame(p)]
        /\ UNCHANGED <<frame, runAhead, lastFrameCompleted, localStatus, quitFrame, executed>>
    BY <1>2 DEF UpdateRunAhead
  <1> HIDE DEF c
  <1> DEFINE none == {}
  <1>8. /\ none \in SUBSET Command /\ \A d \in none : FALSE
        /\ localStatus'[p] = "INGAME" /\ lastFrameCompleted'[p] = lastFrameCompleted[p]
        /\ \A q \in Player \ {p} : /\ localStatus'[q] = localStatus[q]
                                   /\ lastFrameCompleted'[q] = lastFrameCompleted[q]
    BY <1>1, <1>7
  <1> HIDE DEF none
  <1> QED BY <1>1, <1>6, <1>7, <1>8, IssueStep DEF none

LEMMA ClearGameDataInv ==
  ASSUME IndInv, NEW p \in Player, ClearGameData(p)
  PROVE  IndInv'
  <1> DEFINE c    == PlayerLeaveCommand(p)
             cs   == PendingFrameInfos(p) \cup LeaveFrameInfos(p)
             x    == ExecutionFrame(p)
             mine == addNetCommandMsg(frameData[p][p], c, TRUE)
  <1>1. TypeOK /\ TypeOK' /\ localStatus[p] = "INGAME" /\ p # PacketRouter
    BY ClearGameDataType, LockstepAssumption DEF IndInv, ClearGameData
  <1>2. /\ x \in Nat /\ frame[p] \in Nat /\ lastFrameCompleted[p] \in Nat
        /\ WindowTop(p) \in Nat
        /\ frame[p] <= lastFrameCompleted[p] + 1
        /\ lastFrameCompleted[p] + 1 <= x
        /\ x <= frame[p] + MAX_RUNAHEAD
        /\ frame[p] + 3 * MAX_RUNAHEAD <= WindowTop(p)
    BY <1>1, InGameFrames, NumberTypes, Window
  <1>3. NextCommand(p, c) /\ c.type = "PLAYERLEAVE" /\ c.frame = x + 1
    <2>1. c.id = nextID[p]
      BY DEF PlayerLeaveCommand
    <2> QED BY <1>1, <2>1, PlayerLeaveCommandType DEF NextCommand
  <1>4. /\ Issue(p, c, cs)
        /\ lastExecutionFrame' = [lastExecutionFrame EXCEPT ![p] = x]
        /\ lastFrameCompleted' = [lastFrameCompleted EXCEPT ![p] = x]
        /\ localStatus' = [localStatus EXCEPT ![p] = "LEAVING"]
        /\ UNCHANGED <<frame, runAhead, quitFrame, executed>>
    BY DEF ClearGameData
  <1>5. cs \in SUBSET Command
    BY <1>1, PendingFrameInfosType, LeaveFrameInfosType
  <1>6. /\ localStatus'[p] = "LEAVING" /\ lastFrameCompleted'[p] = x
        /\ \A q \in Player \ {p} : /\ localStatus'[q] = localStatus[q]
                                   /\ lastFrameCompleted'[q] = lastFrameCompleted[q]
        /\ LastCounted(p)' = x + 1
    BY <1>1, <1>4 DEF TypeOK, LastCounted
  <1> HIDE DEF c
  <1>7. issued' = issued \cup {c}
    BY <1>4 DEF Issue
  <1>8. ASSUME NEW d \in cs
        PROVE  /\ d.player = p /\ d.type = "FRAMEINFO"
               /\ d.frame <= LastCounted(p)'
               /\ d.arg = Cardinality(IssuedFor(p, d.frame)')
    <2>1. CASE d \in PendingFrameInfos(p)
      <3>1. PICK f \in (lastFrameCompleted[p] + 1) .. (x - 1) :
                    d = FrameInfo(p, f, LocalCount(p, f))
        BY <2>1 DEF PendingFrameInfos
      <3>2. f \in frame[p] .. WindowTop(p) /\ f \in Nat /\ f # x + 1 /\ f <= x + 1
        BY <1>2, Sizes
      <3>3. Holds(frameData[p][p][Slot(f)], IssuedFor(p, f))
        BY <1>1, <3>2, OwnSlot
      <3>4. IssuedFor(p, f)' = IssuedFor(p, f)
        BY <1>3, <1>7, <3>2 DEF IssuedFor
      <3>5. /\ d.player = p /\ d.type = "FRAMEINFO" /\ d.frame = f
            /\ d.arg = frameData[p][p][Slot(f)].commandCount
        BY <3>1 DEF FrameInfo, LocalCount
      <3> QED BY <1>6, <3>2, <3>3, <3>4, <3>5 DEF Holds
    <2>2. CASE d \in LeaveFrameInfos(p)
      <3>1. PICK f \in LeaveFrames(p) : d = FrameInfo(p, f, mine[Slot(f)].commandCount)
        BY <2>2 DEF LeaveFrameInfos, c
      <3>2. f \in frame[p] .. WindowTop(p) /\ f \in Nat /\ f <= x + 1
        <4>1. f = x \/ f = x + 1
          BY DEF LeaveFrames
        <4> QED BY <1>2, <4>1, Sizes
      <3>3. Holds(mine[Slot(f)], {e \in issued \cup {c} : e.player = p /\ e.frame = f})
        BY <1>3, <3>2, IssuedOwnSlots
      <3>4. IssuedFor(p, f)' = {e \in issued \cup {c} : e.player = p /\ e.frame = f}
        BY <1>7 DEF IssuedFor
      <3>5. /\ d.player = p /\ d.type = "FRAMEINFO" /\ d.frame = f
            /\ d.arg = mine[Slot(f)].commandCount
        BY <3>1 DEF FrameInfo
      <3> HIDE DEF mine
      <3> QED BY <1>6, <3>2, <3>3, <3>4, <3>5 DEF Holds
    <2> QED BY <2>1, <2>2
  <1> HIDE DEF cs, x
  <1> QED BY <1>1, <1>3, <1>4, <1>5, <1>6, <1>8, IssueStep DEF x

-----------------------------------------------------------------------------
(* Receiving changes one slot of the sender's ring, inside the window, and  *)
(* at the packet router relays.                                             *)

\* What the wire says about a message to p.
LEMMA MessageFacts ==
  ASSUME IndInv, NEW p \in Player, NEW m \in inFlight[p]
  PROVE  /\ m.cmd.player \in Player /\ m.cmd.player # p /\ m.cmd.player \notin m.relay
         /\ m.cmd \in Command /\ m.cmd.frame \in Nat /\ m.cmd.arg \in Nat
         /\ IF m.cmd.type = "FRAMEINFO"
              THEN /\ m.cmd.frame <= LastCounted(m.cmd.player)
                   /\ m.cmd.arg = Cardinality(IssuedFor(m.cmd.player, m.cmd.frame))
              ELSE m.cmd \in issued
         /\ p # PacketRouter =>
              /\ m.relay \subseteq {p}
              /\ m.cmd.frame <= lastFrameCompleted[p] + 2 * MAX_RUNAHEAD + 2
         /\ m.cmd.frame <= frame[m.cmd.player] + MAX_RUNAHEAD + 1
  <1>1. /\ m.cmd.player \in Player /\ m.cmd \in Command
        /\ m.cmd.frame \in Nat /\ m.cmd.arg \in Nat
    BY MessageType DEF IndInv
  <1>2. /\ m.cmd.player # p /\ m.cmd.player \notin m.relay
        /\ IF m.cmd.type = "FRAMEINFO"
             THEN /\ m.cmd.frame <= LastCounted(m.cmd.player)
                  /\ m.cmd.arg = Cardinality(IssuedFor(m.cmd.player, m.cmd.frame))
             ELSE m.cmd \in issued
        /\ p # PacketRouter =>
             /\ m.relay \subseteq {p}
             /\ m.cmd.frame <= lastFrameCompleted[p] + 2 * MAX_RUNAHEAD + 2
    BY DEF IndInv, MessageInv
  <1>3. m.cmd.frame <= frame[m.cmd.player] + MAX_RUNAHEAD + 1
    <2>1. \/ m.cmd.frame <= LastCounted(m.cmd.player)
          \/ \E c \in issued : c.player = m.cmd.player /\ c.frame = m.cmd.frame
      BY <1>2
    <2> QED BY <1>1, <2>1, CommandFrames
  <1> QED BY <1>1, <1>2, <1>3

\* What p may be sent is less than a ring ahead of him.
LEMMA MessageReach ==
  ASSUME IndInv, NEW p \in Player, localStatus[p] # "LEFT", NEW m \in inFlight[p]
  PROVE  m.cmd.frame < frame[p] + FRAME_DATA_LENGTH
  <1> DEFINE g == m.cmd.frame
             s == m.cmd.player
  <1>1. /\ s \in Player /\ g \in Nat /\ g <= frame[s] + MAX_RUNAHEAD + 1
        /\ p # PacketRouter => g <= lastFrameCompleted[p] + 2 * MAX_RUNAHEAD + 2
    BY MessageFacts
  <1> HIDE DEF g, s
  <1>2. /\ frame[s] \in Nat /\ frame[p] \in Nat
        /\ lastFrameCompleted[p] \in Nat /\ lastExecutionFrame[p] \in Nat
    BY <1>1, NumberTypes DEF IndInv
  <1>3. CASE p = PacketRouter
    <2>1. frame[s] <= frame[p] + MAX_RUNAHEAD
      BY <1>1, <1>3, Router
    <2> QED BY <1>1, <1>2, <2>1, Sizes DEF g
  <1>4. CASE p # PacketRouter
    <2>1. /\ lastFrameCompleted[p] <= lastExecutionFrame[p]
          /\ lastExecutionFrame[p] <= frame[p] + MAX_RUNAHEAD
      BY DEF IndInv, CountersInv
    <2> QED BY <1>1, <1>2, <1>4, <2>1, Sizes DEF g
  <1> QED BY <1>3, <1>4

LEMMA RelayedMessages ==
  ASSUME IndInv, NEW p \in Player, NEW m \in inFlight[p],
         NEW q \in Player, NEW n \in Relayed(p, m, q)
  PROVE  /\ n.cmd = m.cmd /\ n.relay = {q} /\ q # m.cmd.player
         /\ q # PacketRouter
         /\ m.cmd.frame <= lastFrameCompleted[q] + 2 * MAX_RUNAHEAD + 2
  <1>1. /\ n.cmd = m.cmd /\ n.relay = {q} /\ q \in m.relay
        /\ q # p /\ quitFrame[p][q] = 0
    BY RelayedType DEF IndInv, Connected
  <1>2. /\ m.cmd.player \in Player /\ m.cmd.frame \in Nat /\ q # m.cmd.player
        /\ p = PacketRouter
        /\ m.cmd.frame <= frame[m.cmd.player] + MAX_RUNAHEAD + 1
    BY <1>1, MessageFacts
  <1>3. frame[p] <= lastFrameCompleted[q] + 1
    BY <1>1 DEF IndInv, SkewInv
  <1>4. frame[m.cmd.player] <= frame[p] + MAX_RUNAHEAD
    BY <1>2, Router
  <1>5. frame[m.cmd.player] \in Nat /\ frame[p] \in Nat /\ lastFrameCompleted[q] \in Nat
    BY <1>2, NumberTypes DEF IndInv
  <1>6. m.cmd.frame <= lastFrameCompleted[q] + 2 * MAX_RUNAHEAD + 2
    BY <1>2, <1>3, <1>4, <1>5, Sizes
  <1> QED BY <1>1, <1>2, <1>6

LEMMA ReceiveMessages ==
  ASSUME IndInv, NEW p \in Player, NEW m \in inFlight[p], Receive(p, m)
  PROVE  MessageInv'
  <1>1. /\ UNCHANGED <<frame, lastFrameCompleted, localStatus, issued>>
        /\ inFlight' = [q \in Player |-> inFlight[q] \cup Relayed(p, m, q)]
    BY DEF Receive, networkVars
  <1>2. /\ \A q \in Player : LastCounted(q)' = LastCounted(q)
        /\ \A q \in Player, f \in Nat : IssuedFor(q, f)' = IssuedFor(q, f)
    BY <1>1 DEF LastCounted, IssuedFor
  <1> SUFFICES ASSUME NEW q \in Player, NEW n \in inFlight[q] \cup Relayed(p, m, q)
               PROVE  /\ n.cmd.player # q
                      /\ n.cmd.player \notin n.relay
                      /\ IF n.cmd.type = "FRAMEINFO"
                           THEN /\ n.cmd.frame <= LastCounted(n.cmd.player)'
                                /\ n.cmd.arg = Cardinality(IssuedFor(n.cmd.player, n.cmd.frame)')
                           ELSE n.cmd \in issued
                      /\ q # PacketRouter =>
                           /\ n.relay \subseteq {q}
                           /\ n.cmd.frame <= lastFrameCompleted[q] + 2 * MAX_RUNAHEAD + 2
    BY <1>1 DEF MessageInv
  <1>3. CASE n \in inFlight[q]
    BY <1>2, <1>3, MessageFacts
  <1>4. CASE n \in Relayed(p, m, q)
    <2>1. /\ n.cmd = m.cmd /\ n.relay = {q} /\ q # m.cmd.player
          /\ m.cmd.frame <= lastFrameCompleted[q] + 2 * MAX_RUNAHEAD + 2
      BY <1>4, RelayedMessages
    <2> QED BY <1>2, <2>1, MessageFacts
  <1> QED BY <1>3, <1>4

\* A slot of a ring for another player.
Heard(fd, q, f) ==
  /\ fd.commandList \subseteq IssuedFor(q, f)
  /\ fd.commandCount = Cardinality(fd.commandList)
  /\ fd.frameCommandCount # NoCount =>
       /\ f <= LastCounted(q)
       /\ fd.frameCommandCount = Cardinality(IssuedFor(q, f))

LEMMA AddedSlot ==
  ASSUME IndInv, NEW c \in issued, NEW f \in Nat, c.frame = f,
         NEW old \in FrameDatas(Command), Heard(old, c.player, f)
  PROVE  Heard(addCommand(old, c), c.player, f)
  <1> DEFINE new == addCommand(old, c)
  <1>1. c \in Command
    BY DEF IndInv, TypeOK
  <1>2. /\ new.commandList = old.commandList \cup {c}
        /\ new.commandCount = IF c \in old.commandList THEN old.commandCount
                                                       ELSE old.commandCount + 1
        /\ new.frameCommandCount = old.frameCommandCount
    BY <1>1, AddCommand
  <1>3. c \in IssuedFor(c.player, f)
    BY DEF IssuedFor
  <1>4. IsFiniteSet(old.commandList)
    <2>1. old.commandList \subseteq issued
      BY DEF Heard, IssuedFor
    <2>2. IsFiniteSet(issued)
      BY DEF IndInv, IssuedInv
    <2> QED BY <2>1, <2>2, FS_Subset
  <1>5. new.commandCount = Cardinality(new.commandList)
    <2>1. CASE c \in old.commandList
      <3>1. old.commandList \cup {c} = old.commandList
        BY <2>1
      <3> QED BY <1>2, <2>1, <3>1 DEF Heard
    <2>2. CASE c \notin old.commandList
      <3>1. Cardinality(old.commandList \cup {c}) = Cardinality(old.commandList) + 1
        BY <1>4, <2>2, FS_AddElement
      <3> QED BY <1>2, <2>2, <3>1 DEF Heard
    <2> QED BY <2>1, <2>2
  <1> HIDE DEF new
  <1> QED BY <1>2, <1>3, <1>5 DEF Heard, new

LEMMA TheirRing ==
  ASSUME NEW ring \in FrameRings(Command), NEW c \in Command
  PROVE  /\ \A k \in FrameIndex \ {Slot(c.frame)} :
              addNetCommandMsg(ring, c, FALSE)[k] = ring[k]
         /\ addNetCommandMsg(ring, c, FALSE)[Slot(c.frame)] =
              addCommand(ring[Slot(c.frame)], c)
  <1>1. c.frame \in Int
    BY DEF Command
  <1>2. \A k \in FrameIndex \ {Slot(c.frame)} :
          addNetCommandMsg(ring, c, FALSE)[k] = ring[k]
    BY <1>1, AddNetCommandMsg
  <1>3. addNetCommandMsg(ring, c, FALSE)[Slot(c.frame)] =
          addCommand(ring[Slot(c.frame)], c)
    BY <1>1, AddNetCommandMsg
  <1> QED BY <1>2, <1>3

LEMMA StoredSlots ==
  ASSUME IndInv, NEW p \in Player, localStatus[p] # "LEFT",
         NEW m \in inFlight[p], frame[p] <= m.cmd.frame,
         NEW f \in Nat, frame[p] <= f, f < frame[p] + FRAME_DATA_LENGTH,
         Heard(frameData[p][m.cmd.player][Slot(f)], m.cmd.player, f)
  PROVE  Heard(Stored(p, m)[Slot(f)], m.cmd.player, f)
  <1> DEFINE c    == m.cmd
             ring == frameData[p][c.player]
  <1>1. /\ c.player \in Player /\ c.player # p /\ c \in Command
        /\ c.frame \in Nat /\ c.arg \in Nat
        /\ IF c.type = "FRAMEINFO"
             THEN /\ c.frame <= LastCounted(c.player)
                  /\ c.arg = Cardinality(IssuedFor(c.player, c.frame))
             ELSE c \in issued
    BY MessageFacts
  <1>2. ring \in FrameRings(Command)
    BY <1>1 DEF IndInv, TypeOK
  <1>3. Slot(f) \in FrameIndex /\ Slot(c.frame) \in FrameIndex
    BY <1>1, SlotType
  <1>4. Heard(ring[Slot(f)], c.player, f)
    OBVIOUS
  <1>5. f # c.frame => Slot(f) # Slot(c.frame)
    <2>1. /\ c.frame < frame[p] + FRAME_DATA_LENGTH
          /\ f < frame[p] + FRAME_DATA_LENGTH
          /\ frame[p] \in Nat /\ FRAME_DATA_LENGTH \in Nat
      BY MessageReach, NumberTypes, Sizes DEF IndInv
    <2>2. f < c.frame + FRAME_DATA_LENGTH /\ c.frame < f + FRAME_DATA_LENGTH
      BY <1>1, <2>1
    <2> QED BY <1>1, <2>2, SlotInjective
  <1> HIDE DEF ring, c
  <1>6. CASE c.type = "FRAMEINFO"
    <2> DEFINE new == setFrameCommandCount(ring, c.frame, c.arg)
    <2>1. Stored(p, m) = new
      BY <1>6 DEF Stored, c, ring
    <2>2. /\ \A k \in FrameIndex \ {Slot(c.frame)} : new[k] = ring[k]
          /\ new[Slot(c.frame)].commandList = ring[Slot(c.frame)].commandList
          /\ new[Slot(c.frame)].commandCount = ring[Slot(c.frame)].commandCount
          /\ new[Slot(c.frame)].frameCommandCount = c.arg
      BY <1>1, <1>2, SetFrameCommandCount
    <2> HIDE DEF new
    <2>3. Heard(new[Slot(f)], c.player, f)
      <3>1. CASE f = c.frame
        BY <1>1, <1>4, <1>6, <2>2, <3>1 DEF Heard
      <3>2. CASE f # c.frame
        BY <1>3, <1>4, <1>5, <2>2, <3>2
      <3> QED BY <3>1, <3>2
    <2> QED BY <2>1, <2>3 DEF c
  <1>7. CASE c.type # "FRAMEINFO" /\ p \in m.relay
    <2> DEFINE new == addNetCommandMsg(ring, c, FALSE)
    <2>1. Stored(p, m) = new
      BY <1>7 DEF Stored, c, ring
    <2>2. /\ \A k \in FrameIndex \ {Slot(c.frame)} : new[k] = ring[k]
          /\ new[Slot(c.frame)] = addCommand(ring[Slot(c.frame)], c)
      BY <1>1, <1>2, TheirRing, Zenon
    <2> HIDE DEF new
    <2>3. Heard(new[Slot(f)], c.player, f)
      <3>1. CASE f = c.frame
        <4>1. ring[Slot(f)] \in FrameDatas(Command)
          BY <1>2, <1>3 DEF FrameRings
        <4> QED BY <1>1, <1>4, <1>7, <2>2, <3>1, <4>1, AddedSlot
      <3>2. CASE f # c.frame
        BY <1>3, <1>4, <1>5, <2>2, <3>2
      <3> QED BY <3>1, <3>2
    <2> QED BY <2>1, <2>3 DEF c
  <1>8. CASE c.type # "FRAMEINFO" /\ p \notin m.relay
    <2>1. Stored(p, m) = ring
      BY <1>8 DEF Stored, c, ring
    <2> QED BY <1>4, <2>1 DEF c
  <1> QED BY <1>6, <1>7, <1>8

LEMMA ReceiveRings ==
  ASSUME IndInv, NEW p \in Player, NEW m \in inFlight[p], Receive(p, m)
  PROVE  RingInv'
  <1>1. /\ UNCHANGED <<frame, lastFrameCompleted, localStatus, issued, quitFrame>>
        /\ localStatus[p] # "LEFT"
        /\ frameData' = IF HasFrameData(p, m.cmd.player)
                          THEN [frameData EXCEPT ![p][m.cmd.player] = Stored(p, m)]
                          ELSE frameData
    BY DEF Receive, networkVars
  <1>2. m.cmd.frame \in Nat /\ m.cmd.player \in Player /\ m.cmd.player # p
    BY MessageFacts
  <1>3. frame[p] <= m.cmd.frame
    BY <1>2, NumberTypes DEF Receive, OutOfDate, IndInv
  <1>4. /\ \A q \in Player : LastCounted(q)' = LastCounted(q)
        /\ \A q \in Player, f \in Nat : IssuedFor(q, f)' = IssuedFor(q, f)
        /\ \A q \in Player : WindowTop(q)' = WindowTop(q)
        /\ \A q, r \in Player : HasFrameData(q, r)' = HasFrameData(q, r)
    BY <1>1 DEF LastCounted, IssuedFor, WindowTop, HasFrameData
  <1> SUFFICES ASSUME NEW r \in Player, localStatus[r] # "LEFT",
                      NEW q \in Player, HasFrameData(r, q),
                      NEW f \in frame[r] .. WindowTop(r)
               PROVE  SlotOK(r, q, f)'
    BY <1>1, <1>4 DEF RingInv
  <1>5. SlotOK(r, q, f)
    BY DEF IndInv, RingInv
  <1>6. f \in Nat /\ frame[r] <= f /\ f <= WindowTop(r)
    BY Window, NumberTypes DEF IndInv
  <1>7. frameData \in [Player -> [Player -> FrameRings(Command)]]
    BY DEF IndInv, TypeOK
  <1>8. CASE r = p /\ q = m.cmd.player
    <2>1. Heard(Stored(p, m)[Slot(f)], q, f)
      <3>1. Heard(frameData[p][m.cmd.player][Slot(f)], m.cmd.player, f)
        BY <1>2, <1>5, <1>8 DEF SlotOK, Heard
      <3>2. f < frame[p] + FRAME_DATA_LENGTH
        <4>1. /\ frame[p] \in Nat /\ FRAME_DATA_LENGTH \in Nat
              /\ WindowTop(p) \in Nat /\ WindowTop(p) < frame[p] + FRAME_DATA_LENGTH
          BY <1>1, Window, NumberTypes, Sizes DEF IndInv
        <4> QED BY <1>6, <1>8, <4>1
      <3> QED BY <1>1, <1>3, <1>6, <1>8, <3>1, <3>2, StoredSlots
    <2>2. frameData'[r][q] = Stored(p, m)
      BY <1>1, <1>7, <1>8
    <2> QED BY <1>2, <1>4, <1>6, <1>8, <2>1, <2>2 DEF SlotOK, Heard
  <1>9. CASE r # p \/ q # m.cmd.player
    <2>1. frameData'[r][q] = frameData[r][q]
      BY <1>1, <1>7, <1>9
    <2> QED BY <1>4, <1>5, <1>6, <2>1 DEF SlotOK
  <1> QED BY <1>8, <1>9

LEMMA ReceiveInv ==
  ASSUME IndInv, NEW p \in Player, NEW m \in inFlight[p], Receive(p, m)
  PROVE  IndInv'
  <1>1. TypeOK'
    BY ReceiveType DEF IndInv
  <1>2. MessageInv' /\ RingInv'
    BY ReceiveMessages, ReceiveRings
  <1>3. UNCHANGED <<frame, networkVars, nextID, quitFrame, issued, executed>>
    BY DEF Receive
  <1>4. \A q \in Player : LastCounted(q)' = LastCounted(q)
    BY <1>3 DEF LastCounted, networkVars
  <1>5. CountersInv' /\ FrozenInv'
    BY <1>3 DEF IndInv, CountersInv, FrozenInv, networkVars
  <1>6. SkewInv' /\ LeaveInv'
    BY <1>3, <1>4 DEF IndInv, SkewInv, LeaveInv, networkVars
  <1>7. IssuedInv'
    <2>1. \A c \in issued : c.player \in Player
      BY DEF IndInv, TypeOK, Command
    <2> QED BY <1>3, <1>4, <2>1 DEF IndInv, IssuedInv, networkVars
  <1> QED BY <1>1, <1>2, <1>5, <1>6, <1>7 DEF IndInv

-----------------------------------------------------------------------------
(* Running a frame.                                                         *)

\* Who is waited for has counted the frame, and all he issued for it is here.
LEMMA ReadySlot ==
  ASSUME IndInv, NEW p \in Player, localStatus[p] # "LEFT", AllCommandsReady(p),
         NEW q \in Player, quitFrame[p][q] = 0
  PROVE  /\ frameData[p][q][Slot(frame[p])].commandList = IssuedFor(q, frame[p])
         /\ q # p => frame[p] <= LastCounted(q)
  <1> DEFINE f  == frame[p]
             fd == frameData[p][q][Slot(f)]
  <1>1. f \in Nat /\ f \in f .. WindowTop(p)
    BY Window, NumberTypes DEF IndInv
  <1>2. SlotOK(p, q, f)
    BY <1>1 DEF IndInv, RingInv, HasFrameData
  <1>3. fd.frameCommandCount = fd.commandCount
    BY DEF AllCommandsReady, Ready
  <1>4. IsFiniteSet(IssuedFor(q, f))
    <2>1. IsFiniteSet(issued) /\ IssuedFor(q, f) \subseteq issued
      BY DEF IndInv, IssuedInv, IssuedFor
    <2> QED BY <2>1, FS_Subset
  <1>5. CASE q = p
    BY <1>2, <1>5 DEF SlotOK
  <1>6. CASE q # p
    <2>1. /\ fd.commandList \subseteq IssuedFor(q, f)
          /\ fd.commandCount = Cardinality(fd.commandList)
          /\ fd.frameCommandCount # NoCount =>
               /\ f <= LastCounted(q)
               /\ fd.frameCommandCount = Cardinality(IssuedFor(q, f))
      BY <1>2, <1>6 DEF SlotOK
    <2>2. Cardinality(fd.commandList) \in Nat
      <3>1. IsFiniteSet(fd.commandList)
        BY <1>4, <2>1, FS_Subset
      <3> QED BY <3>1, FS_CardinalityType
    <2>3. fd.frameCommandCount # NoCount
      BY <1>3, <2>1, <2>2 DEF NoCount
    <2>4. Cardinality(fd.commandList) = Cardinality(IssuedFor(q, f))
      BY <1>3, <2>1, <2>3
    <2>5. fd.commandList = IssuedFor(q, f)
      BY <1>4, <2>1, <2>4, FS_Subset
    <2> QED BY <2>1, <2>3, <2>5
  <1> QED BY <1>5, <1>6

LEMMA FrameCommandsExact ==
  ASSUME IndInv, NEW p \in Player, localStatus[p] # "LEFT", AllCommandsReady(p)
  PROVE  FrameCommands(p) = {c \in issued : c.frame = frame[p]}
  <1> DEFINE f == frame[p]
             L(q) == frameData[p][q][Slot(f)].commandList
  <1>1. f \in Nat /\ f \in f .. WindowTop(p)
    BY Window, NumberTypes DEF IndInv
  <1>2. ASSUME NEW q \in Player, quitFrame[p][q] # 0 PROVE IssuedFor(q, f) = {}
    <2>1. localStatus[q] # "INGAME" /\ LastCounted(q) < f
      BY <1>2 DEF IndInv, SkewInv
    <2>2. \A c \in issued : c.player = q => c.frame <= LastCounted(q) /\ c.frame \in Nat
      BY <2>1 DEF IndInv, IssuedInv, TypeOK, Command
    <2>3. LastCounted(q) \in Nat
      BY NumberTypes DEF IndInv
    <2>4. \A c \in issued : c.player = q => c.frame # f
      BY <1>1, <2>1, <2>2, <2>3
    <2> QED BY <2>4 DEF IssuedFor
  <1>3. ASSUME NEW q \in Player, HasFrameData(p, q) PROVE L(q) = IssuedFor(q, f)
    <2>1. CASE quitFrame[p][q] = 0
      BY <2>1, ReadySlot
    <2>2. CASE quitFrame[p][q] # 0
      <3>1. SlotOK(p, q, f)
        BY <1>1, <1>3 DEF IndInv, RingInv
      <3>2. L(q) \subseteq IssuedFor(q, f)
        BY <3>1 DEF SlotOK
      <3> QED BY <1>2, <2>2, <3>2
    <2> QED BY <2>1, <2>2
  <1>4. ASSUME NEW c \in issued, c.frame = f PROVE c \in FrameCommands(p)
    <2>1. c.player \in Player /\ c \in IssuedFor(c.player, f)
      BY <1>4 DEF IndInv, TypeOK, Command, IssuedFor
    <2>2. quitFrame[p][c.player] = 0
      BY <1>2, <2>1
    <2>3. HasFrameData(p, c.player)
      BY <2>2 DEF HasFrameData
    <2>4. c \in L(c.player)
      BY <1>3, <2>1, <2>3
    <2> QED BY <2>1, <2>3, <2>4 DEF FrameCommands
  <1>5. ASSUME NEW c \in FrameCommands(p) PROVE c \in issued /\ c.frame = f
    <2>1. PICK q \in Player : HasFrameData(p, q) /\ c \in L(q)
      BY <1>5 DEF FrameCommands
    <2>2. c \in IssuedFor(q, f)
      BY <1>3, <2>1
    <2> QED BY <2>2 DEF IssuedFor
  <1> QED BY <1>4, <1>5

\* The frame's PLAYERLEAVEs are those of the players who counted up to it.
LEMMA FrameLeavers ==
  ASSUME IndInv, NEW p \in Player, NEW cs, cs = {c \in issued : c.frame = frame[p]},
         NEW q \in Player
  PROVE  q \in Leavers(cs) <=> localStatus[q] # "INGAME" /\ LastCounted(q) = frame[p]
  <1>1. ASSUME q \in Leavers(cs)
        PROVE  localStatus[q] # "INGAME" /\ LastCounted(q) = frame[p]
    <2>1. PICK c \in issued : c.type = "PLAYERLEAVE" /\ c.player = q /\ c.frame = frame[p]
      BY <1>1 DEF Leavers
    <2> QED BY <2>1 DEF IndInv, IssuedInv
  <1>2. ASSUME localStatus[q] # "INGAME", LastCounted(q) = frame[p]
        PROVE  q \in Leavers(cs)
    BY <1>2 DEF IndInv, LeaveInv, Leavers
  <1> QED BY <1>1, <1>2

\* Every player in the game has counted the frame that p runs.
LEMMA FrameCounted ==
  ASSUME IndInv, NEW p \in Player, ExecuteFrame(p),
         NEW q \in Player, localStatus[q] = "INGAME"
  PROVE  /\ frame[p] <= lastFrameCompleted[q]
         /\ q = p => lastFrameCompleted[p] < lastExecutionFrame[p]
  <1>1. /\ localStatus[p] # "LEFT" /\ Ticked(p) /\ AllCommandsReady(p)
    BY DEF ExecuteFrame
  <1>2. CASE q = p
    <2> DEFINE x == ExecutionFrame(p)
    <2>1. TypeOK
      BY DEF IndInv
    <2>2. /\ frame[p] \in Nat /\ runAhead[p] \in Nat /\ 1 <= runAhead[p]
          /\ lastFrameCompleted[p] \in Nat /\ lastExecutionFrame[p] \in Nat
      BY <2>1, NumberTypes
    <2>3. x \in Nat /\ frame[p] + runAhead[p] <= x
      BY <2>1, ExecutionFrameBounds
    <2>4. (lastFrameCompleted[p] + 1) .. (x - 1) = {}
      BY <1>1, <1>2 DEF Ticked, PendingFrameInfos
    <2> HIDE DEF x
    <2>5. x - 1 <= lastFrameCompleted[p]
      <3>1. lastFrameCompleted[p] + 1 \notin (lastFrameCompleted[p] + 1) .. (x - 1)
        BY <2>4
      <3> QED BY <2>2, <2>3, <3>1
    <2>6. /\ lastFrameCompleted[p] <= lastExecutionFrame[p]
          /\ \/ lastFrameCompleted[p] < lastExecutionFrame[p]
             \/ lastFrameCompleted[p] + 1 < frame[p] + runAhead[p]
      BY <1>2 DEF IndInv, CountersInv
    <2> QED BY <1>2, <2>2, <2>3, <2>5, <2>6
  <1>3. CASE q # p
    <2>1. quitFrame[p][q] = 0
      BY DEF IndInv, SkewInv
    <2>2. frame[p] <= LastCounted(q)
      BY <1>1, <1>3, <2>1, ReadySlot
    <2> QED BY <1>3, <2>2 DEF LastCounted
  <1> QED BY <1>2, <1>3

\* What running the frame with cs changes.
Runs(p, cs) ==
  /\ executed' = [executed EXCEPT ![p] = Append(@, cs)]
  /\ frame' = [frame EXCEPT ![p] = @ + 1]
  /\ runAhead' = [runAhead EXCEPT ![p] = RunAheadAfter(p, cs)]
  /\ quitFrame' = [quitFrame EXCEPT ![p] = [q \in Player |->
                     IF q \in Leavers(cs) \ {p} /\ @[q] = 0
                       THEN frame[p] + FRAMES_TO_KEEP + 1 ELSE @[q]]]
  /\ localStatus' = [localStatus EXCEPT ![p] =
                       IF p \in Leavers(cs) THEN "LEFT" ELSE @]
  /\ frameData' = [frameData EXCEPT ![p] = [q \in Player |-> Advanced(p, q)]]
  /\ UNCHANGED <<lastExecutionFrame, lastFrameCompleted, nextID, inFlight, issued>>

LEMMA FrameRun ==
  ASSUME IndInv, NEW p \in Player, ExecuteFrame(p),
         NEW cs, cs = {c \in issued : c.frame = frame[p]}
  PROVE  /\ Runs(p, cs)
         /\ localStatus[p] # "LEFT" /\ AllCommandsReady(p)
         /\ \A q \in Player :
              /\ localStatus'[q] = "INGAME" <=> localStatus[q] = "INGAME"
              /\ localStatus'[q] # "LEFT" => localStatus'[q] = localStatus[q]
              /\ q # p => localStatus'[q] = localStatus[q]
              /\ LastCounted(q)' = LastCounted(q)
         /\ \A q \in Player, f \in Nat : IssuedFor(q, f)' = IssuedFor(q, f)
  <1>1. localStatus[p] # "LEFT" /\ AllCommandsReady(p)
    BY DEF ExecuteFrame
  <1>2. FrameCommands(p) = cs
    BY <1>1, FrameCommandsExact
  <1> HIDE DEF FrameCommands
  <1>3. Runs(p, cs)
    BY <1>2, Zenon DEF ExecuteFrame, Runs
  <1>4. p \in Leavers(cs) => localStatus[p] # "INGAME"
    BY FrameLeavers
  <1>5. \A q \in Player :
          /\ localStatus'[q] = "INGAME" <=> localStatus[q] = "INGAME"
          /\ localStatus'[q] # "LEFT" => localStatus'[q] = localStatus[q]
          /\ q # p => localStatus'[q] = localStatus[q]
    <2>1. localStatus \in [Player -> {"INGAME", "LEAVING", "LEFT"}]
      BY DEF IndInv, TypeOK
    <2>2. /\ \A q \in Player \ {p} : localStatus'[q] = localStatus[q]
          /\ localStatus'[p] = IF p \in Leavers(cs) THEN "LEFT" ELSE localStatus[p]
      BY <1>3, <2>1 DEF Runs
    <2> QED BY <1>4, <2>1, <2>2
  <1>6. \A q \in Player : LastCounted(q)' = LastCounted(q)
    BY <1>3, <1>5 DEF LastCounted, Runs
  <1>7. \A q \in Player, f \in Nat : IssuedFor(q, f)' = IssuedFor(q, f)
    BY <1>3 DEF IssuedFor, Runs
  <1> QED BY <1>1, <1>3, <1>5, <1>6, <1>7

LEMMA ExecuteFrameType ==
  ASSUME IndInv, NEW p \in Player, ExecuteFrame(p)
  PROVE  TypeOK'
  <1> DEFINE cs == {c \in issued : c.frame = frame[p]}
  <1>1. TypeOK
    BY DEF IndInv
  <1>2. cs \in SUBSET Command /\ \A c \in cs : c.type = "RUNAHEAD" => c.arg \in RunAheads
    BY <1>1 DEF TypeOK, IndInv, IssuedInv
  <1>3. Runs(p, cs)
    BY FrameRun
  <1> HIDE DEF cs
  <1>4. executed' \in [Player -> Seq(SUBSET Command)]
    <2>1. /\ executed \in [Player -> Seq(SUBSET Command)]
          /\ executed' = [executed EXCEPT ![p] = Append(executed[p], cs)]
      BY <1>1, <1>3 DEF TypeOK, Runs
    <2>2. Append(executed[p], cs) \in Seq(SUBSET Command)
      BY <1>2, <2>1
    <2> QED BY <2>1, <2>2, Zenon
  <1>5. frame' \in [Player -> Nat]
    BY <1>1, <1>3 DEF TypeOK, Runs
  <1>6. runAhead' \in [Player -> RunAheads]
    BY <1>1, <1>2, <1>3, RunAheadAfterType DEF TypeOK, Runs
  <1>7. quitFrame' \in [Player -> [Player -> Nat]]
    <2>1. frame[p] + FRAMES_TO_KEEP + 1 \in Nat
      BY <1>1, NumberTypes, Sizes
    <2> QED BY <1>1, <1>3, <2>1 DEF TypeOK, Runs
  <1>8. localStatus' \in [Player -> {"INGAME", "LEAVING", "LEFT"}]
    BY <1>1, <1>3 DEF TypeOK, Runs
  <1>9. frameData' \in [Player -> [Player -> FrameRings(Command)]]
    <2>1. ASSUME NEW q \in Player PROVE Advanced(p, q) \in FrameRings(Command)
      <3> DEFINE ring == frameData[p][q]
                 g    == frame[p] - FRAMES_TO_KEEP
                 own  == (p = q)
      <3>1. ring \in FrameRings(Command)
        BY <1>1 DEF TypeOK, Runs
      <3>2. g \in Int
        BY <1>1, NumberTypes, Sizes
      <3>3. own \in BOOLEAN
        OBVIOUS
      <3> HIDE DEF ring, g, own
      <3>4. resetFrame(ring, g, own) \in FrameRings(Command)
        BY <3>1, <3>2, <3>3, ResetFrame
      <3> QED BY <3>1, <3>4 DEF Advanced, ring, g, own
    <2> QED BY <1>1, <1>3, <2>1 DEF TypeOK, Runs
  <1> QED BY <1>1, <1>3, <1>4, <1>5, <1>6, <1>7, <1>8, <1>9 DEF TypeOK, Runs

LEMMA ExecuteFrameCounters ==
  ASSUME IndInv, NEW p \in Player, ExecuteFrame(p)
  PROVE  CountersInv'
  <1> DEFINE cs == {c \in issued : c.frame = frame[p]}
  <1>1. TypeOK /\ TypeOK'
    BY ExecuteFrameType DEF IndInv
  <1>2. Runs(p, cs) /\ localStatus[p] # "LEFT"
    BY FrameRun
  <1>8. /\ localStatus'[p] = "INGAME" => localStatus[p] = "INGAME"
        /\ \A q \in Player : q # p => localStatus'[q] = localStatus[q]
    BY FrameRun
  <1>3. p \in Leavers(cs) <=> localStatus[p] # "INGAME" /\ LastCounted(p) = frame[p]
    BY FrameLeavers
  <1>4. cs \in SUBSET Command
    BY <1>1 DEF TypeOK
  <1> HIDE DEF cs
  <1> SUFFICES ASSUME NEW q \in Player
               PROVE  /\ frame'[q] >= 1
                      /\ Len(executed'[q]) = frame'[q] - 1
                      /\ lastFrameCompleted[q] <= lastExecutionFrame[q]
                      /\ lastExecutionFrame[q] <= frame'[q] + MAX_RUNAHEAD
                      /\ localStatus'[q] # "LEFT" => frame'[q] <= lastFrameCompleted[q] + 1
                      /\ localStatus'[q] = "INGAME" =>
                           /\ lastFrameCompleted[q] < frame'[q] + MAX_RUNAHEAD
                           /\ \/ lastFrameCompleted[q] < lastExecutionFrame[q]
                              \/ lastFrameCompleted[q] + 1 < frame'[q] + runAhead'[q]
    BY <1>2 DEF Runs, CountersInv
  <1>5. /\ frame[q] >= 1
        /\ Len(executed[q]) = frame[q] - 1
        /\ lastFrameCompleted[q] <= lastExecutionFrame[q]
        /\ lastExecutionFrame[q] <= frame[q] + MAX_RUNAHEAD
        /\ localStatus[q] # "LEFT" => frame[q] <= lastFrameCompleted[q] + 1
        /\ localStatus[q] = "INGAME" =>
             /\ lastFrameCompleted[q] < frame[q] + MAX_RUNAHEAD
             /\ \/ lastFrameCompleted[q] < lastExecutionFrame[q]
                \/ lastFrameCompleted[q] + 1 < frame[q] + runAhead[q]
    BY DEF IndInv, CountersInv
  <1>6. CASE q # p
    <2>1. /\ frame'[q] = frame[q] /\ executed'[q] = executed[q]
          /\ runAhead'[q] = runAhead[q] /\ localStatus'[q] = localStatus[q]
      BY <1>1, <1>2, <1>6, <1>8 DEF Runs, TypeOK
    <2> QED BY <1>5, <2>1
  <1>7. CASE q = p
    <2>1. /\ frame[p] \in Nat /\ lastFrameCompleted[p] \in Nat
          /\ lastExecutionFrame[p] \in Nat
      BY <1>1, NumberTypes
    <2>2. frame'[p] = frame[p] + 1
      BY <1>1, <1>2 DEF Runs, TypeOK
    <2>3. Len(executed'[p]) = Len(executed[p]) + 1
      <3>1. executed[p] \in Seq(SUBSET Command) /\ executed'[p] = Append(executed[p], cs)
        BY <1>1, <1>2 DEF Runs, TypeOK
      <3> QED BY <1>4, <3>1
    <2>4. localStatus'[p] # "LEFT" => frame[p] <= lastFrameCompleted[p]
      <3>1. CASE localStatus[p] = "INGAME"
        BY <3>1, FrameCounted
      <3>2. CASE localStatus[p] # "INGAME"
        <4>1. localStatus'[p] # "LEFT" => p \notin Leavers(cs)
          BY <1>1, <1>2 DEF Runs, TypeOK
        <4>2. LastCounted(p) = lastFrameCompleted[p] + 1
          BY <3>2 DEF LastCounted
        <4> QED BY <1>2, <1>3, <1>5, <1>7, <2>1, <3>2, <4>1, <4>2
      <3> QED BY <3>1, <3>2
    <2>5. localStatus'[p] = "INGAME" => lastFrameCompleted[p] < lastExecutionFrame[p]
      BY <1>8, FrameCounted
    <2>6. /\ frame'[p] >= 1 /\ Len(executed'[p]) = frame'[p] - 1
          /\ lastFrameCompleted[p] <= lastExecutionFrame[p]
          /\ lastExecutionFrame[p] <= frame'[p] + MAX_RUNAHEAD
      <3>1. /\ frame[p] >= 1 /\ Len(executed[p]) = frame[p] - 1
            /\ lastFrameCompleted[p] <= lastExecutionFrame[p]
            /\ lastExecutionFrame[p] <= frame[p] + MAX_RUNAHEAD
        BY <1>5, <1>7
      <3>2. MAX_RUNAHEAD \in Nat
        BY Sizes
      <3>3. frame'[p] >= 1 /\ Len(executed'[p]) = frame'[p] - 1
        BY <2>1, <2>2, <2>3, <3>1
      <3>4. lastExecutionFrame[p] <= frame'[p] + MAX_RUNAHEAD
        BY <2>1, <2>2, <3>1, <3>2
      <3> QED BY <3>1, <3>3, <3>4
    <2>7. localStatus'[p] # "LEFT" => frame'[p] <= lastFrameCompleted[p] + 1
      BY <2>1, <2>2, <2>4
    <2>8. localStatus'[p] = "INGAME" => lastFrameCompleted[p] < frame'[p] + MAX_RUNAHEAD
      <3>1. localStatus'[p] = "INGAME" => lastFrameCompleted[p] < frame[p] + MAX_RUNAHEAD
        BY <1>5, <1>7, <1>8
      <3> QED BY <2>1, <2>2, <3>1, Sizes
    <2> QED BY <1>7, <2>5, <2>6, <2>7, <2>8
  <1> QED BY <1>6, <1>7

LEMMA ExecuteFrameSkew ==
  ASSUME IndInv, NEW p \in Player, ExecuteFrame(p)
  PROVE  SkewInv'
  <1> DEFINE cs == {c \in issued : c.frame = frame[p]}
  <1>1. TypeOK
    BY DEF IndInv
  <1>2. Runs(p, cs) /\ localStatus[p] # "LEFT" /\ AllCommandsReady(p)
    BY FrameRun
  <1>3. \A q \in Player : /\ localStatus'[q] = "INGAME" <=> localStatus[q] = "INGAME"
                          /\ LastCounted(q)' = LastCounted(q)
    BY FrameRun
  <1>4. \A q \in Player : q \in Leavers(cs) <=>
                            localStatus[q] # "INGAME" /\ LastCounted(q) = frame[p]
    BY FrameLeavers
  <1> HIDE DEF cs
  <1> SUFFICES ASSUME NEW r \in Player, NEW q \in Player
               PROVE  IF quitFrame'[r][q] = 0
                        THEN q # r => frame'[r] <= lastFrameCompleted[q] + 1
                        ELSE /\ q # r /\ localStatus'[q] # "INGAME"
                             /\ LastCounted(q)' < frame'[r]
    BY <1>2 DEF SkewInv, Runs
  <1>5. IF quitFrame[r][q] = 0
          THEN q # r => frame[r] <= lastFrameCompleted[q] + 1
          ELSE q # r /\ localStatus[q] # "INGAME" /\ LastCounted(q) < frame[r]
    BY DEF IndInv, SkewInv
  <1>6. CASE r # p
    <2>1. frame'[r] = frame[r] /\ quitFrame'[r] = quitFrame[r]
      BY <1>1, <1>2, <1>6 DEF TypeOK, Runs
    <2> QED BY <1>3, <1>5, <2>1
  <1>7. CASE r = p
    <2>1. /\ frame'[p] = frame[p] + 1
          /\ quitFrame'[p][q] = IF q \in Leavers(cs) \ {p} /\ quitFrame[p][q] = 0
                                  THEN frame[p] + FRAMES_TO_KEEP + 1 ELSE quitFrame[p][q]
      BY <1>1, <1>2 DEF TypeOK, Runs
    <2>2. /\ frame[p] \in Nat /\ LastCounted(q) \in Nat /\ lastFrameCompleted[q] \in Nat
          /\ frame[p] + FRAMES_TO_KEEP + 1 # 0
      BY <1>1, NumberTypes, Sizes
    <2>3. CASE quitFrame[p][q] # 0
      BY <1>3, <1>5, <1>7, <2>1, <2>2, <2>3
    <2>4. CASE quitFrame[p][q] = 0 /\ q \in Leavers(cs) \ {p}
      <3>1. quitFrame'[p][q] # 0
        BY <2>1, <2>2, <2>4
      <3>2. localStatus[q] # "INGAME" /\ LastCounted(q) = frame[p]
        BY <1>4, <2>4
      <3>3. LastCounted(q) < frame'[p]
        BY <2>1, <2>2, <3>2
      <3> QED BY <1>3, <1>7, <2>4, <3>1, <3>2, <3>3
    <2>5. CASE quitFrame[p][q] = 0 /\ q \notin Leavers(cs) /\ q # p
      <3>1. quitFrame'[p][q] = 0
        BY <2>1, <2>5
      <3>2. frame[p] <= lastFrameCompleted[q]
        <4>1. CASE localStatus[q] = "INGAME"
          BY <4>1, FrameCounted
        <4>2. CASE localStatus[q] # "INGAME"
          <5>1. LastCounted(q) # frame[p]
            BY <1>4, <2>5, <4>2
          <5>2. frame[p] <= LastCounted(q)
            BY <1>2, <2>5, ReadySlot
          <5>3. LastCounted(q) = lastFrameCompleted[q] + 1
            BY <4>2 DEF LastCounted
          <5> QED BY <2>2, <5>1, <5>2, <5>3
        <4> QED BY <4>1, <4>2
      <3> QED BY <1>7, <2>1, <2>2, <3>1, <3>2
    <2>6. CASE quitFrame[p][q] = 0 /\ q = p
      BY <1>7, <2>1, <2>6
    <2> QED BY <2>3, <2>4, <2>5, <2>6
  <1> QED BY <1>6, <1>7

\* The window of p's rings moves up by one frame.
LEMMA ExecuteFrameWindow ==
  ASSUME IndInv, NEW p \in Player, ExecuteFrame(p), localStatus'[p] # "LEFT"
  PROVE  \A f \in frame'[p] .. WindowTop(p)' :
           /\ f \in Nat /\ frame[p] < f
           /\ \/ /\ f <= WindowTop(p)
                 /\ frame[p] > FRAMES_TO_KEEP => Slot(f) # Slot(frame[p] - FRAMES_TO_KEEP)
              \/ /\ frame[p] > FRAMES_TO_KEEP
                 /\ Slot(f) = Slot(frame[p] - FRAMES_TO_KEEP)
                 /\ lastExecutionFrame[p] < f /\ localStatus[p] = "INGAME"
  <1>1. TypeOK /\ TypeOK' /\ localStatus[p] # "LEFT"
    BY ExecuteFrameType DEF IndInv, ExecuteFrame
  <1>2. /\ frame'[p] = frame[p] + 1 /\ frame[p] \in Nat
        /\ lastExecutionFrame[p] \in Nat /\ lastFrameCompleted[p] \in Nat
    BY <1>1, NumberTypes DEF ExecuteFrame, TypeOK
  <1>3. /\ localStatus'[p] = localStatus[p] /\ LastCounted(p)' = LastCounted(p)
    <2> DEFINE cs == {c \in issued : c.frame = frame[p]}
    <2> QED BY FrameRun
  <1>4. /\ lastFrameCompleted[p] <= lastExecutionFrame[p]
        /\ lastExecutionFrame[p] <= frame[p] + MAX_RUNAHEAD
        /\ frame[p] >= 1
    BY DEF IndInv, CountersInv
  <1> DEFINE L == FRAME_DATA_LENGTH
             K == FRAMES_TO_KEEP
             R == MAX_RUNAHEAD
             g == frame[p] - K
  <1>5. /\ R \in Nat \ {0} /\ K = R + 1 /\ L \in Nat /\ L >= 4 * R + 2
    BY Sizes
  <1>6. g \in Int
    BY <1>2, <1>5
  <1> SUFFICES ASSUME NEW f \in frame'[p] .. WindowTop(p)'
               PROVE  /\ f \in Nat /\ frame[p] < f
                      /\ \/ /\ f <= WindowTop(p)
                            /\ frame[p] > K => Slot(f) # Slot(g)
                         \/ /\ frame[p] > K /\ Slot(f) = Slot(g)
                            /\ lastExecutionFrame[p] < f /\ localStatus[p] = "INGAME"
    OBVIOUS
  <1> HIDE DEF L, K, R, g
  <1>7. g = frame[p] - K
    BY DEF g
  <1>8. CASE localStatus[p] # "INGAME"
    <2>1. WindowTop(p)' = LastCounted(p) /\ WindowTop(p) = LastCounted(p)
      BY <1>3, <1>8 DEF WindowTop
    <2>2. LastCounted(p) = lastFrameCompleted[p] + 1
      BY <1>8 DEF LastCounted
    <2>3. f \in Nat /\ frame[p] < f /\ f <= WindowTop(p) /\ f <= frame[p] + R + 1
      BY <1>2, <1>4, <1>5, <2>1, <2>2 DEF R
    <2>4. Slot(f) # Slot(g)
      <3>1. f # g /\ f < g + L /\ g < f + L
        BY <1>2, <1>5, <1>7, <2>3
      <3> QED BY <1>6, <2>3, <3>1, SlotInjective DEF L
    <2> QED BY <2>3, <2>4
  <1>9. CASE localStatus[p] = "INGAME"
    <2>1. /\ WindowTop(p) = IF frame[p] <= K THEN L ELSE frame[p] - K + L - 1
          /\ WindowTop(p)' = IF frame'[p] <= K THEN L ELSE frame'[p] - K + L - 1
      <3>1. WindowTop(p) = IF frame[p] <= K THEN L ELSE frame[p] - K + L - 1
        BY <1>9, Zenon DEF WindowTop, K, L
      <3>2. WindowTop(p)' = IF frame'[p] <= K THEN L ELSE frame'[p] - K + L - 1
        <4>1. ~ (localStatus'[p] # "INGAME")
          BY <1>3, <1>9
        <4> QED BY <4>1, Zenon DEF WindowTop, K, L
      <3> QED BY <3>1, <3>2
    <2>2. f \in Nat /\ frame[p] < f /\ f <= WindowTop(p)'
      <3>1. WindowTop(p)' \in Int
        BY <1>2, <1>5, <2>1
      <3> QED BY <1>2, <3>1
    <2>3. CASE frame[p] <= K
      <3>1. f <= WindowTop(p)
        BY <1>2, <1>5, <2>1, <2>2, <2>3
      <3> QED BY <1>2, <1>5, <2>2, <2>3, <3>1
    <2>4. CASE frame[p] > K
      <3>1. CASE f = g + L
        <4>1. Slot(f) = Slot(g)
          BY <1>6, <3>1, SlotPeriod DEF L
        <4>2. lastExecutionFrame[p] < f
          BY <1>2, <1>4, <1>5, <1>7, <3>1 DEF R
        <4> QED BY <1>9, <2>2, <2>4, <4>1, <4>2
      <3>2. CASE f # g + L
        <4>1. f < g + L /\ f <= WindowTop(p) /\ f # g /\ g < f + L
          BY <1>2, <1>5, <1>7, <2>1, <2>2, <2>4, <3>2
        <4>2. Slot(f) # Slot(g)
          BY <1>6, <2>2, <4>1, SlotInjective DEF L
        <4> QED BY <2>2, <4>1, <4>2
      <3> QED BY <3>1, <3>2
    <2> QED BY <1>2, <1>5, <2>3, <2>4
  <1> QED BY <1>8, <1>9

LEMMA AdvancedSlot ==
  ASSUME IndInv, NEW p \in Player, NEW q \in Player, HasFrameData(p, q), NEW f \in Nat
  PROVE  /\ frame[p] > FRAMES_TO_KEEP /\ Slot(f) = Slot(frame[p] - FRAMES_TO_KEEP) =>
              Advanced(p, q)[Slot(f)] = FreshFrame(p = q)
         /\ frame[p] <= FRAMES_TO_KEEP \/ Slot(f) # Slot(frame[p] - FRAMES_TO_KEEP) =>
              Advanced(p, q)[Slot(f)] = frameData[p][q][Slot(f)]
  <1> DEFINE ring == frameData[p][q]
             g    == frame[p] - FRAMES_TO_KEEP
             own  == (p = q)
             new  == resetFrame(ring, g, own)
  <1>1. /\ ring \in FrameRings(Command) /\ own \in BOOLEAN
        /\ frame[p] \in Nat /\ FRAMES_TO_KEEP \in Nat /\ g \in Int
    BY NumberTypes, Sizes DEF IndInv, TypeOK
  <1>2. Slot(f) \in FrameIndex
    BY SlotType
  <1>3. /\ \A k \in FrameIndex \ {Slot(g)} : new[k] = ring[k]
        /\ new[Slot(g)] = FreshFrame(own)
    <2> HIDE DEF ring, g, own
    <2> QED BY <1>1, ResetFrame
  <1>4. Advanced(p, q) = IF frame[p] > FRAMES_TO_KEEP THEN new ELSE ring
    BY DEF Advanced
  <1> HIDE DEF new, ring, g, own
  <1>5. /\ frame[p] > FRAMES_TO_KEEP /\ Slot(f) = Slot(g) =>
             Advanced(p, q)[Slot(f)] = FreshFrame(own)
        /\ frame[p] <= FRAMES_TO_KEEP \/ Slot(f) # Slot(g) =>
             Advanced(p, q)[Slot(f)] = ring[Slot(f)]
    BY <1>1, <1>2, <1>3, <1>4
  <1> QED BY <1>5 DEF ring, g, own

LEMMA ExecuteFrameRings ==
  ASSUME IndInv, NEW p \in Player, ExecuteFrame(p)
  PROVE  RingInv'
  <1> DEFINE cs == {c \in issued : c.frame = frame[p]}
  <1>1. TypeOK /\ TypeOK'
    BY ExecuteFrameType DEF IndInv
  <1>2. Runs(p, cs) /\ localStatus[p] # "LEFT"
    BY FrameRun
  <1>3. /\ \A q \in Player : /\ localStatus'[q] # "LEFT" => localStatus'[q] = localStatus[q]
                             /\ q # p => localStatus'[q] = localStatus[q]
                             /\ LastCounted(q)' = LastCounted(q)
        /\ \A q \in Player, f \in Nat : IssuedFor(q, f)' = IssuedFor(q, f)
    BY FrameRun
  <1> HIDE DEF cs
  <1> SUFFICES ASSUME NEW r \in Player, localStatus'[r] # "LEFT",
                      NEW q \in Player, HasFrameData(r, q)',
                      NEW f \in frame'[r] .. WindowTop(r)'
               PROVE  SlotOK(r, q, f)'
    BY DEF RingInv
  <1>4. CASE r # p
    <2>1. /\ frame'[r] = frame[r] /\ quitFrame'[r] = quitFrame[r]
          /\ frameData'[r] = frameData[r] /\ localStatus'[r] = localStatus[r]
      BY <1>1, <1>2, <1>3, <1>4 DEF TypeOK, Runs
    <2>2. WindowTop(r)' = WindowTop(r) /\ HasFrameData(r, q)
      BY <1>3, <2>1 DEF WindowTop, HasFrameData
    <2>3. f \in frame[r] .. WindowTop(r) /\ localStatus[r] # "LEFT"
      BY <2>1, <2>2
    <2>4. SlotOK(r, q, f)
      BY <2>2, <2>3 DEF IndInv, RingInv
    <2>5. f \in Nat
      BY <1>1, <2>3, NumberTypes, Window
    <2> QED BY <1>3, <2>1, <2>4, <2>5 DEF SlotOK
  <1>5. CASE r = p
    <2>1. /\ f \in Nat /\ frame[p] < f
          /\ \/ /\ f <= WindowTop(p)
                /\ frame[p] > FRAMES_TO_KEEP => Slot(f) # Slot(frame[p] - FRAMES_TO_KEEP)
             \/ /\ frame[p] > FRAMES_TO_KEEP
                /\ Slot(f) = Slot(frame[p] - FRAMES_TO_KEEP)
                /\ lastExecutionFrame[p] < f /\ localStatus[p] = "INGAME"
      BY <1>5, ExecuteFrameWindow
    <2>2. frameData'[p][q] = Advanced(p, q)
      BY <1>1, <1>2 DEF TypeOK, Runs
    <2>3. HasFrameData(p, q)
      <3>1. /\ frame'[p] = frame[p] + 1 /\ frame[p] \in Nat
            /\ quitFrame'[p][q] = IF q \in Leavers(cs) \ {p} /\ quitFrame[p][q] = 0
                                    THEN frame[p] + FRAMES_TO_KEEP + 1 ELSE quitFrame[p][q]
            /\ quitFrame[p][q] \in Nat
        BY <1>1, <1>2, NumberTypes DEF TypeOK, Runs
      <3> QED BY <1>5, <3>1 DEF HasFrameData
    <2>4. /\ IssuedFor(q, f)' = IssuedFor(q, f) /\ LastCounted(q)' = LastCounted(q)
      BY <1>3, <2>1
    <2>5. CASE /\ f <= WindowTop(p)
               /\ frame[p] > FRAMES_TO_KEEP => Slot(f) # Slot(frame[p] - FRAMES_TO_KEEP)
      <3>1. f \in frame[p] .. WindowTop(p)
        BY <1>1, <1>2, <2>1, <2>5, NumberTypes, Window
      <3>2. SlotOK(p, q, f)
        BY <1>2, <2>3, <3>1 DEF IndInv, RingInv
      <3>3. frame[p] <= FRAMES_TO_KEEP \/ Slot(f) # Slot(frame[p] - FRAMES_TO_KEEP)
        BY <1>1, <2>5, NumberTypes, Sizes
      <3>4. Advanced(p, q)[Slot(f)] = frameData[p][q][Slot(f)]
        BY <2>1, <2>3, <3>3, AdvancedSlot
      <3> HIDE DEF Advanced
      <3> QED BY <1>5, <2>2, <2>4, <3>2, <3>4 DEF SlotOK
    <2>6. CASE /\ frame[p] > FRAMES_TO_KEEP
               /\ Slot(f) = Slot(frame[p] - FRAMES_TO_KEEP)
               /\ lastExecutionFrame[p] < f /\ localStatus[p] = "INGAME"
      <3>1. Advanced(p, q)[Slot(f)] = FreshFrame(p = q)
        BY <2>1, <2>3, <2>6, AdvancedSlot
      <3>2. CASE q = p
        <4>1. IssuedFor(p, f) = {}
          <5>1. \A c \in issued : c.player = p => c.frame <= lastExecutionFrame[p] /\ c.frame \in Nat
            BY <1>1, <2>6 DEF IndInv, IssuedInv, TypeOK, Command
          <5>2. lastExecutionFrame[p] \in Nat
            BY <1>1, NumberTypes
          <5>3. \A c \in issued : c.player = p => c.frame # f
            BY <2>1, <2>6, <5>1, <5>2
          <5> QED BY <5>3 DEF IssuedFor
        <4>2. frameData'[p][p][Slot(f)] = FreshFrame(TRUE)
          BY <2>2, <3>1, <3>2
        <4>3. /\ FreshFrame(TRUE).commandList = {}
              /\ FreshFrame(TRUE).commandCount = 0
              /\ FreshFrame(TRUE).frameCommandCount = 0
          BY DEF FreshFrame
        <4> QED BY <1>5, <2>4, <3>2, <4>1, <4>2, <4>3, FS_EmptySet DEF SlotOK
      <3>3. CASE q # p
        <4>1. frameData'[p][q][Slot(f)] = FreshFrame(FALSE)
          BY <2>2, <3>1, <3>3
        <4>2. /\ FreshFrame(FALSE).commandList = {}
              /\ FreshFrame(FALSE).commandCount = 0
              /\ FreshFrame(FALSE).frameCommandCount = NoCount
          BY DEF FreshFrame
        <4> QED BY <1>5, <3>3, <4>1, <4>2, FS_EmptySet DEF SlotOK
      <3> QED BY <3>2, <3>3
    <2> QED BY <2>1, <2>5, <2>6
  <1> QED BY <1>4, <1>5

LEMMA ExecuteFrameFrozen ==
  ASSUME IndInv, NEW p \in Player, ExecuteFrame(p)
  PROVE  FrozenInv'
  <1> DEFINE cs == {c \in issued : c.frame = frame[p]}
  <1>1. TypeOK
    BY DEF IndInv
  <1>2. Runs(p, cs)
    BY FrameRun
  <1>3. \A q \in Player : localStatus'[q] = "INGAME" <=> localStatus[q] = "INGAME"
    BY FrameRun
  <1>4. cs \in SUBSET Command
    BY <1>1 DEF TypeOK
  <1>5. /\ frame[p] \in Nat /\ executed[p] \in Seq(SUBSET Command)
        /\ Len(executed[p]) = frame[p] - 1
    BY <1>1, NumberTypes DEF IndInv, CountersInv, TypeOK
  <1> SUFFICES ASSUME NEW r \in Player, NEW f \in 1 .. Len(executed'[r])
               PROVE  /\ executed'[r][f] = {c \in issued : c.frame = f}
                      /\ \A q \in Player : localStatus[q] = "INGAME" =>
                                             f <= lastFrameCompleted[q]
    BY <1>2, <1>3 DEF FrozenInv, Runs
  <1>6. CASE r = p /\ f = frame[p]
    <2>1. executed'[p][f] = cs
      <3>1. executed'[p] = Append(executed[p], cs)
        BY <1>1, <1>2 DEF TypeOK, Runs
      <3> HIDE DEF cs
      <3> QED BY <1>4, <1>5, <1>6, <3>1
    <2> QED BY <1>6, <2>1, FrameCounted
  <1>7. CASE r # p \/ f # frame[p]
    <2>1. f \in 1 .. Len(executed[r]) /\ executed'[r][f] = executed[r][f]
      <3>1. CASE r # p
        BY <1>1, <1>2, <3>1 DEF TypeOK, Runs
      <3>2. CASE r = p /\ f # frame[p]
        <4>1. executed'[p] = Append(executed[p], cs)
          BY <1>1, <1>2 DEF TypeOK, Runs
        <4> HIDE DEF cs
        <4> QED BY <1>4, <1>5, <3>2, <4>1
      <3> QED BY <1>7, <3>1, <3>2
    <2> QED BY <2>1 DEF IndInv, FrozenInv
  <1> QED BY <1>6, <1>7

LEMMA ExecuteFrameInv ==
  ASSUME IndInv, NEW p \in Player, ExecuteFrame(p)
  PROVE  IndInv'
  <1> DEFINE cs == {c \in issued : c.frame = frame[p]}
  <1>1. Runs(p, cs)
    BY FrameRun
  <1>2. /\ \A q \in Player : /\ localStatus'[q] = "INGAME" <=> localStatus[q] = "INGAME"
                             /\ LastCounted(q)' = LastCounted(q)
        /\ \A q \in Player, f \in Nat : IssuedFor(q, f)' = IssuedFor(q, f)
    BY FrameRun
  <1>3. /\ UNCHANGED <<lastExecutionFrame, lastFrameCompleted, nextID, inFlight, issued>>
    BY <1>1 DEF Runs
  <1>4. IssuedInv'
    <2>1. \A c \in issued : c.player \in Player
      BY DEF IndInv, TypeOK, Command
    <2> QED BY <1>2, <1>3, <2>1 DEF IndInv, IssuedInv
  <1>5. LeaveInv'
    BY <1>2, <1>3 DEF IndInv, LeaveInv
  <1>6. MessageInv'
    <2>1. \A q \in Player : \A m \in inFlight[q] : m.cmd.player \in Player /\ m.cmd.frame \in Nat
      BY MessageType DEF IndInv
    <2> QED BY <1>2, <1>3, <2>1 DEF IndInv, MessageInv
  <1> QED BY <1>4, <1>5, <1>6, ExecuteFrameType, ExecuteFrameCounters, ExecuteFrameSkew,
             ExecuteFrameRings, ExecuteFrameFrozen DEF IndInv

-----------------------------------------------------------------------------
(* The invariant.                                                           *)

LEMMA InitIndInv == Init => IndInv
  <1> SUFFICES ASSUME Init PROVE IndInv
    OBVIOUS
  <1>1. /\ InitialRunAhead \in Nat /\ 1 <= InitialRunAhead /\ InitialRunAhead <= MAX_RUNAHEAD
        /\ InitialRunAhead \in RunAheads /\ InitialRunAhead - 1 \in Nat
    BY RunAheadRange, Sizes
  <1>2. TypeOK
    <2>1. frameData \in [Player -> [Player -> FrameRings(Command)]]
      <3>1. ASSUME NEW p \in Player, NEW q \in Player
            PROVE  InitialFrames(p = q, InitialRunAhead) \in FrameRings(Command)
        <4> DEFINE own == (p = q)
        <4>1. own \in BOOLEAN /\ InitialRunAhead \in Int
          BY <1>1
        <4> HIDE DEF own
        <4>2. InitialFrames(own, InitialRunAhead) \in FrameRings(Command)
          BY <4>1, InitialFramesType
        <4> QED BY <4>2 DEF own
      <3> QED BY <3>1 DEF Init
    <2> QED BY <1>1, <2>1 DEF Init, TypeOK
  <1>3. CountersInv
    BY <1>1, Sizes DEF Init, CountersInv
  <1>4. \A p \in Player : localStatus[p] = "INGAME" /\ inFlight[p] = {}
    BY DEF Init
  <1>5. issued = {}
    BY DEF Init
  <1>6. IssuedInv /\ LeaveInv /\ MessageInv
    BY <1>4, <1>5, FS_EmptySet DEF IssuedInv, LeaveInv, MessageInv
  <1>7. SkewInv
    BY <1>1 DEF Init, SkewInv
  <1>8. RingInv
    <2> SUFFICES ASSUME NEW p \in Player, NEW q \in Player,
                        NEW f \in 1 .. FRAME_DATA_LENGTH
                 PROVE  SlotOK(p, q, f)
      <3>1. \A p \in Player : frame[p] = 1 /\ WindowTop(p) = FRAME_DATA_LENGTH
        BY Sizes DEF Init, WindowTop
      <3> QED BY <3>1 DEF RingInv
    <2> DEFINE fd == frameData[p][q][Slot(f)]
    <2>1. FRAME_DATA_LENGTH \in Nat \ {0} /\ f \in Nat
      BY Sizes
    <2>2. Slot(f) \in FrameIndex
      BY <2>1, SlotType
    <2>3. fd = IF Slot(f) \in 1 .. (InitialRunAhead - 1) THEN ZeroFrame ELSE FreshFrame(p = q)
      BY <2>2 DEF Init, InitialFrames
    <2>4. /\ fd.commandList = {} /\ fd.commandCount = 0
          /\ q = p => fd.frameCommandCount = 0
          /\ fd.frameCommandCount = 0 \/ fd.frameCommandCount = NoCount
      BY <2>3 DEF ZeroFrame, FreshFrame
    <2>5. IssuedFor(q, f) = {}
      BY <1>5 DEF IssuedFor
    <2>6. q # p /\ fd.frameCommandCount # NoCount => f <= LastCounted(q)
      <3> SUFFICES ASSUME q # p, fd.frameCommandCount # NoCount PROVE f <= LastCounted(q)
        OBVIOUS
      <3>1. Slot(f) \in 1 .. (InitialRunAhead - 1)
        BY <2>3 DEF FreshFrame
      <3>2. f \in FrameIndex
        <4> SUFFICES ASSUME f = FRAME_DATA_LENGTH PROVE FALSE
          BY <2>1 DEF FrameIndex
        <4>1. 0 \in FrameIndex /\ 0 + FRAME_DATA_LENGTH = f
          BY <2>1 DEF FrameIndex
        <4>2. Slot(f) = Slot(0)
          BY <4>1, SlotPeriod
        <4>3. Slot(0) = 0
          BY <4>1, SlotOfIndex
        <4> QED BY <3>1, <4>2, <4>3
      <3>3. Slot(f) = f
        BY <3>2, SlotOfIndex
      <3>4. LastCounted(q) = InitialRunAhead - 1
        BY DEF Init, LastCounted
      <3> QED BY <1>1, <2>1, <3>1, <3>3, <3>4
    <2> HIDE DEF fd
    <2> QED BY <2>4, <2>5, <2>6, FS_EmptySet DEF SlotOK, fd
  <1>9. FrozenInv
    BY DEF Init, FrozenInv
  <1> QED BY <1>2, <1>3, <1>6, <1>7, <1>8, <1>9 DEF IndInv

LEMMA StutterInv ==
  ASSUME IndInv, UNCHANGED vars
  PROVE  IndInv'
  <1>1. UNCHANGED <<frame, runAhead, lastExecutionFrame, lastFrameCompleted, localStatus,
                    nextID, frameData, quitFrame, inFlight, issued, executed>>
    BY DEF vars, networkVars
  <1>2. /\ TypeOK' /\ CountersInv' /\ FrozenInv'
    BY <1>1 DEF IndInv, TypeOK, CountersInv, FrozenInv
  <1>3. \A q \in Player : LastCounted(q)' = LastCounted(q) /\ WindowTop(q)' = WindowTop(q)
    BY <1>1 DEF LastCounted, WindowTop
  <1>4. \A q \in Player, f \in Nat : IssuedFor(q, f)' = IssuedFor(q, f)
    BY <1>1 DEF IssuedFor
  <1>5. IssuedInv' /\ LeaveInv' /\ SkewInv'
    <2>1. \A c \in issued : c.player \in Player
      BY DEF IndInv, TypeOK, Command
    <2> QED BY <1>1, <1>3, <2>1 DEF IndInv, IssuedInv, LeaveInv, SkewInv
  <1>6. MessageInv'
    <2>1. \A q \in Player : \A m \in inFlight[q] : m.cmd.player \in Player /\ m.cmd.frame \in Nat
      BY MessageType DEF IndInv
    <2> QED BY <1>1, <1>3, <1>4, <2>1 DEF IndInv, MessageInv
  <1>7. RingInv'
    <2>1. \A p \in Player : frame[p] \in Nat
      BY NumberTypes DEF IndInv
    <2>2. \A p, q \in Player, f \in Nat : SlotOK(p, q, f) => SlotOK(p, q, f)'
      BY <1>1, <1>3, <1>4 DEF SlotOK
    <2>3. \A p \in Player : \A f \in frame[p] .. WindowTop(p) :
            localStatus[p] # "LEFT" => f \in Nat
      BY <2>1, Window
    <2> QED BY <1>1, <1>3, <2>2, <2>3 DEF IndInv, RingInv, HasFrameData
  <1> QED BY <1>2, <1>5, <1>6, <1>7 DEF IndInv

LEMMA NextIndInv == IndInv /\ [Next]_vars => IndInv'
  <1> SUFFICES ASSUME IndInv, [Next]_vars PROVE IndInv'
    OBVIOUS
  <1>1. ASSUME NEW p \in Player, FrameTick(p) PROVE IndInv'
    BY <1>1, FrameTickInv
  <1>2. ASSUME NEW p \in Player, SendLocalGameMessage(p) PROVE IndInv'
    BY <1>2, SendLocalGameMessageInv
  <1>3. ASSUME NEW p \in Player, UpdateRunAhead(p) PROVE IndInv'
    BY <1>3, UpdateRunAheadInv
  <1>4. ASSUME NEW p \in Player, ClearGameData(p) PROVE IndInv'
    BY <1>4, ClearGameDataInv
  <1>5. ASSUME NEW p \in Player, ReceiveAny(p) PROVE IndInv'
    BY <1>5, ReceiveInv DEF ReceiveAny
  <1>6. ASSUME NEW p \in Player, ExecuteFrame(p) PROVE IndInv'
    BY <1>6, ExecuteFrameInv
  <1>7. CASE UNCHANGED vars
    BY <1>7, StutterInv
  <1> QED BY <1>1, <1>2, <1>3, <1>4, <1>5, <1>6, <1>7 DEF Next

\* Lockstep keeps its inductive invariant.
THEOREM LockstepInvariance == Spec => []IndInv
  BY InitIndInv, NextIndInv, PTL DEF Spec

\* The variables keep their types, the command lists and rings included.
THEOREM TypeCorrectness == Spec => []TypeOK
  <1>1. IndInv => TypeOK
    BY DEF IndInv
  <1> QED BY <1>1, LockstepInvariance, PTL

-----------------------------------------------------------------------------
(* What follows from the invariant.                                         *)

\* Every frame anybody ran was run with all the commands ever issued for it
\* (allCommandsReady waits for the counts, and counts are final).
THEOREM FramesComplete == Spec => []NothingLost
  <1>1. IndInv => NothingLost
    BY DEF IndInv, FrozenInv, NothingLost
  <1> QED BY <1>1, LockstepInvariance, PTL

\* Any two machines ran the same commands on the frames both have run
\* (RelayCommandsToCommandList).
THEOREM LockstepAgrees == Spec => []LockstepAgreement
  <1>1. IndInv => LockstepAgreement
    <2> SUFFICES ASSUME IndInv, NEW p \in Player, NEW q \in Player,
                        NEW f \in 1 .. Len(executed[p]), f <= Len(executed[q])
                 PROVE  executed[p][f] = executed[q][f]
      BY DEF LockstepAgreement
    <2>1. Len(executed[p]) \in Nat /\ Len(executed[q]) \in Nat
      BY DEF IndInv, TypeOK
    <2>2. f \in 1 .. Len(executed[q])
      BY <2>1
    <2> QED BY <2>2 DEF IndInv, FrozenInv
  <1> QED BY <1>1, LockstepInvariance, PTL

\* A FRAMEINFO on the wire counts all its sender will ever issue for the frame
\* (the case of the comment in ConnectionManager::updateRunAhead).
THEOREM CountsAreFinal == Spec => []CountIsFinal
  <1>1. IndInv => CountIsFinal
    BY DEF IndInv, MessageInv, CountIsFinal, IssuedFor
  <1> QED BY <1>1, LockstepInvariance, PTL

\* Nobody runs more than the largest run ahead past a player still in the game.
THEOREM SkewIsBounded == Spec => []BoundedSkew
  <1>1. IndInv => BoundedSkew
    <2> SUFFICES ASSUME IndInv, NEW p \in Player, NEW q \in Player,
                        localStatus[q] = "INGAME"
                 PROVE  frame[p] <= frame[q] + MAX_RUNAHEAD
      BY DEF BoundedSkew
    <2>1. quitFrame[p][q] = 0
      BY DEF IndInv, SkewInv
    <2>2. q # p => frame[p] <= lastFrameCompleted[q] + 1
      BY <2>1 DEF IndInv, SkewInv
    <2>3. lastFrameCompleted[q] < frame[q] + MAX_RUNAHEAD
      BY DEF IndInv, CountersInv
    <2>4. frame[p] \in Nat /\ frame[q] \in Nat /\ lastFrameCompleted[q] \in Nat
      BY NumberTypes DEF IndInv
    <2> QED BY <2>2, <2>3, <2>4, Sizes
  <1> QED BY <1>1, LockstepInvariance, PTL

-----------------------------------------------------------------------------
(* Lockstep implements FrameSync: issuing and counting announce, a frame is *)
(* run, and the messages are invisible.                                     *)

LEMMA StepAnnounces ==
  ASSUME IndInv, NEW p \in Player,
         FrameTick(p) \/ SendLocalGameMessage(p) \/ UpdateRunAhead(p) \/ ClearGameData(p)
  PROVE  Announced(p) /\ TypeOK'
  <1> DEFINE x == ExecutionFrame(p)
  <1>1. TypeOK /\ TypeOK'
    BY FrameTickType, SendLocalGameMessageType, UpdateRunAheadType, ClearGameDataType
       DEF IndInv
  <1>2. localStatus[p] = "INGAME"
    BY DEF FrameTick, SendLocalGameMessage, UpdateRunAhead, ClearGameData
  <1>3. /\ x \in Nat /\ lastFrameCompleted[p] \in Nat /\ lastFrameCompleted[p] + 1 <= x
        /\ frame[p] \in Nat /\ runAhead[p] \in Nat /\ frame[p] + runAhead[p] <= x
    BY <1>1, <1>2, InGameFrames, NumberTypes, ExecutionFrameBounds
  <1>4. /\ issued' \in SUBSET Command /\ lastFrameCompleted'[p] \in Nat
        /\ DOMAIN lastFrameCompleted' = Player /\ DOMAIN localStatus' = Player
    BY <1>1 DEF TypeOK
  <1>5. UNCHANGED <<frame, quitFrame, executed>>
    BY DEF FrameTick, SendLocalGameMessage, UpdateRunAhead, ClearGameData
  <1>6. /\ issued \subseteq issued'
        /\ \A c \in issued' \ issued : c.player = p /\ c.frame > lastFrameCompleted[p]
    <2>1. CASE FrameTick(p)
      BY <2>1 DEF FrameTick
    <2>2. CASE SendLocalGameMessage(p)
      BY <1>3, <2>2 DEF SendLocalGameMessage, Issue, GameCommand
    <2>3. CASE UpdateRunAhead(p)
      <3>1. PICK r \in NewRunAheads : issued' = issued \cup {RunAheadCommand(p, r)}
        BY <2>3 DEF UpdateRunAhead, Issue
      <3>2. RunAheadCommand(p, r).player = p /\ RunAheadCommand(p, r).frame = x
        BY <1>3 DEF RunAheadCommand
      <3> HIDE DEF x
      <3> QED BY <1>3, <3>1, <3>2
    <2>4. CASE ClearGameData(p)
      BY <1>3, <2>4 DEF ClearGameData, Issue, PlayerLeaveCommand
    <2> QED BY <2>1, <2>2, <2>3, <2>4
  <1>7. /\ localStatus'[p] \in {"INGAME", "LEAVING"}
        /\ lastFrameCompleted[p] <= lastFrameCompleted'[p]
        /\ \A q \in Player \ {p} : /\ localStatus'[q] = localStatus[q]
                                   /\ lastFrameCompleted'[q] = lastFrameCompleted[q]
    <2>1. /\ lastFrameCompleted \in [Player -> Nat]
          /\ localStatus \in [Player -> {"INGAME", "LEAVING", "LEFT"}]
      BY <1>1 DEF TypeOK
    <2>2. CASE FrameTick(p)
      BY <1>2, <1>3, <2>1, <2>2 DEF FrameTick
    <2>3. CASE SendLocalGameMessage(p) \/ UpdateRunAhead(p)
      BY <1>2, <1>3, <2>1, <2>3 DEF SendLocalGameMessage, UpdateRunAhead
    <2>4. CASE ClearGameData(p)
      BY <1>3, <2>1, <2>4 DEF ClearGameData
    <2> QED BY <2>2, <2>3, <2>4
  <1> QED BY <1>1, <1>2, <1>4, <1>5, <1>6, <1>7 DEF Announced

LEMMA AnnounceStep ==
  ASSUME IndInv, TypeOK', NEW p \in Player, Announced(p)
  PROVE  Sync!Announce(p)
  <1> DEFINE open    == [q \in Player |-> localStatus[q] = "INGAME"]
             newOpen == [q \in Player |-> localStatus'[q] = "INGAME"]
  <1>1. /\ lastFrameCompleted \in [Player -> Nat]
        /\ localStatus \in [Player -> {"INGAME", "LEAVING", "LEFT"}]
        /\ lastFrameCompleted' \in [Player -> Nat]
        /\ localStatus' \in [Player -> {"INGAME", "LEAVING", "LEFT"}]
        /\ issued' \in SUBSET Command
    BY DEF IndInv, TypeOK
  <1>2. lastFrameCompleted' = [lastFrameCompleted EXCEPT ![p] = lastFrameCompleted'[p]]
    BY <1>1 DEF Announced
  <1>3. newOpen = [open EXCEPT ![p] = newOpen[p]] /\ newOpen[p] \in BOOLEAN
    BY <1>1 DEF Announced
  <1>4. open[p]
    BY DEF Announced
  <1>5. \E f \in {lastFrameCompleted'[p]} :
          /\ f \in Nat /\ f >= lastFrameCompleted[p]
          /\ lastFrameCompleted' = [lastFrameCompleted EXCEPT ![p] = f]
    BY <1>1, <1>2 DEF Announced
  <1>6. \E b \in {newOpen[p]} : b \in BOOLEAN /\ newOpen = [open EXCEPT ![p] = b]
    BY <1>3
  <1>7. /\ issued \subseteq issued' /\ executed' = executed
        /\ \A c \in issued' \ issued :
             c \in Command /\ c.player = p /\ c.frame > lastFrameCompleted[p]
    BY <1>1 DEF Announced
  <1> QED BY <1>4, <1>5, <1>6, <1>7 DEF Sync!Announce

LEMMA RunStep ==
  ASSUME IndInv, NEW p \in Player, ExecuteFrame(p)
  PROVE  Sync!Run(p)
  <1> DEFINE cs      == {c \in issued : c.frame = frame[p]}
             open    == [q \in Player |-> localStatus[q] = "INGAME"]
             newOpen == [q \in Player |-> localStatus'[q] = "INGAME"]
             f       == Len(executed[p]) + 1
  <1>1. Runs(p, cs)
    BY FrameRun
  <1>2. newOpen = open
    <2>1. \A q \in Player : localStatus'[q] = "INGAME" <=> localStatus[q] = "INGAME"
      BY FrameRun
    <2> QED BY <2>1
  <1>3. f = frame[p]
    BY NumberTypes DEF IndInv, CountersInv
  <1>4. \A q \in Player : open[q] => lastFrameCompleted[q] >= f
    <2> SUFFICES ASSUME NEW q \in Player, localStatus[q] = "INGAME"
                 PROVE  lastFrameCompleted[q] >= f
      OBVIOUS
    <2>1. frame[p] <= lastFrameCompleted[q]
      BY FrameCounted
    <2>2. frame[p] \in Nat /\ lastFrameCompleted[q] \in Nat
      BY NumberTypes DEF IndInv
    <2> QED BY <1>3, <2>1, <2>2
  <1>5. Sync!AppointedTo(f) = cs
    BY <1>3 DEF Sync!AppointedTo
  <1>6. /\ executed' = [executed EXCEPT ![p] = Append(@, cs)]
        /\ issued' = issued /\ lastFrameCompleted' = lastFrameCompleted
    BY <1>1 DEF Runs
  <1> HIDE DEF cs
  <1> QED BY <1>2, <1>4, <1>5, <1>6 DEF Sync!Run

\* The order in which the code issues, counts and runs is FrameSync's: the
\* network of messages, counts and rings adds no behaviour of its own.
THEOREM LockstepImplementsFrameSync == Spec => ImplementsFrameSync
  <1>1. Init => Sync!Init
    <2> SUFFICES ASSUME Init PROVE Sync!Init
      OBVIOUS
    <2>1. InitialRunAhead - 1 \in Nat
      BY LockstepAssumption, Sizes
    <2> QED BY <2>1 DEF Init, Sync!Init
  <1>2. ASSUME IndInv, [Next]_vars
        PROVE  [Sync!Next]_(Sync!vars)
    <2>1. CASE UNCHANGED vars
      BY <2>1 DEF vars, networkVars, Sync!vars
    <2>2. CASE \E p \in Player : ReceiveAny(p)
      BY <2>2 DEF ReceiveAny, Receive, networkVars, Sync!vars
    <2>3. CASE \E p \in Player : ExecuteFrame(p)
      BY <1>2, <2>3, RunStep DEF Sync!Next
    <2>4. CASE \E p \in Player : \/ FrameTick(p) \/ SendLocalGameMessage(p)
                                 \/ UpdateRunAhead(p) \/ ClearGameData(p)
      <3>1. PICK p \in Player : \/ FrameTick(p) \/ SendLocalGameMessage(p)
                                \/ UpdateRunAhead(p) \/ ClearGameData(p)
        BY <2>4
      <3>2. Announced(p) /\ TypeOK'
        BY <1>2, <3>1, StepAnnounces
      <3> QED BY <1>2, <3>2, AnnounceStep DEF Sync!Next
    <2> QED BY <1>2, <2>1, <2>2, <2>3, <2>4 DEF Next
  <1> QED BY <1>1, <1>2, LockstepInvariance, PTL DEF Spec, ImplementsFrameSync, Sync!Spec

-----------------------------------------------------------------------------
(*****************************************************************************)
(* Beside and by the invariant.                                              *)
(*****************************************************************************)

-----------------------------------------------------------------------------
(* What a step does to one player's rings.                                  *)

\* p adds to his own ring, or is sent something.
Issues(p) == \E c \in Command : NextCommand(p, c) /\ \E cs \in SUBSET Command : Issue(p, c, cs)
Receives(p) == \E m \in inFlight[p] : Receive(p, m)

LEMMA IssuingSteps ==
  ASSUME IndInv, NEW p \in Player,
         SendLocalGameMessage(p) \/ UpdateRunAhead(p) \/ ClearGameData(p)
  PROVE  Issues(p)
  <1>1. TypeOK /\ localStatus[p] = "INGAME"
    BY DEF IndInv, SendLocalGameMessage, UpdateRunAhead, ClearGameData
  <1>2. /\ ExecutionFrame(p) \in Nat /\ nextID[p] \in Nat
        /\ frame[p] + runAhead[p] <= ExecutionFrame(p)
        /\ frame[p] \in Nat /\ runAhead[p] \in Nat
    BY <1>1, ExecutionFrameBounds, NumberTypes
  <1>3. CASE SendLocalGameMessage(p)
    <2>1. NextCommand(p, GameCommand(p))
      BY <1>1, <1>2 DEF NextCommand, GameCommand, Command, CommandType
    <2>2. Issue(p, GameCommand(p), {}) /\ {} \in SUBSET Command
      BY <1>3 DEF SendLocalGameMessage
    <2>3. GameCommand(p) \in Command
      BY <2>1 DEF NextCommand
    <2> QED BY <2>1, <2>2, <2>3, Zenon DEF Issues
  <1>4. CASE UpdateRunAhead(p)
    <2>1. PICK r \in NewRunAheads : Issue(p, RunAheadCommand(p, r), {})
      BY <1>4 DEF UpdateRunAhead
    <2>2. r \in Nat
      BY RunAheadRange DEF NewRunAheads
    <2>3. NextCommand(p, RunAheadCommand(p, r))
      BY <1>1, <1>2, <2>2 DEF NextCommand, RunAheadCommand, Command, CommandType
    <2>4. RunAheadCommand(p, r) \in Command /\ {} \in SUBSET Command
      BY <2>3 DEF NextCommand
    <2> QED BY <2>1, <2>3, <2>4, Zenon DEF Issues
  <1>5. CASE ClearGameData(p)
    <2> DEFINE cs == PendingFrameInfos(p) \cup LeaveFrameInfos(p)
    <2>1. cs \in SUBSET Command
      BY <1>1, PendingFrameInfosType, LeaveFrameInfosType
    <2>2. Issue(p, PlayerLeaveCommand(p), cs)
      BY <1>5 DEF ClearGameData
    <2>3. PlayerLeaveCommand(p).id = nextID[p]
      BY DEF PlayerLeaveCommand
    <2>4. NextCommand(p, PlayerLeaveCommand(p)) /\ PlayerLeaveCommand(p) \in Command
      BY <1>1, <2>3, PlayerLeaveCommandType DEF NextCommand
    <2> HIDE DEF cs
    <2> QED BY <2>1, <2>2, <2>4, Zenon DEF Issues
  <1> QED BY <1>3, <1>4, <1>5

\* Players other than the one who acts keep what they have.
LEMMA OthersKeep ==
  ASSUME IndInv, NEW r \in Player,
         \/ FrameTick(r) \/ SendLocalGameMessage(r) \/ UpdateRunAhead(r) \/ ClearGameData(r)
         \/ ReceiveAny(r) \/ ExecuteFrame(r),
         NEW p \in Player, p # r
  PROVE  frame'[p] = frame[p] /\ quitFrame'[p] = quitFrame[p] /\ frameData'[p] = frameData[p]
  <1>1. /\ frame \in [Player -> Nat] /\ quitFrame \in [Player -> [Player -> Nat]]
        /\ frameData \in [Player -> [Player -> FrameRings(Command)]]
    BY DEF IndInv, TypeOK
  <1>2. CASE FrameTick(r)
    BY <1>2 DEF FrameTick
  <1>3. CASE SendLocalGameMessage(r)
    BY <1>1, <1>3 DEF SendLocalGameMessage, Issue
  <1>4. CASE UpdateRunAhead(r)
    BY <1>1, <1>4 DEF UpdateRunAhead, Issue
  <1>5. CASE ClearGameData(r)
    BY <1>1, <1>5 DEF ClearGameData, Issue
  <1>6. CASE ReceiveAny(r)
    BY <1>1, <1>6 DEF ReceiveAny, Receive
  <1>7. CASE ExecuteFrame(r)
    <2>1. /\ \E n : frame' = [frame EXCEPT ![r] = n]
          /\ \E n : quitFrame' = [quitFrame EXCEPT ![r] = n]
          /\ \E n : frameData' = [frameData EXCEPT ![r] = n]
      BY <1>7, Zenon DEF ExecuteFrame
    <2> QED BY <1>1, <2>1
  <1> QED BY <1>2, <1>3, <1>4, <1>5, <1>6, <1>7

-----------------------------------------------------------------------------
(* A ready frame stays ready.                                               *)

ReadyFor(p, q) == quitFrame[p][q] = 0 => Ready(frameData[p][q], frame[p])

LEMMA IssueKeepsReady ==
  ASSUME IndInv, NEW p \in Player, Issues(p), NEW q \in Player, ReadyFor(p, q),
         UNCHANGED <<frame, quitFrame>>
  PROVE  ReadyFor(p, q)'
  <1>1. PICK c \in Command : NextCommand(p, c) /\ \E cs \in SUBSET Command : Issue(p, c, cs)
    BY DEF Issues
  <1>2. /\ frameData \in [Player -> [Player -> FrameRings(Command)]]
        /\ frameData[p][p] \in FrameRings(Command) /\ frame[p] \in Nat
    BY NumberTypes DEF IndInv, TypeOK
  <1>3. frameData' = [frameData EXCEPT ![p][p] = addNetCommandMsg(@, c, TRUE)]
    BY <1>1 DEF Issue
  <1>4. CASE q # p
    <2>1. frameData'[p][q] = frameData[p][q]
      BY <1>2, <1>3, <1>4
    <2> QED BY <2>1 DEF ReadyFor
  <1>5. CASE q = p
    <2> DEFINE ring == addNetCommandMsg(frameData[p][p], c, TRUE)
    <2>1. frameData'[p][q] = ring
      BY <1>2, <1>3, <1>5
    <2>2. Slot(frame[p]) \in FrameIndex
      BY <1>2, SlotType
    <2>3. CASE Slot(frame[p]) = Slot(c.frame)
      <3> DEFINE fd == addCommand(frameData[p][p][Slot(c.frame)], c)
      <3>1. ring[Slot(c.frame)] = [frameCommandCount |-> fd.commandCount,
                                   commandCount |-> fd.commandCount,
                                   commandList |-> fd.commandList]
        BY <1>2, OwnRing, Zenon
      <3> HIDE DEF fd, ring
      <3>2. ring[Slot(c.frame)].frameCommandCount = ring[Slot(c.frame)].commandCount
        BY <3>1
      <3> QED BY <1>5, <2>1, <2>3, <3>2 DEF ReadyFor, Ready
    <2>4. CASE Slot(frame[p]) # Slot(c.frame)
      <3>1. ring[Slot(frame[p])] = frameData[p][p][Slot(frame[p])]
        BY <1>2, <2>2, <2>4, OwnRing
      <3> QED BY <1>5, <2>1, <3>1 DEF ReadyFor, Ready
    <2> QED BY <2>3, <2>4
  <1> QED BY <1>4, <1>5

\* What p is sent for his frame once it is ready he has already, and its count
\* is the one he has.
LEMMA StoredKeepsReady ==
  ASSUME IndInv, NEW p \in Player, localStatus[p] # "LEFT", AllCommandsReady(p),
         NEW m \in inFlight[p], frame[p] <= m.cmd.frame, quitFrame[p][m.cmd.player] = 0
  PROVE  Ready(Stored(p, m), frame[p])
  <1> DEFINE c    == m.cmd
             s    == c.player
             f    == frame[p]
             ring == frameData[p][s]
  <1>1. /\ s \in Player /\ s # p /\ c \in Command /\ c.frame \in Nat /\ c.arg \in Nat
        /\ IF c.type = "FRAMEINFO" THEN c.arg = Cardinality(IssuedFor(s, c.frame))
                                   ELSE c \in issued
    BY MessageFacts
  <1>2. ring \in FrameRings(Command) /\ f \in Nat
    BY <1>1, NumberTypes DEF IndInv, TypeOK
  <1>3. Slot(f) \in FrameIndex
    BY <1>2, SlotType
  <1>4. Ready(ring, f)
    BY <1>1 DEF AllCommandsReady
  <1>5. /\ ring[Slot(f)].commandList = IssuedFor(s, f)
        /\ ring[Slot(f)].commandCount = Cardinality(IssuedFor(s, f))
    <2>1. ring[Slot(f)].commandList = IssuedFor(s, f)
      BY <1>1, ReadySlot
    <2>2. f \in f .. WindowTop(p)
      BY <1>2, Window
    <2>3. HasFrameData(p, s)
      BY DEF HasFrameData
    <2>4. SlotOK(p, s, f)
      BY <1>1, <2>2, <2>3 DEF IndInv, RingInv
    <2> QED BY <2>1, <2>4 DEF SlotOK
  <1>6. CASE c.frame # f
    <2>1. c.frame < f + FRAME_DATA_LENGTH /\ FRAME_DATA_LENGTH \in Nat
      BY MessageReach, Sizes
    <2>2. Slot(c.frame) # Slot(f)
      <3>1. f < c.frame + FRAME_DATA_LENGTH
        BY <1>1, <1>2, <1>6, <2>1
      <3> QED BY <1>1, <1>2, <1>6, <2>1, <3>1, SlotInjective
    <2>3. setFrameCommandCount(ring, c.frame, c.arg)[Slot(f)] = ring[Slot(f)]
      BY <1>1, <1>2, <1>3, <2>2, SetFrameCommandCount
    <2>4. addNetCommandMsg(ring, c, FALSE)[Slot(f)] = ring[Slot(f)]
      BY <1>1, <1>2, <1>3, <2>2, TheirRing
    <2> QED BY <1>4, <2>3, <2>4 DEF Stored, Ready
  <1>7. CASE c.frame = f
    <2>1. CASE c.type = "FRAMEINFO"
      <3> DEFINE new == setFrameCommandCount(ring, f, c.arg)
      <3>1. /\ new[Slot(f)].commandCount = ring[Slot(f)].commandCount
            /\ new[Slot(f)].frameCommandCount = c.arg
        <4> DEFINE n == c.arg
        <4>1. ring \in FrameRings(Command) /\ f \in Int /\ n \in Nat
          BY <1>1, <1>2
        <4> HIDE DEF ring, f, n
        <4>2. /\ setFrameCommandCount(ring, f, n)[Slot(f)].commandCount = ring[Slot(f)].commandCount
              /\ setFrameCommandCount(ring, f, n)[Slot(f)].frameCommandCount = n
          BY <4>1, SetFrameCommandCount
        <4> QED BY <4>2 DEF new, n
      <3>2. Stored(p, m) = new
        BY <1>7, <2>1 DEF Stored
      <3>3. c.arg = Cardinality(IssuedFor(s, f))
        BY <1>1, <1>7, <2>1
      <3> HIDE DEF new
      <3> QED BY <1>5, <3>1, <3>2, <3>3 DEF Ready
    <2>2. CASE c.type # "FRAMEINFO"
      <3>1. c \in ring[Slot(f)].commandList
        BY <1>1, <1>5, <1>7, <2>2 DEF IssuedFor
      <3>2. addNetCommandMsg(ring, c, FALSE)[Slot(f)] = ring[Slot(f)]
        <4>1. addNetCommandMsg(ring, c, FALSE)[Slot(c.frame)]
                = addCommand(ring[Slot(c.frame)], c)
          <5>1. c \in Command /\ ring \in FrameRings(Command)
            BY <1>1, <1>2
          <5> HIDE DEF ring, c
          <5> QED BY <5>1, TheirRing, Zenon
        <4> QED BY <1>7, <3>1, <4>1 DEF addCommand
      <3> QED BY <1>4, <2>2, <3>2 DEF Stored, Ready
    <2> QED BY <2>1, <2>2
  <1> QED BY <1>6, <1>7

LEMMA ReceiveKeepsReady ==
  ASSUME IndInv, NEW p \in Player, Receives(p), AllCommandsReady(p), NEW q \in Player
  PROVE  ReadyFor(p, q)'
  <1>1. PICK m \in inFlight[p] : Receive(p, m)
    BY DEF Receives
  <1>2. /\ localStatus[p] # "LEFT" /\ ~ OutOfDate(p, m.cmd)
        /\ UNCHANGED <<frame, quitFrame>>
        /\ frameData' = IF HasFrameData(p, m.cmd.player)
                          THEN [frameData EXCEPT ![p][m.cmd.player] = Stored(p, m)]
                          ELSE frameData
    BY <1>1 DEF Receive
  <1>3. /\ m.cmd.player \in Player /\ frame[p] <= m.cmd.frame
        /\ frameData \in [Player -> [Player -> FrameRings(Command)]]
    <2>1. m.cmd.player \in Player /\ m.cmd.frame \in Nat
      BY MessageFacts
    <2>2. TypeOK
      BY DEF IndInv
    <2>3. frame[p] \in Nat
      BY <2>2, NumberTypes
    <2>4. frame[p] <= m.cmd.frame
      BY <1>2, <2>1, <2>3 DEF OutOfDate
    <2>5. frameData \in [Player -> [Player -> FrameRings(Command)]]
      BY <2>2 DEF TypeOK
    <2> QED BY <2>1, <2>4, <2>5
  <1> SUFFICES ASSUME quitFrame[p][q] = 0 PROVE Ready(frameData'[p][q], frame[p])
    BY <1>2 DEF ReadyFor
  <1>4. CASE q = m.cmd.player /\ HasFrameData(p, q)
    <2>1. frameData'[p][q] = Stored(p, m)
      BY <1>2, <1>3, <1>4
    <2> QED BY <1>2, <1>3, <1>4, <2>1, StoredKeepsReady
  <1>5. CASE q # m.cmd.player \/ ~ HasFrameData(p, q)
    <2>1. frameData'[p][q] = frameData[p][q]
      BY <1>2, <1>3, <1>5
    <2> QED BY <2>1 DEF AllCommandsReady
  <1> QED BY <1>4, <1>5

\* A ready frame stays ready till it is run, whatever arrives late or again:
\* Network::update may find it ready in one call and run it in another.
THEOREM ReadyStaysReady == Spec => ReadyIsStable
  <1> DEFINE Stable == \A p \in Player :
               AllCommandsReady(p) /\ frame'[p] = frame[p] => AllCommandsReady(p)'
  <1>1. IndInv /\ [Next]_vars => Stable
    <2> SUFFICES ASSUME IndInv, [Next]_vars, NEW p \in Player,
                        AllCommandsReady(p), frame'[p] = frame[p]
                 PROVE  AllCommandsReady(p)'
      OBVIOUS
    <2>1. \A q \in Player : ReadyFor(p, q)
      BY DEF AllCommandsReady, ReadyFor
    <2>2. SUFFICES \A q \in Player : ReadyFor(p, q)'
      BY DEF AllCommandsReady, ReadyFor
    <2>3. CASE UNCHANGED vars
      BY <2>1, <2>3 DEF vars, ReadyFor, Ready
    <2>4. ASSUME NEW r \in Player, r # p,
                 \/ FrameTick(r) \/ SendLocalGameMessage(r) \/ UpdateRunAhead(r)
                 \/ ClearGameData(r) \/ ReceiveAny(r) \/ ExecuteFrame(r)
          PROVE  \A q \in Player : ReadyFor(p, q)'
      <3>1. frame'[p] = frame[p] /\ quitFrame'[p] = quitFrame[p] /\ frameData'[p] = frameData[p]
        BY <2>4, OthersKeep
      <3> QED BY <2>1, <3>1 DEF ReadyFor, Ready
    <2>5. CASE FrameTick(p)
      BY <2>1, <2>5 DEF FrameTick, ReadyFor, Ready
    <2>6. CASE SendLocalGameMessage(p) \/ UpdateRunAhead(p) \/ ClearGameData(p)
      <3>1. UNCHANGED <<frame, quitFrame>>
        BY <2>6 DEF SendLocalGameMessage, UpdateRunAhead, ClearGameData
      <3>2. Issues(p)
        BY <2>6, IssuingSteps
      <3> QED BY <2>1, <3>1, <3>2, IssueKeepsReady
    <2>7. CASE ReceiveAny(p)
      <3>1. Receives(p)
        BY <2>7 DEF ReceiveAny, Receives
      <3> QED BY <3>1, ReceiveKeepsReady
    <2>8. CASE ExecuteFrame(p)
      <3>1. frame'[p] = frame[p] + 1 /\ frame[p] \in Nat
        BY <2>8, NumberTypes DEF ExecuteFrame, IndInv, TypeOK
      <3> QED BY <3>1
    <2> QED BY <2>3, <2>4, <2>5, <2>6, <2>7, <2>8 DEF Next
  <1>2. Stable => [Stable]_vars
    OBVIOUS
  <1> HIDE DEF Stable
  <1>3. Spec => [][Stable]_vars
    BY <1>1, LockstepInvariance, PTL DEF Spec
  <1> QED BY <1>3 DEF ReadyIsStable, Stable

-----------------------------------------------------------------------------
(* Players on one frame use one run ahead: there is one history of run      *)
(* aheads, h[f] the one used on frame f, which everybody follows.           *)

\* RunAheadAfter for a player whose run ahead is r.
RunAheadFrom(r, cs) ==
  LET changes == {c \in cs : c.type = "RUNAHEAD"}
      last    == {c \in changes : \A d \in changes : d.id <= c.id}
  IN  IF last = {} THEN r ELSE (CHOOSE c \in last : TRUE).arg

FollowedBy(h, p) ==
  /\ runAhead[p] = h[frame[p]]
  /\ \A f \in 1 .. Len(executed[p]) : h[f + 1] = RunAheadFrom(h[f], executed[p][f])

RunAheadInv == \E h \in [Nat -> Nat] : \A p \in Player : FollowedBy(h, p)

\* p runs frame f with cs and goes on to r; h is right up to f.
LEMMA FollowedOn ==
  ASSUME IndInv, NEW p \in Player, ExecuteFrame(p),
         NEW h, NEW g, FollowedBy(h, p),
         \A n \in 1 .. frame[p] : g[n] = h[n],
         g[frame[p] + 1] = runAhead'[p]
  PROVE  FollowedBy(g, p)'
  <1> DEFINE cs == {c \in issued : c.frame = frame[p]}
             f  == frame[p]
  <1>1. TypeOK /\ Runs(p, cs)
    BY FrameRun DEF IndInv
  <1>2. cs \in SUBSET Command
    BY <1>1 DEF TypeOK
  <1>3. /\ f \in Nat /\ f >= 1 /\ executed[p] \in Seq(SUBSET Command)
        /\ Len(executed[p]) = f - 1
    BY <1>1, NumberTypes DEF IndInv, CountersInv, TypeOK
  <1>4. runAhead'[p] = RunAheadFrom(runAhead[p], cs)
    <2>1. runAhead'[p] = RunAheadAfter(p, cs)
      BY <1>1 DEF TypeOK, Runs
    <2> HIDE DEF cs
    <2> QED BY <2>1 DEF RunAheadAfter, RunAheadFrom
  <1>5. executed'[p] = Append(executed[p], cs) /\ frame'[p] = f + 1
    BY <1>1 DEF TypeOK, Runs
  <1>6. /\ Len(executed'[p]) = f /\ executed'[p][f] = cs
        /\ \A n \in 1 .. (f - 1) : executed'[p][n] = executed[p][n]
    <2> HIDE DEF cs, f
    <2> QED BY <1>2, <1>3, <1>5
  <1> HIDE DEF cs, f
  <1>7. ASSUME NEW n \in 1 .. f PROVE g[n + 1] = RunAheadFrom(g[n], executed'[p][n])
    <2>1. CASE n = f
      <3>1. g[f] = h[f] /\ h[f] = runAhead[p] /\ g[f + 1] = runAhead'[p]
        BY <1>3 DEF FollowedBy, f
      <3> QED BY <1>4, <1>6, <2>1, <3>1
    <2>2. CASE n # f
      <3>1. n \in 1 .. (f - 1) /\ n + 1 \in 1 .. f
        BY <1>3, <2>2
      <3>2. h[n + 1] = RunAheadFrom(h[n], executed[p][n])
        BY <1>3, <3>1 DEF FollowedBy
      <3>3. g[n] = h[n] /\ g[n + 1] = h[n + 1]
        BY <3>1 DEF f
      <3> QED BY <1>6, <3>1, <3>2, <3>3
    <2> QED BY <2>1, <2>2
  <1>8. g[f + 1] = runAhead'[p]
    BY DEF f
  <1> QED BY <1>5, <1>6, <1>7, <1>8 DEF FollowedBy

\* The others did not move, and are not past f.
LEMMA FollowedStill ==
  ASSUME IndInv, NEW p \in Player, NEW f \in Nat, NEW h, NEW g, FollowedBy(h, p),
         \A n \in 1 .. f : g[n] = h[n], frame[p] <= f,
         runAhead'[p] = runAhead[p] /\ frame'[p] = frame[p] /\ executed'[p] = executed[p]
  PROVE  FollowedBy(g, p)'
  <1>1. /\ frame[p] \in Nat /\ frame[p] >= 1 /\ Len(executed[p]) = frame[p] - 1
    BY NumberTypes DEF IndInv, CountersInv
  <1>2. frame[p] \in 1 .. f
    BY <1>1
  <1>3. \A n \in 1 .. Len(executed[p]) : n \in 1 .. f /\ n + 1 \in 1 .. f
    BY <1>1
  <1> QED BY <1>2, <1>3 DEF FollowedBy

LEMMA ExecuteKeepsRunAheads ==
  ASSUME IndInv, RunAheadInv, NEW p \in Player, ExecuteFrame(p)
  PROVE  RunAheadInv'
  <1> DEFINE f  == frame[p]
             cs == {c \in issued : c.frame = f}
  <1>1. PICK h \in [Nat -> Nat] : \A q \in Player : FollowedBy(h, q)
    BY DEF RunAheadInv
  <1>2. TypeOK /\ TypeOK' /\ Runs(p, cs)
    BY FrameRun, ExecuteFrameType DEF IndInv
  <1>3. f \in Nat /\ runAhead'[p] \in Nat /\ runAhead'[p] = RunAheadAfter(p, cs)
    <2>1. runAhead'[p] \in RunAheads
      BY <1>2 DEF TypeOK
    <2>2. f \in Nat
      BY <1>2, NumberTypes
    <2> QED BY <1>2, <2>1, <2>2, RunAheadRange DEF TypeOK, Runs
  <1>4. \A q \in Player : q # p => /\ runAhead'[q] = runAhead[q]
                                   /\ frame'[q] = frame[q] /\ executed'[q] = executed[q]
    BY <1>2 DEF TypeOK, Runs
  <1> HIDE DEF cs
  <1>5. CASE \E q \in Player : f < frame[q]
    <2>1. PICK q \in Player : f < frame[q]
      BY <1>5
    <2>2. f \in 1 .. Len(executed[q])
      <3>1. frame[q] \in Nat /\ frame[p] \in Nat
        BY <1>2, NumberTypes
      <3>2. frame[p] >= 1 /\ Len(executed[q]) = frame[q] - 1
        BY DEF IndInv, CountersInv
      <3>3. 1 <= frame[p] /\ frame[p] <= frame[q] - 1 /\ frame[q] - 1 \in Int
        <4>1. frame[p] < frame[q]
          BY <2>1
        <4>2. 1 <= frame[p]
          BY <3>1, <3>2
        <4> QED BY <3>1, <4>1, <4>2
      <3> QED BY <3>1, <3>2, <3>3
    <2>3. executed[q][f] = cs
      BY <2>2 DEF IndInv, FrozenInv, cs
    <2>4. h[f + 1] = runAhead'[p]
      <3>1. h[f + 1] = RunAheadFrom(h[f], cs)
        BY <1>1, <2>2, <2>3 DEF FollowedBy
      <3>2. h[f] = runAhead[p]
        BY <1>1 DEF FollowedBy
      <3> QED BY <1>3, <3>1, <3>2 DEF RunAheadAfter, RunAheadFrom
    <2>5. FollowedBy(h, p)'
      BY <1>1, <2>4, FollowedOn
    <2>6. ASSUME NEW r \in Player, r # p PROVE FollowedBy(h, r)'
      <3>1. FollowedBy(h, r) /\ runAhead'[r] = runAhead[r]
            /\ frame'[r] = frame[r] /\ executed'[r] = executed[r]
        BY <1>1, <1>4, <2>6
      <3> QED BY <3>1 DEF FollowedBy
    <2> QED BY <2>5, <2>6 DEF RunAheadInv
  <1>6. CASE \A q \in Player : ~ (f < frame[q])
    <2>1. \E g \in [Nat -> Nat] : g[f + 1] = runAhead'[p] /\ \A n \in 1 .. f : g[n] = h[n]
      <3> DEFINE k == [n \in Nat |-> IF n = f + 1 THEN runAhead'[p] ELSE h[n]]
      <3>1. k \in [Nat -> Nat] /\ k[f + 1] = runAhead'[p] /\ \A n \in 1 .. f : k[n] = h[n]
        BY <1>3
      <3> HIDE DEF k
      <3> QED BY <3>1
    <2>2. PICK g \in [Nat -> Nat] :
            g[f + 1] = runAhead'[p] /\ \A n \in 1 .. f : g[n] = h[n]
      BY <2>1
    <2>3. FollowedBy(g, p)'
      BY <1>1, <2>2, FollowedOn
    <2>4. ASSUME NEW r \in Player, r # p PROVE FollowedBy(g, r)'
      <3>1. /\ FollowedBy(h, r) /\ runAhead'[r] = runAhead[r]
            /\ frame'[r] = frame[r] /\ executed'[r] = executed[r]
        BY <1>1, <1>4, <2>4
      <3>2. frame[r] <= f
        <4>1. frame[r] \in Nat
          BY <1>2, NumberTypes
        <4> QED BY <1>3, <1>6, <4>1
      <3> HIDE DEF f
      <3> QED BY <1>3, <2>2, <3>1, <3>2, FollowedStill
    <2> QED BY <2>3, <2>4 DEF RunAheadInv
  <1> QED BY <1>5, <1>6

\* However RUNAHEADs and frames interleave, players on the same frame use the
\* same run ahead (processRunAheadCommand).
THEOREM RunAheadsAgree == Spec => []RunAheadAgreement
  <1>1. Init => RunAheadInv
    <2> SUFFICES ASSUME Init PROVE RunAheadInv
      OBVIOUS
    <2> DEFINE h == [n \in Nat |-> InitialRunAhead]
    <2>1. h \in [Nat -> Nat]
      BY RunAheadRange
    <2>2. ASSUME NEW p \in Player PROVE FollowedBy(h, p)
      <3>1. /\ runAhead[p] = InitialRunAhead /\ frame[p] = 1 /\ executed[p] = << >>
        BY DEF Init
      <3>2. h[1] = InitialRunAhead /\ 1 .. Len(executed[p]) = {}
        BY <3>1
      <3> QED BY <3>1, <3>2 DEF FollowedBy
    <2> QED BY <2>1, <2>2 DEF RunAheadInv
  <1>2. IndInv /\ RunAheadInv /\ [Next]_vars => RunAheadInv'
    <2> SUFFICES ASSUME IndInv, RunAheadInv, [Next]_vars PROVE RunAheadInv'
      OBVIOUS
    <2>1. CASE \E p \in Player : ExecuteFrame(p)
      BY <2>1, ExecuteKeepsRunAheads
    <2>2. CASE UNCHANGED <<frame, runAhead, executed>>
      BY <2>2 DEF RunAheadInv, FollowedBy
    <2>3. ASSUME NEW p \in Player,
                 \/ FrameTick(p) \/ SendLocalGameMessage(p) \/ UpdateRunAhead(p)
                 \/ ClearGameData(p) \/ ReceiveAny(p)
          PROVE  UNCHANGED <<frame, runAhead, executed>>
      BY <2>3 DEF FrameTick, SendLocalGameMessage, UpdateRunAhead, ClearGameData,
                  ReceiveAny, Receive, networkVars
    <2>4. UNCHANGED vars => UNCHANGED <<frame, runAhead, executed>>
      BY DEF vars, networkVars
    <2> QED BY <2>1, <2>2, <2>3, <2>4 DEF Next
  <1>3. RunAheadInv => RunAheadAgreement
    BY DEF RunAheadInv, FollowedBy, RunAheadAgreement
  <1> QED BY <1>1, <1>2, <1>3, LockstepInvariance, PTL DEF Spec

-----------------------------------------------------------------------------
(* No slot mixes two frames: what is in a slot was issued for a frame that  *)
(* is kept, and a leaver's rings are dropped when his last frame is no      *)
(* longer kept.                                                             *)

Keeps(p, q, c) == c \in issued /\ c.player = q /\ frame[p] - FRAMES_TO_KEEP <= c.frame

ListOK(p, q, k) ==
  \A c \in frameData[p][q][k].commandList : Keeps(p, q, c) /\ Slot(c.frame) = k

ListsInv ==
  \A p, q \in Player : localStatus[p] = "INGAME" => \A k \in FrameIndex : ListOK(p, q, k)

QuitInv ==
  \A p, q \in Player :
    quitFrame[p][q] # 0 => quitFrame[p][q] = LastCounted(q) + FRAMES_TO_KEEP + 1

AliasInv ==
  /\ \A c \in issued : 1 <= c.frame
  /\ QuitInv
  /\ ListsInv

\* Issuing and counting keep the rings of those who do neither.
LEMMA AnnouncedAlias ==
  ASSUME IndInv, TypeOK', AliasInv, NEW r \in Player, Announced(r)
  PROVE  /\ \A c \in issued' : 1 <= c.frame
         /\ QuitInv'
         /\ \A p, q \in Player : localStatus'[p] = "INGAME" => localStatus[p] = "INGAME"
  <1>1. lastFrameCompleted[r] \in Nat /\ TypeOK
    BY NumberTypes DEF IndInv
  <1>2. ASSUME NEW c \in issued' PROVE 1 <= c.frame
    <2>1. CASE c \in issued
      BY <2>1 DEF AliasInv
    <2>2. CASE c \notin issued
      <3>1. c.frame > lastFrameCompleted[r]
        BY <2>2 DEF Announced
      <3>2. c.frame \in Nat
        BY DEF TypeOK, Command
      <3> QED BY <1>1, <3>1, <3>2
    <2> QED BY <2>1, <2>2
  <1>3. ASSUME NEW p \in Player, NEW q \in Player, quitFrame'[p][q] # 0
        PROVE  quitFrame'[p][q] = LastCounted(q)' + FRAMES_TO_KEEP + 1
    <2>1. quitFrame'[p][q] = quitFrame[p][q] /\ quitFrame[p][q] # 0
      BY <1>3 DEF Announced
    <2>2. localStatus[q] # "INGAME"
      BY <2>1 DEF IndInv, SkewInv
    <2>3. LastCounted(q)' = LastCounted(q)
      BY <2>2 DEF Announced, LastCounted
    <2> QED BY <2>1, <2>3 DEF AliasInv, QuitInv
  <1>4. \A p \in Player : localStatus'[p] = "INGAME" => localStatus[p] = "INGAME"
    BY DEF Announced
  <1> QED BY <1>2, <1>3, <1>4 DEF QuitInv


LEMMA IssueKeepsLists ==
  ASSUME IndInv, ListsInv, NEW p \in Player, Issues(p), frame' = frame,
         issued \subseteq issued', NEW q \in Player, localStatus[p] = "INGAME",
         NEW k \in FrameIndex
  PROVE  ListOK(p, q, k)'
  <1>1. PICK c \in Command : NextCommand(p, c) /\ \E cs \in SUBSET Command : Issue(p, c, cs)
    BY DEF Issues
  <1>2. /\ TypeOK /\ frameData \in [Player -> [Player -> FrameRings(Command)]]
        /\ frameData[p][p] \in FrameRings(Command)
    BY DEF IndInv, TypeOK
  <1>3. /\ frameData' = [frameData EXCEPT ![p][p] = addNetCommandMsg(@, c, TRUE)]
        /\ c \in issued'
    BY <1>1 DEF Issue
  <1>4. ListOK(p, q, k)
    BY DEF ListsInv
  <1>5. ASSUME frameData'[p][q][k] = frameData[p][q][k] PROVE ListOK(p, q, k)'
    BY <1>4, <1>5 DEF ListOK, Keeps
  <1>6. CASE q # p
    <2>1. frameData'[p][q] = frameData[p][q]
      BY <1>2, <1>3, <1>6
    <2> QED BY <1>5, <2>1
  <1>7. CASE q = p
    <2> DEFINE ring == addNetCommandMsg(frameData[p][p], c, TRUE)
    <2>1. frameData'[p][q] = ring
      BY <1>2, <1>3, <1>7
    <2>2. CASE k # Slot(c.frame)
      <3>1. ring[k] = frameData[p][p][k]
        BY <1>2, <2>2, OwnRing
      <3> QED BY <1>5, <1>7, <2>1, <3>1
    <2>3. CASE k = Slot(c.frame)
      <3> DEFINE old == frameData[p][p][k]
                 fd  == addCommand(old, c)
      <3>1. ring[k] = [frameCommandCount |-> fd.commandCount,
                       commandCount |-> fd.commandCount,
                       commandList |-> fd.commandList]
        BY <1>2, <2>3, OwnRing
      <3>2. fd.commandList = old.commandList \cup {c}
        <4>1. old \in FrameDatas(Command)
          BY <1>2 DEF FrameRings
        <4> HIDE DEF old
        <4> QED BY <4>1, AddCommand
      <3> HIDE DEF fd, ring
      <3>3. frameData'[p][q][k].commandList = old.commandList \cup {c}
        BY <2>1, <3>1, <3>2
      <3>4. Keeps(p, q, c)'
        <4>1. /\ c.player = p /\ c.frame \in {ExecutionFrame(p), ExecutionFrame(p) + 1}
          BY <1>1 DEF NextCommand
        <4>2. /\ ExecutionFrame(p) \in Nat /\ frame[p] <= ExecutionFrame(p)
              /\ frame[p] \in Nat
          <5>1. /\ ExecutionFrame(p) \in Nat /\ frame[p] + runAhead[p] <= ExecutionFrame(p)
            BY <1>2, ExecutionFrameBounds
          <5>2. frame[p] \in Nat /\ runAhead[p] \in Nat
            BY <1>2, NumberTypes
          <5> QED BY <5>1, <5>2
        <4>3. frame[p] - FRAMES_TO_KEEP <= c.frame
          BY <4>1, <4>2, Sizes
        <4> QED BY <1>3, <1>7, <4>1, <4>3 DEF Keeps
      <3>5. \A d \in old.commandList : Keeps(p, q, d)' /\ Slot(d.frame) = k
        BY <1>4, <1>7 DEF ListOK, Keeps
      <3> HIDE DEF old
      <3> QED BY <2>3, <3>3, <3>4, <3>5 DEF ListOK
    <2> QED BY <2>2, <2>3
  <1> QED BY <1>6, <1>7

LEMMA StoredLists ==
  ASSUME IndInv, NEW p \in Player, NEW m \in inFlight[p], NEW k \in FrameIndex
  PROVE  \/ Stored(p, m)[k].commandList = frameData[p][m.cmd.player][k].commandList
         \/ /\ k = Slot(m.cmd.frame) /\ m.cmd \in issued
            /\ Stored(p, m)[k].commandList =
                 frameData[p][m.cmd.player][k].commandList \cup {m.cmd}
  <1> DEFINE c == m.cmd
             s == c.player
             ring == frameData[p][s]
  <1>1. /\ s \in Player /\ c \in Command /\ c.frame \in Int /\ c.arg \in Nat
        /\ c.type # "FRAMEINFO" => c \in issued
    BY MessageFacts
  <1>2. ring \in FrameRings(Command)
    BY <1>1 DEF IndInv, TypeOK
  <1>3. CASE c.type = "FRAMEINFO"
    <2> DEFINE f == c.frame
               n == c.arg
               new == setFrameCommandCount(ring, f, n)
    <2>1. Stored(p, m) = new
      BY <1>3 DEF Stored
    <2>2. f \in Int /\ n \in Nat
      BY <1>1
    <2>3. new[k].commandList = ring[k].commandList
      <3> HIDE DEF ring, f, n
      <3>1. /\ \A j \in FrameIndex \ {Slot(f)} : new[j] = ring[j]
            /\ new[Slot(f)].commandList = ring[Slot(f)].commandList
        BY <1>2, <2>2, SetFrameCommandCount
      <3> HIDE DEF new
      <3> QED BY <3>1
    <2> QED BY <2>1, <2>3
  <1>4. CASE c.type # "FRAMEINFO" /\ p \in m.relay
    <2> DEFINE new == addNetCommandMsg(ring, c, FALSE)
    <2>1. Stored(p, m) = new
      BY <1>4 DEF Stored
    <2>2. /\ \A j \in FrameIndex \ {Slot(c.frame)} : new[j] = ring[j]
          /\ new[Slot(c.frame)] = addCommand(ring[Slot(c.frame)], c)
      <3> HIDE DEF ring, c
      <3> QED BY <1>1, <1>2, TheirRing
    <2>3. CASE k = Slot(c.frame)
      <3>1. ring[k] \in FrameDatas(Command)
        BY <1>2 DEF FrameRings
      <3>2. addCommand(ring[k], c).commandList = ring[k].commandList \cup {c}
        <4> HIDE DEF ring, c
        <4> QED BY <1>1, <3>1, AddCommand
      <3> HIDE DEF new
      <3> QED BY <1>1, <1>4, <2>1, <2>2, <2>3, <3>2
    <2>4. CASE k # Slot(c.frame)
      <3> HIDE DEF new
      <3> QED BY <2>1, <2>2, <2>4
    <2> QED BY <2>3, <2>4
  <1>5. CASE c.type # "FRAMEINFO" /\ p \notin m.relay
    BY <1>5 DEF Stored
  <1> QED BY <1>3, <1>4, <1>5

LEMMA ReceiveKeepsLists ==
  ASSUME IndInv, ListsInv, NEW p \in Player, Receives(p), NEW q \in Player,
         localStatus[p] = "INGAME", NEW k \in FrameIndex
  PROVE  ListOK(p, q, k)'
  <1>1. PICK m \in inFlight[p] : Receive(p, m)
    BY DEF Receives
  <1>2. /\ ~ OutOfDate(p, m.cmd) /\ UNCHANGED <<frame, issued>>
        /\ frameData' = IF HasFrameData(p, m.cmd.player)
                          THEN [frameData EXCEPT ![p][m.cmd.player] = Stored(p, m)]
                          ELSE frameData
    BY <1>1 DEF Receive
  <1>3. /\ m.cmd.player \in Player /\ m.cmd.frame \in Nat /\ frame[p] \in Nat
        /\ frameData \in [Player -> [Player -> FrameRings(Command)]]
    <2>1. m.cmd.player \in Player /\ m.cmd.frame \in Nat
      BY MessageFacts
    <2>2. TypeOK
      BY DEF IndInv
    <2>3. frame[p] \in Nat
      BY <2>2, NumberTypes
    <2> QED BY <2>1, <2>2, <2>3 DEF TypeOK
  <1>4. ListOK(p, q, k)
    BY DEF ListsInv
  <1>5. ASSUME frameData'[p][q][k].commandList = frameData[p][q][k].commandList
        PROVE  ListOK(p, q, k)'
    BY <1>2, <1>4, <1>5 DEF ListOK, Keeps
  <1>6. CASE q = m.cmd.player /\ HasFrameData(p, q)
    <2>1. frameData'[p][q] = Stored(p, m)
      BY <1>2, <1>3, <1>6
    <2>2. CASE Stored(p, m)[k].commandList = frameData[p][m.cmd.player][k].commandList
      BY <1>5, <1>6, <2>1, <2>2
    <2>3. CASE /\ k = Slot(m.cmd.frame) /\ m.cmd \in issued
               /\ Stored(p, m)[k].commandList =
                    frameData[p][m.cmd.player][k].commandList \cup {m.cmd}
      <3>1. frame[p] - FRAMES_TO_KEEP <= m.cmd.frame
        BY <1>2, <1>3, Sizes DEF OutOfDate
      <3>2. Keeps(p, q, m.cmd)'
        BY <1>2, <1>6, <2>3, <3>1 DEF Keeps
      <3>3. frameData'[p][q][k].commandList = frameData[p][q][k].commandList \cup {m.cmd}
        BY <1>6, <2>1, <2>3
      <3>4. \A d \in frameData[p][q][k].commandList : Keeps(p, q, d)' /\ Slot(d.frame) = k
        BY <1>2, <1>4 DEF ListOK, Keeps
      <3> QED BY <2>3, <3>2, <3>3, <3>4 DEF ListOK
    <2> QED BY <2>2, <2>3, StoredLists
  <1>7. CASE q # m.cmd.player \/ ~ HasFrameData(p, q)
    <2>1. frameData'[p][q] = frameData[p][q]
      BY <1>2, <1>3, <1>7
    <2> QED BY <1>5, <2>1
  <1> QED BY <1>6, <1>7

\* What running a frame leaves in a ring is kept for the next one too.
LEMMA AdvancedLists ==
  ASSUME IndInv, AliasInv, NEW p \in Player, localStatus[p] = "INGAME",
         NEW q \in Player, NEW k \in FrameIndex,
         NEW c \in Advanced(p, q)[k].commandList
  PROVE  Keeps(p, q, c) /\ Slot(c.frame) = k /\ frame[p] + 1 - FRAMES_TO_KEEP <= c.frame
  <1> DEFINE ring == frameData[p][q]
             f    == frame[p]
             g    == f - FRAMES_TO_KEEP
  <1>1. /\ TypeOK /\ f \in Nat /\ g \in Int /\ FRAMES_TO_KEEP \in Nat
        /\ quitFrame[p][q] \in Nat /\ LastCounted(q) \in Nat
    BY NumberTypes, Sizes DEF IndInv
  <1>2. ASSUME c \in ring[k].commandList
        PROVE  /\ Keeps(p, q, c) /\ Slot(c.frame) = k
               /\ c \in issued /\ c.player = q /\ c.frame \in Nat /\ g <= c.frame /\ 1 <= c.frame
    <2>1. Keeps(p, q, c) /\ Slot(c.frame) = k
      BY <1>2 DEF AliasInv, ListsInv, ListOK
    <2>2. c \in issued /\ c.player = q /\ g <= c.frame
      BY <2>1 DEF Keeps
    <2>3. c.frame \in Nat /\ 1 <= c.frame
      BY <1>1, <2>2 DEF AliasInv, TypeOK, Command
    <2> QED BY <2>1, <2>2, <2>3
  <1>3. CASE f > FRAMES_TO_KEEP /\ HasFrameData(p, q)
    <2> DEFINE own == (p = q)
               new == resetFrame(ring, g, own)
    <2>1. ring \in FrameRings(Command) /\ own \in BOOLEAN
      BY <1>1 DEF TypeOK
    <2>2. Advanced(p, q) = new
      BY <1>3 DEF Advanced
    <2>3. /\ \A j \in FrameIndex \ {Slot(g)} : new[j] = ring[j]
          /\ new[Slot(g)] = FreshFrame(own)
      <3> HIDE DEF ring, g, own
      <3> QED BY <1>1, <2>1, ResetFrame
    <2> HIDE DEF new
    <2>4. k # Slot(g)
      BY <2>2, <2>3 DEF FreshFrame
    <2>5. c \in ring[k].commandList
      BY <2>2, <2>3, <2>4
    <2>6. c.frame # g
      BY <1>2, <2>4, <2>5
    <2> QED BY <1>1, <1>2, <2>5, <2>6
  <1>4. CASE ~ (f > FRAMES_TO_KEEP /\ HasFrameData(p, q))
    <2>1. c \in ring[k].commandList
      BY <1>4 DEF Advanced
    <2>2. CASE f <= FRAMES_TO_KEEP
      BY <1>1, <1>2, <2>1, <2>2
    <2>3. CASE f > FRAMES_TO_KEEP
      <3>1. quitFrame[p][q] # 0 /\ ~ (f < quitFrame[p][q])
        BY <1>4, <2>3 DEF HasFrameData
      <3>2. quitFrame[p][q] = LastCounted(q) + FRAMES_TO_KEEP + 1
        BY <3>1 DEF AliasInv, QuitInv
      <3>3. localStatus[q] # "INGAME"
        BY <3>1 DEF IndInv, SkewInv
      <3>4. c.frame <= LastCounted(q)
        BY <1>2, <2>1, <3>3 DEF IndInv, IssuedInv
      <3>5. g <= c.frame /\ c.frame \in Nat
        BY <1>2, <2>1
      <3> QED BY <1>1, <3>1, <3>2, <3>4, <3>5
    <2> QED BY <1>1, <2>2, <2>3
  <1> QED BY <1>3, <1>4

LEMMA ExecuteKeepsAlias ==
  ASSUME IndInv, AliasInv, NEW p \in Player, ExecuteFrame(p)
  PROVE  AliasInv'
  <1> DEFINE cs == {c \in issued : c.frame = frame[p]}
  <1>1. TypeOK /\ Runs(p, cs)
    BY FrameRun DEF IndInv
  <1>2. \A q \in Player : /\ localStatus'[q] = "INGAME" <=> localStatus[q] = "INGAME"
                          /\ LastCounted(q)' = LastCounted(q)
    BY FrameRun
  <1>3. issued' = issued
    BY <1>1 DEF Runs
  <1>4. /\ frame[p] \in Nat /\ FRAMES_TO_KEEP \in Nat
        /\ frame'[p] = frame[p] + 1
        /\ \A q \in Player :
             /\ quitFrame'[p][q] = IF q \in Leavers(cs) \ {p} /\ quitFrame[p][q] = 0
                                     THEN frame[p] + FRAMES_TO_KEEP + 1 ELSE quitFrame[p][q]
             /\ frameData'[p][q] = Advanced(p, q)
    BY <1>1, NumberTypes, Sizes DEF TypeOK, Runs
  <1>5. \A r \in Player : r # p =>
          /\ frame'[r] = frame[r] /\ quitFrame'[r] = quitFrame[r]
          /\ frameData'[r] = frameData[r]
    BY <1>1 DEF TypeOK, Runs
  <1>6. \A q \in Leavers(cs) \cap Player : LastCounted(q) = frame[p]
    BY FrameLeavers
  <1> HIDE DEF cs
  <1>7. ASSUME NEW r \in Player, NEW q \in Player, quitFrame'[r][q] # 0
        PROVE  quitFrame'[r][q] = LastCounted(q)' + FRAMES_TO_KEEP + 1
    <2>1. CASE quitFrame'[r][q] = quitFrame[r][q]
      BY <1>2, <1>7, <2>1 DEF AliasInv, QuitInv
    <2>2. CASE quitFrame'[r][q] # quitFrame[r][q]
      <3>1. r = p /\ q \in Leavers(cs)
        BY <1>4, <1>5, <2>2
      <3>2. quitFrame'[r][q] = frame[p] + FRAMES_TO_KEEP + 1
        BY <1>4, <2>2, <3>1
      <3> QED BY <1>2, <1>6, <3>1, <3>2
    <2> QED BY <2>1, <2>2
  <1>8. ASSUME NEW r \in Player, NEW q \in Player, localStatus'[r] = "INGAME",
               NEW k \in FrameIndex, NEW c \in frameData'[r][q][k].commandList
        PROVE  Keeps(r, q, c)' /\ Slot(c.frame) = k
    <2>1. localStatus[r] = "INGAME"
      BY <1>2, <1>8
    <2>2. CASE r # p
      <3>1. c \in frameData[r][q][k].commandList
        BY <1>5, <1>8, <2>2
      <3>2. Keeps(r, q, c) /\ Slot(c.frame) = k
        BY <2>1, <3>1 DEF AliasInv, ListsInv, ListOK
      <3> QED BY <1>3, <1>5, <2>2, <3>2 DEF Keeps
    <2>3. CASE r = p
      <3>1. c \in Advanced(p, q)[k].commandList
        BY <1>4, <1>8, <2>3
      <3>2. Keeps(p, q, c) /\ Slot(c.frame) = k /\ frame[p] + 1 - FRAMES_TO_KEEP <= c.frame
        BY <2>1, <2>3, <3>1, AdvancedLists
      <3> QED BY <1>3, <1>4, <2>3, <3>2 DEF Keeps
    <2> QED BY <2>2, <2>3
  <1>9. \A c \in issued' : 1 <= c.frame
    BY <1>3 DEF AliasInv
  <1>10. ListsInv'
    BY <1>8 DEF ListsInv, ListOK
  <1> QED BY <1>7, <1>9, <1>10 DEF AliasInv, QuitInv

LEMMA InitAlias == Init => AliasInv
  <1> SUFFICES ASSUME Init PROVE AliasInv
    OBVIOUS
  <1>1. /\ issued = {} /\ \A p, q \in Player : quitFrame[p][q] = 0
        /\ \A p, q \in Player : frameData[p][q] = InitialFrames(p = q, InitialRunAhead)
    BY DEF Init
  <1>2. ASSUME NEW p \in Player, NEW q \in Player, NEW k \in FrameIndex
        PROVE  frameData[p][q][k].commandList = {}
    <2>1. frameData[p][q][k] \in {ZeroFrame, FreshFrame(p = q)}
      <3>1. frameData[p][q] = InitialFrames(p = q, InitialRunAhead)
        BY <1>1
      <3>2. InitialFrames(p = q, InitialRunAhead)[k] =
              IF k \in 1 .. (InitialRunAhead - 1) THEN ZeroFrame ELSE FreshFrame(p = q)
        BY Zenon DEF InitialFrames
      <3> QED BY <3>1, <3>2, Zenon
    <2>2. ZeroFrame.commandList = {} /\ FreshFrame(p = q).commandList = {}
      BY DEF ZeroFrame, FreshFrame
    <2> QED BY <2>1, <2>2
  <1> QED BY <1>1, <1>2 DEF AliasInv, QuitInv, ListsInv, ListOK

LEMMA NextAlias == IndInv /\ AliasInv /\ [Next]_vars => AliasInv'
  <1> SUFFICES ASSUME IndInv, AliasInv, [Next]_vars PROVE AliasInv'
    OBVIOUS
  <1>1. CASE UNCHANGED vars
    BY <1>1 DEF vars, networkVars, AliasInv, QuitInv, ListsInv, ListOK, Keeps, LastCounted
  <1>2. ASSUME NEW r \in Player, ExecuteFrame(r) PROVE AliasInv'
    BY <1>2, ExecuteKeepsAlias
  <1>3. ASSUME NEW r \in Player, ReceiveAny(r) PROVE AliasInv'
    <2>1. Receives(r) /\ UNCHANGED <<frame, networkVars, quitFrame, issued>>
      BY <1>3 DEF ReceiveAny, Receives, Receive
    <2>2. UNCHANGED <<localStatus, lastFrameCompleted>>
      BY <2>1 DEF networkVars
    <2>3. QuitInv' /\ \A c \in issued' : 1 <= c.frame
      BY <2>1, <2>2 DEF AliasInv, QuitInv, LastCounted
    <2>4. ASSUME NEW p \in Player, NEW q \in Player, localStatus'[p] = "INGAME",
                 NEW k \in FrameIndex
          PROVE  ListOK(p, q, k)'
      <3>1. ListsInv /\ localStatus[p] = "INGAME"
        BY <2>2, <2>4 DEF AliasInv
      <3>2. CASE p = r
        BY <2>1, <3>1, <3>2, ReceiveKeepsLists
      <3>3. CASE p # r
        <4>1. frameData'[p] = frameData[p]
          BY <1>3, <3>3, OthersKeep
        <4>2. ListOK(p, q, k)
          BY <3>1 DEF ListsInv
        <4> QED BY <2>1, <4>1, <4>2 DEF ListOK, Keeps
      <3> QED BY <3>2, <3>3
    <2> QED BY <2>3, <2>4 DEF AliasInv, ListsInv
  <1>4. ASSUME NEW r \in Player,
               FrameTick(r) \/ SendLocalGameMessage(r) \/ UpdateRunAhead(r) \/ ClearGameData(r)
        PROVE  AliasInv'
    <2>1. Announced(r) /\ TypeOK'
      BY <1>4, StepAnnounces
    <2>2. /\ \A c \in issued' : 1 <= c.frame
          /\ QuitInv'
          /\ \A p, q \in Player : localStatus'[p] = "INGAME" => localStatus[p] = "INGAME"
      BY <2>1, AnnouncedAlias
    <2>3. issued \subseteq issued' /\ frame' = frame
      BY <2>1 DEF Announced
    <2>4. ASSUME NEW p \in Player, NEW q \in Player, localStatus'[p] = "INGAME",
                 NEW k \in FrameIndex
          PROVE  ListOK(p, q, k)'
      <3>1. ListsInv /\ localStatus[p] = "INGAME"
        BY <2>2, <2>4 DEF AliasInv
      <3>2. CASE frameData'[p] = frameData[p]
        <4>1. ListOK(p, q, k)
          BY <3>1 DEF ListsInv
        <4> QED BY <2>3, <3>2, <4>1 DEF ListOK, Keeps
      <3>3. CASE p # r
        <4>1. frameData'[p] = frameData[p]
          BY <1>4, <3>3, OthersKeep
        <4> QED BY <3>2, <4>1
      <3>4. CASE p = r /\ ~ FrameTick(r)
        <4>1. Issues(p)
          BY <1>4, <3>4, IssuingSteps
        <4> QED BY <2>3, <3>1, <4>1, IssueKeepsLists
      <3>5. CASE FrameTick(r)
        <4>1. frameData' = frameData
          BY <3>5 DEF FrameTick
        <4> QED BY <3>2, <4>1
      <3> QED BY <3>3, <3>4, <3>5
    <2> QED BY <2>2, <2>4 DEF AliasInv, ListsInv
  <1> QED BY <1>1, <1>2, <1>3, <1>4 DEF Next

\* While a player is in the game, no slot of his rings mixes two frames: the
\* ring is long enough for the frames kept and the furthest frame anybody
\* issues for, and what is older is forgotten in time (getFrameCommandList,
\* resetFrame, the quit frames of processPlayerLeave).
THEOREM NoSlotIsShared == Spec => []NoAliasing
  <1>1. IndInv /\ AliasInv => NoAliasing
    <2> SUFFICES ASSUME IndInv, AliasInv, NEW p \in Player, NEW q \in Player,
                        NEW k \in FrameIndex, NEW c \in frameData[p][q][k].commandList,
                        localStatus[p] = "INGAME"
                 PROVE  /\ frame[p] - FRAMES_TO_KEEP <= c.frame
                        /\ c.frame < frame[p] - FRAMES_TO_KEEP + FRAME_DATA_LENGTH
      BY DEF NoAliasing
    <2>1. c \in issued /\ c.player = q /\ frame[p] - FRAMES_TO_KEEP <= c.frame
      BY DEF AliasInv, ListsInv, ListOK, Keeps
    <2>2. c.frame \in Nat
      BY <2>1 DEF IndInv, TypeOK, Command
    <2>3. c.frame <= frame[q] + MAX_RUNAHEAD + 1
      BY <2>1, <2>2, CommandFrames
    <2>4. frame[q] <= frame[p] + MAX_RUNAHEAD
      <3>1. quitFrame[q][p] = 0
        BY DEF IndInv, SkewInv
      <3>2. q # p => frame[q] <= lastFrameCompleted[p] + 1
        BY <3>1 DEF IndInv, SkewInv
      <3>3. lastFrameCompleted[p] < frame[p] + MAX_RUNAHEAD
        BY DEF IndInv, CountersInv
      <3>4. frame[q] \in Nat /\ frame[p] \in Nat /\ lastFrameCompleted[p] \in Nat
        BY NumberTypes DEF IndInv
      <3> QED BY <3>2, <3>3, <3>4, Sizes
    <2>5. frame[q] \in Nat /\ frame[p] \in Nat
      BY NumberTypes DEF IndInv
    <2> QED BY <2>1, <2>2, <2>3, <2>4, <2>5, Sizes
  <1> QED BY <1>1, InitAlias, NextAlias, LockstepInvariance, PTL DEF Spec

-----------------------------------------------------------------------------
(* No frame has more commands than announced.  RingInv says so of the       *)
(* frames a player will still run; a leaver's rings are looked at past his  *)
(* last frame, and after it.                                                *)

\* Where the window of p's rings ends, whether p is in the game or not.
RingTop(p) ==
  IF frame[p] <= FRAMES_TO_KEEP THEN FRAME_DATA_LENGTH
  ELSE frame[p] - FRAMES_TO_KEEP + FRAME_DATA_LENGTH - 1

HeardInv ==
  \A p, q \in Player : q # p /\ quitFrame[p][q] = 0 =>
    \A f \in frame[p] .. RingTop(p) : Heard(frameData[p][q][Slot(f)], q, f)

LEMMA RingTopType ==
  ASSUME IndInv, NEW p \in Player
  PROVE  /\ RingTop(p) \in Nat /\ RingTop(p) < frame[p] + FRAME_DATA_LENGTH
         /\ frame[p] + FRAMES_TO_KEEP <= RingTop(p)
         /\ frame[p] \in Nat /\ 1 <= frame[p]
  <1>1. frame[p] \in Nat /\ 1 <= frame[p]
    BY NumberTypes DEF IndInv, CountersInv
  <1> QED BY <1>1, Sizes DEF RingTop

\* What was heard of a frame stays true while its player announces more.
LEMMA HeardStill ==
  ASSUME IndInv, TypeOK', NEW r \in Player, Announced(r), NEW q \in Player,
         NEW f \in Nat, NEW fd, Heard(fd, q, f)
  PROVE  Heard(fd, q, f)'
  <1>1. IssuedFor(q, f) \subseteq IssuedFor(q, f)'
    BY DEF IssuedFor, Announced
  <1>2. f <= LastCounted(q) =>
          f <= LastCounted(q)' /\ IssuedFor(q, f)' = IssuedFor(q, f)
    BY AnnouncedCounts
  <1> QED BY <1>1, <1>2 DEF Heard

LEMMA InitHeard == Init => HeardInv
  <1> SUFFICES ASSUME Init, NEW p \in Player, NEW q \in Player, q # p,
                      NEW f \in frame[p] .. RingTop(p)
               PROVE  Heard(frameData[p][q][Slot(f)], q, f)
    BY DEF HeardInv
  <1>1. WindowTop(p) = RingTop(p) /\ localStatus[p] = "INGAME" /\ quitFrame[p][q] = 0
    BY DEF Init, WindowTop, RingTop
  <1>2. SlotOK(p, q, f)
    BY <1>1, InitIndInv DEF IndInv, RingInv, HasFrameData
  <1> QED BY <1>2 DEF SlotOK, Heard

LEMMA ReceiveKeepsHeard ==
  ASSUME IndInv, HeardInv, NEW p \in Player, Receives(p), NEW q \in Player, q # p,
         quitFrame[p][q] = 0, NEW f \in frame[p] .. RingTop(p)
  PROVE  Heard(frameData'[p][q][Slot(f)], q, f)
  <1>1. PICK m \in inFlight[p] : Receive(p, m)
    BY DEF Receives
  <1>2. /\ localStatus[p] # "LEFT" /\ ~ OutOfDate(p, m.cmd)
        /\ frameData' = IF HasFrameData(p, m.cmd.player)
                          THEN [frameData EXCEPT ![p][m.cmd.player] = Stored(p, m)]
                          ELSE frameData
    BY <1>1 DEF Receive
  <1>3. /\ frame[p] \in Nat /\ RingTop(p) \in Nat
        /\ RingTop(p) < frame[p] + FRAME_DATA_LENGTH /\ FRAME_DATA_LENGTH \in Nat
    BY RingTopType, Sizes
  <1>4. f \in Nat /\ frame[p] <= f /\ f < frame[p] + FRAME_DATA_LENGTH
    BY <1>3
  <1>5. Heard(frameData[p][q][Slot(f)], q, f)
    BY DEF HeardInv
  <1>6. frameData \in [Player -> [Player -> FrameRings(Command)]]
    BY DEF IndInv, TypeOK
  <1>7. CASE q = m.cmd.player
    <2>1. m.cmd.frame \in Nat
      BY MessageFacts
    <2>2. frame[p] <= m.cmd.frame
      BY <1>2, <1>3, <2>1 DEF OutOfDate
    <2>3. Heard(Stored(p, m)[Slot(f)], q, f)
      BY <1>2, <1>4, <1>5, <1>7, <2>2, StoredSlots
    <2>4. frameData'[p][q] = Stored(p, m)
      BY <1>2, <1>6, <1>7 DEF HasFrameData
    <2> QED BY <2>3, <2>4
  <1>8. CASE q # m.cmd.player
    <2>1. frameData'[p][q] = frameData[p][q]
      BY <1>2, <1>6, <1>8
    <2> QED BY <1>5, <2>1
  <1> QED BY <1>7, <1>8

LEMMA ExecuteKeepsHeard ==
  ASSUME IndInv, HeardInv, NEW p \in Player, ExecuteFrame(p), NEW q \in Player, q # p,
         quitFrame'[p][q] = 0, NEW f \in frame'[p] .. RingTop(p)'
  PROVE  Heard(frameData'[p][q][Slot(f)], q, f)
  <1> DEFINE cs == {c \in issued : c.frame = frame[p]}
             L == FRAME_DATA_LENGTH
             K == FRAMES_TO_KEEP
             g == frame[p] - K
  <1>1. TypeOK /\ Runs(p, cs)
    BY FrameRun DEF IndInv
  <1>2. /\ frame[p] \in Nat /\ 1 <= frame[p] /\ frame'[p] = frame[p] + 1
        /\ frameData'[p][q] = Advanced(p, q)
        /\ quitFrame[p][q] = 0
    <2>1. frame[p] \in Nat /\ 1 <= frame[p] /\ quitFrame[p][q] \in Nat
      BY <1>1, RingTopType, NumberTypes
    <2> HIDE DEF cs
    <2>2. /\ frame'[p] = frame[p] + 1 /\ frameData'[p][q] = Advanced(p, q)
          /\ quitFrame'[p][q] = IF q \in Leavers(cs) \ {p} /\ quitFrame[p][q] = 0
                                  THEN frame[p] + FRAMES_TO_KEEP + 1 ELSE quitFrame[p][q]
      BY <1>1 DEF TypeOK, Runs
    <2> QED BY <2>1, <2>2, Sizes
  <1>3. HasFrameData(p, q)
    BY <1>2 DEF HasFrameData
  <1>4. L \in Nat /\ K \in Nat \ {0} /\ 2 * K < L
    BY Sizes
  <1>5. /\ RingTop(p)  = IF frame[p] <= K THEN L ELSE frame[p] - K + L - 1
        /\ RingTop(p)' = IF frame'[p] <= K THEN L ELSE frame'[p] - K + L - 1
    BY Zenon DEF RingTop
  <1> HIDE DEF cs, L, K
  <1>6. g \in Int /\ f \in Nat /\ frame[p] < f /\ f <= RingTop(p)'
    BY <1>2, <1>4, <1>5
  <1>7. CASE frame[p] > K /\ f = g + L
    <2>1. Slot(f) = Slot(g)
      BY <1>6, <1>7, SlotPeriod DEF L
    <2>2. Advanced(p, q)[Slot(f)] = FreshFrame(FALSE)
      <3>1. Advanced(p, q)[Slot(f)] = FreshFrame(p = q)
        BY <1>3, <1>6, <1>7, <2>1, AdvancedSlot DEF K
      <3>2. FreshFrame(p = q) = FreshFrame(FALSE)
        BY DEF FreshFrame
      <3> QED BY <3>1, <3>2
    <2>3. /\ FreshFrame(FALSE).commandList = {} /\ FreshFrame(FALSE).commandCount = 0
          /\ FreshFrame(FALSE).frameCommandCount = NoCount
      BY DEF FreshFrame
    <2> QED BY <1>2, <2>2, <2>3, FS_EmptySet DEF Heard
  <1>8. CASE ~ (frame[p] > K /\ f = g + L)
    <2>1. f <= RingTop(p)
      BY <1>2, <1>4, <1>5, <1>6, <1>8
    <2>2. frame[p] <= K \/ Slot(f) # Slot(g)
      <3> SUFFICES ASSUME frame[p] > K PROVE Slot(f) # Slot(g)
        BY <1>2, <1>4
      <3>1. f # g /\ f < g + L /\ g < f + L
        BY <1>2, <1>4, <1>5, <1>6, <1>8, <2>1
      <3> QED BY <1>6, <3>1, SlotInjective DEF L
    <2>3. Advanced(p, q)[Slot(f)] = frameData[p][q][Slot(f)]
      BY <1>3, <1>6, <2>2, AdvancedSlot DEF K
    <2>4. RingTop(p) \in Nat
      BY RingTopType
    <2>5. f \in frame[p] .. RingTop(p)
      BY <1>2, <1>6, <2>1, <2>4
    <2>6. Heard(frameData[p][q][Slot(f)], q, f)
      BY <1>2, <2>5 DEF HeardInv
    <2> QED BY <1>2, <2>3, <2>6
  <1> QED BY <1>7, <1>8

LEMMA NextHeard == IndInv /\ HeardInv /\ [Next]_vars => HeardInv'
  <1> SUFFICES ASSUME IndInv, HeardInv, [Next]_vars, NEW p \in Player, NEW q \in Player,
                      q # p, quitFrame'[p][q] = 0, NEW f \in frame'[p] .. RingTop(p)'
               PROVE  Heard(frameData[p][q][Slot(f)], q, f)'
    BY DEF HeardInv
  <1>1. ASSUME frame'[p] = frame[p], quitFrame'[p] = quitFrame[p]
        PROVE  /\ f \in frame[p] .. RingTop(p) /\ f \in Nat /\ quitFrame[p][q] = 0
               /\ Heard(frameData[p][q][Slot(f)], q, f)
    <2>1. /\ RingTop(p)' = RingTop(p) /\ RingTop(p) \in Nat /\ frame[p] \in Nat
      BY <1>1, RingTopType DEF RingTop
    <2> QED BY <1>1, <2>1 DEF HeardInv
  <1>2. CASE UNCHANGED vars
    <2>1. UNCHANGED <<frame, quitFrame, frameData, issued, localStatus, lastFrameCompleted>>
      BY <1>2 DEF vars, networkVars
    <2>2. IssuedFor(q, f)' = IssuedFor(q, f) /\ LastCounted(q)' = LastCounted(q)
      BY <2>1 DEF IssuedFor, LastCounted
    <2> QED BY <1>1, <2>1, <2>2 DEF Heard
  <1>3. ASSUME NEW r \in Player,
               FrameTick(r) \/ SendLocalGameMessage(r) \/ UpdateRunAhead(r) \/ ClearGameData(r)
        PROVE  Heard(frameData[p][q][Slot(f)], q, f)'
    <2>1. Announced(r) /\ TypeOK'
      BY <1>3, StepAnnounces
    <2>2. frameData'[p][q] = frameData[p][q]
      <3>1. CASE p # r
        BY <1>3, <3>1, OthersKeep
      <3>2. CASE FrameTick(r)
        BY <3>2 DEF FrameTick
      <3>3. CASE p = r /\ ~ FrameTick(r)
        <4>1. PICK c \in Command : \E cs \in SUBSET Command : Issue(p, c, cs)
          BY <1>3, <3>3, IssuingSteps DEF Issues
        <4>2. frameData' = [frameData EXCEPT ![p][p] = addNetCommandMsg(@, c, TRUE)]
          BY <4>1 DEF Issue
        <4> QED BY <4>2 DEF IndInv, TypeOK
      <3> QED BY <3>1, <3>2, <3>3
    <2>3. frame'[p] = frame[p] /\ quitFrame'[p] = quitFrame[p]
      BY <2>1 DEF Announced
    <2>4. f \in Nat /\ Heard(frameData[p][q][Slot(f)], q, f)
      BY <1>1, <2>3
    <2>5. Heard(frameData[p][q][Slot(f)], q, f) =>
            /\ frameData[p][q][Slot(f)].commandList \subseteq IssuedFor(q, f)'
            /\ frameData[p][q][Slot(f)].commandCount =
                 Cardinality(frameData[p][q][Slot(f)].commandList)
            /\ frameData[p][q][Slot(f)].frameCommandCount # NoCount =>
                 /\ f <= LastCounted(q)'
                 /\ frameData[p][q][Slot(f)].frameCommandCount = Cardinality(IssuedFor(q, f)')
      BY <2>1, <2>4, HeardStill DEF Heard
    <2> QED BY <2>2, <2>4, <2>5 DEF Heard
  <1>4. ASSUME NEW r \in Player, ReceiveAny(r)
        PROVE  Heard(frameData[p][q][Slot(f)], q, f)'
    <2>1. Receives(r) /\ UNCHANGED <<frame, networkVars, quitFrame, issued>>
      BY <1>4 DEF ReceiveAny, Receives, Receive
    <2>2. Heard(frameData'[p][q][Slot(f)], q, f)
      <3>1. CASE p = r
        BY <1>1, <2>1, <3>1, ReceiveKeepsHeard
      <3>2. CASE p # r
        BY <1>1, <1>4, <3>2, <2>1, OthersKeep
      <3> QED BY <3>1, <3>2
    <2>3. IssuedFor(q, f)' = IssuedFor(q, f) /\ LastCounted(q)' = LastCounted(q)
      BY <2>1 DEF IssuedFor, LastCounted, networkVars
    <2> QED BY <2>2, <2>3 DEF Heard
  <1>5. ASSUME NEW r \in Player, ExecuteFrame(r)
        PROVE  Heard(frameData[p][q][Slot(f)], q, f)'
    <2>1. Heard(frameData'[p][q][Slot(f)], q, f)
      <3>1. CASE p = r
        BY <1>5, <3>1, ExecuteKeepsHeard
      <3>2. CASE p # r
        BY <1>1, <1>5, <3>2, OthersKeep
      <3> QED BY <3>1, <3>2
    <2>2. /\ LastCounted(q)' = LastCounted(q) /\ issued' = issued
      <3> DEFINE cs == {c \in issued : c.frame = frame[r]}
      <3>1. LastCounted(q)' = LastCounted(q) /\ Runs(r, cs)
        BY <1>5, FrameRun
      <3> QED BY <3>1 DEF Runs
    <2>3. IssuedFor(q, f)' = IssuedFor(q, f)
      BY <2>2 DEF IssuedFor
    <2> QED BY <2>1, <2>2, <2>3 DEF Heard
  <1> QED BY <1>2, <1>3, <1>4, <1>5 DEF Next

\* No frame anybody asks about ever holds more commands than were announced for
\* it, however often and late they come: without a disconnection the RESEND of
\* FrameData::allCommandsReady, which throws the frame away, is never reached.
THEOREM NothingIsResent == Spec => []NeverResend
  <1>1. IndInv /\ HeardInv => NeverResend
    <2> SUFFICES ASSUME IndInv, HeardInv, NEW p \in Player, NEW q \in Player,
                        NEW f \in frame[p] .. frame[p] + FRAMES_TO_KEEP,
                        quitFrame[p][q] = 0, q # p,
                        frameData[p][q][Slot(f)].frameCommandCount # NoCount
                 PROVE  ~ (frameData[p][q][Slot(f)].commandCount >
                             frameData[p][q][Slot(f)].frameCommandCount)
      BY DEF NeverResend, NeedsResend
    <2> DEFINE fd == frameData[p][q][Slot(f)]
    <2>1. f \in frame[p] .. RingTop(p)
      BY RingTopType, Sizes
    <2>2. Heard(fd, q, f)
      BY <2>1 DEF HeardInv
    <2>3. IsFiniteSet(IssuedFor(q, f))
      BY FS_Subset DEF IndInv, IssuedInv, IssuedFor
    <2> HIDE DEF fd
    <2>4. /\ Cardinality(fd.commandList) <= Cardinality(IssuedFor(q, f))
          /\ Cardinality(fd.commandList) \in Nat /\ Cardinality(IssuedFor(q, f)) \in Nat
      <3>1. IsFiniteSet(fd.commandList) /\ fd.commandList \subseteq IssuedFor(q, f)
        BY <2>2, <2>3, FS_Subset DEF Heard
      <3> QED BY <2>3, <3>1, FS_Subset, FS_CardinalityType
    <2> QED BY <2>2, <2>4 DEF Heard, fd
  <1> QED BY <1>1, InitHeard, NextHeard, LockstepInvariance, PTL DEF Spec

-----------------------------------------------------------------------------
(* FrameSync itself, whatever implements it: frames stay in agreement.         *)

VARIABLES schedule, open, closed, ran

Frames == INSTANCE FrameSync

\* What a player ran is what is appointed to the frame, and no open player
\* can appoint anything more to it.
FrozenFrames ==
  \A p \in Player : \A f \in 1 .. Len(ran[p]) :
     /\ ran[p][f] = Frames!AppointedTo(f)
     /\ \A q \in Player : open[q] => closed[q] >= f

SyncInv == Frames!TypeOK /\ FrozenFrames

LEMMA InitSyncInv == Frames!Init => SyncInv
  BY DEF Frames!Init, SyncInv, Frames!TypeOK, FrozenFrames

LEMMA AnnounceKeepsType ==
  ASSUME Frames!TypeOK, NEW p \in Player, Frames!Announce(p)
  PROVE  Frames!TypeOK'
  <1>1. schedule' \in SUBSET Command
    BY DEF Frames!TypeOK, Frames!Announce
  <1>2. closed' \in [Player -> Nat]
    BY DEF Frames!TypeOK, Frames!Announce
  <1>3. open' \in [Player -> BOOLEAN]
    BY DEF Frames!TypeOK, Frames!Announce
  <1>4. ran' \in [Player -> Seq(SUBSET Command)]
    BY DEF Frames!TypeOK, Frames!Announce
  <1> QED BY <1>1, <1>2, <1>3, <1>4 DEF Frames!TypeOK

LEMMA RunKeepsType ==
  ASSUME Frames!TypeOK, NEW p \in Player, Frames!Run(p)
  PROVE  Frames!TypeOK'
  <1>1. Frames!AppointedTo(Len(ran[p]) + 1) \in SUBSET Command
    BY DEF Frames!TypeOK, Frames!AppointedTo
  <1>2. Append(ran[p], Frames!AppointedTo(Len(ran[p]) + 1)) \in Seq(SUBSET Command)
    BY <1>1 DEF Frames!TypeOK
  <1>3. ran' \in [Player -> Seq(SUBSET Command)]
    BY <1>2 DEF Frames!TypeOK, Frames!Run
  <1> QED BY <1>3 DEF Frames!TypeOK, Frames!Run

\* Nothing is appointed to a frame that somebody has run: whoever could has
\* closed it.
LEMMA AnnounceKeepsFrozen ==
  ASSUME Frames!TypeOK, FrozenFrames, NEW p \in Player, Frames!Announce(p)
  PROVE  FrozenFrames'
  <1> SUFFICES ASSUME NEW q \in Player, NEW f \in 1 .. Len(ran[q])
               PROVE  /\ ran[q][f] = Frames!AppointedTo(f)'
                      /\ \A r \in Player : open'[r] => closed'[r] >= f
    BY DEF Frames!Announce, FrozenFrames
  <1>1. ran[q][f] = Frames!AppointedTo(f) /\ \A r \in Player : open[r] => closed[r] >= f
    BY DEF FrozenFrames
  <1>2. \A c \in schedule' \ schedule : c.frame # f
    BY <1>1 DEF Frames!Announce, Frames!TypeOK
  <1>3. Frames!AppointedTo(f)' = Frames!AppointedTo(f)
    BY <1>2 DEF Frames!Announce, Frames!AppointedTo
  <1>4. ASSUME NEW r \in Player, open'[r]
        PROVE  closed'[r] >= f
    <2>1. open[r]
      BY <1>4 DEF Frames!Announce, Frames!TypeOK
    <2>2. closed[r] >= f /\ closed[r] \in Nat /\ closed'[r] >= closed[r] /\ closed'[r] \in Nat
      BY <1>1, <2>1 DEF Frames!Announce, Frames!TypeOK
    <2> QED BY <2>2
  <1> QED BY <1>1, <1>3, <1>4

LEMMA RunKeepsFrozen ==
  ASSUME Frames!TypeOK, FrozenFrames, NEW p \in Player, Frames!Run(p)
  PROVE  FrozenFrames'
  <1> SUFFICES ASSUME NEW q \in Player, NEW f \in 1 .. Len(ran'[q])
               PROVE  /\ ran'[q][f] = Frames!AppointedTo(f)
                      /\ \A r \in Player : open[r] => closed[r] >= f
    BY DEF Frames!Run, FrozenFrames, Frames!AppointedTo
  <1>1. ran[q] \in Seq(SUBSET Command)
    BY DEF Frames!TypeOK
  <1>2. CASE q = p /\ f = Len(ran[p]) + 1
    BY <1>1, <1>2 DEF Frames!Run, Frames!TypeOK
  <1>3. CASE ~(q = p /\ f = Len(ran[p]) + 1)
    <2>1. f \in 1 .. Len(ran[q]) /\ ran'[q][f] = ran[q][f]
      BY <1>1, <1>3 DEF Frames!Run, Frames!TypeOK
    <2> QED BY <2>1 DEF FrozenFrames
  <1> QED BY <1>2, <1>3

LEMMA NextSyncInv == SyncInv /\ [Frames!Next]_(Frames!vars) => SyncInv'
  <1> SUFFICES ASSUME SyncInv, [Frames!Next]_(Frames!vars) PROVE SyncInv'
    OBVIOUS
  <1> USE DEF SyncInv
  <1>1. ASSUME NEW p \in Player, Frames!Announce(p) PROVE SyncInv'
    BY <1>1, AnnounceKeepsType, AnnounceKeepsFrozen
  <1>2. ASSUME NEW p \in Player, Frames!Run(p) PROVE SyncInv'
    BY <1>2, RunKeepsType, RunKeepsFrozen
  <1>3. CASE UNCHANGED Frames!vars
    BY <1>3 DEF Frames!vars, Frames!TypeOK, FrozenFrames, Frames!AppointedTo
  <1> QED BY <1>1, <1>2, <1>3 DEF Frames!Next

\* The inductive invariant holds of every behaviour.
THEOREM FrozenFramesHold == Frames!Spec => []SyncInv
  BY InitSyncInv, NextSyncInv, PTL DEF Frames!Spec

\* Any implementation of FrameSync keeps its players' games equal, frame by
\* frame (what Network::RelayCommandsToCommandList needs of the network).
THEOREM FrameSyncAgreement == Frames!Spec => []Frames!Agreement
  <1>1. SyncInv => Frames!Agreement
    BY DEF SyncInv, FrozenFrames, Frames!Agreement
  <1> QED BY <1>1, FrozenFramesHold, PTL

=============================================================================
