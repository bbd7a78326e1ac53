------------------------------ MODULE FrameData ------------------------------
(***************************************************************************)
(* The per-player ring of frames of FrameData.cpp and FrameDataManager.cpp. *)
(* A manager holds, for one player, the commands that player issued for     *)
(* each of the next frames and the number of commands he announced for it.  *)
(* The ring has FRAME_DATA_LENGTH slots; frame f lives in slot f modulo     *)
(* that length, so a slot is only as good as the window of frames kept in   *)
(* it.  A command list is a set here: its order (type, player, id) is the   *)
(* business of NetCommandList.                                              *)
(***************************************************************************)
EXTENDS Integers, FiniteSets

CONSTANT
  MAX_FRAMES_AHEAD   \* 128 in NetworkUtil.cpp

ASSUME FramesAheadAssumption == MAX_FRAMES_AHEAD \in Nat \ {0, 1}

MAX_RUNAHEAD    == MAX_FRAMES_AHEAD \div 2
FRAMES_TO_KEEP  == (MAX_FRAMES_AHEAD \div 2) + 1

ShortLength       == MAX_FRAMES_AHEAD + 1   \* mutant: the sides' windows overlap
FRAME_DATA_LENGTH == (MAX_FRAMES_AHEAD + 1) * 2

FrameIndex == 0 .. (FRAME_DATA_LENGTH - 1)
Slot(f)    == f % FRAME_DATA_LENGTH

\* FrameData::init stores -1 in the unsigned m_frameCommandCount: no command
\* count equals or exceeds it.
NoCount == -1

FrameDatas(Commands) ==
  [frameCommandCount : Nat \cup {NoCount},
   commandCount      : Nat,
   commandList       : SUBSET Commands]

\* A FrameDataManager.
FrameRings(Commands) == [FrameIndex -> FrameDatas(Commands)]

\* A slot after FrameDataManager::resetFrame: the local player's announced
\* count follows what he has issued, everyone else's is unknown.
FreshFrame(isLocal) ==
  [frameCommandCount |-> IF isLocal THEN 0 ELSE NoCount,
   commandCount |-> 0, commandList |-> {}]

\* FrameData::zeroFrame on a fresh slot: nothing is expected for it.
ZeroFrame == [frameCommandCount |-> 0, commandCount |-> 0, commandList |-> {}]

\* The ring when the game starts: FrameDataManager::init for every slot, then
\* zeroFrames(1, runAhead - 1) from Network::parseUserList.
InitialFrames(isLocal, startRunAhead) ==
  [k \in FrameIndex |->
     IF k \in 1 .. (startRunAhead - 1) THEN ZeroFrame ELSE FreshFrame(isLocal)]

\* FrameData::addCommand: a command already in the list is not counted again.
AlwaysCounted(fd, c) ==   \* mutant: a duplicate is counted
  [fd EXCEPT !.commandList = @ \cup {c}, !.commandCount = @ + 1]
addCommand(fd, c) ==
  IF c \in fd.commandList THEN fd
  ELSE [fd EXCEPT !.commandList = @ \cup {c}, !.commandCount = @ + 1]

\* FrameDataManager::addNetCommandMsg.
addNetCommandMsg(frames, c, isLocal) ==
  LET fd == addCommand(frames[Slot(c.frame)], c)
  IN  [frames EXCEPT ![Slot(c.frame)] =
         IF isLocal THEN [fd EXCEPT !.frameCommandCount = fd.commandCount] ELSE fd]

\* FrameDataManager::setFrameCommandCount.
setFrameCommandCount(frames, f, n) ==
  [frames EXCEPT ![Slot(f)].frameCommandCount = n]

\* FrameDataManager::resetFrame.
resetFrame(frames, f, isLocal) == [frames EXCEPT ![Slot(f)] = FreshFrame(isLocal)]

\* FrameData::allCommandsReady: FRAMEDATA_READY, and FRAMEDATA_RESEND when
\* more commands arrived than were announced.
CountKnown(frames, f) ==   \* mutant: the announcement alone is enough
  frames[Slot(f)].frameCommandCount # NoCount
Ready(frames, f) ==
  frames[Slot(f)].frameCommandCount = frames[Slot(f)].commandCount

NeedsResend(frames, f) ==
  /\ frames[Slot(f)].frameCommandCount # NoCount
  /\ frames[Slot(f)].commandCount > frames[Slot(f)].frameCommandCount

=============================================================================
