------------------------------ MODULE FrameSync ------------------------------
(***************************************************************************)
(* What the lockstep network promises the game logic, without messages,     *)
(* counts or buffers: every player runs the same sequence of frames, each   *)
(* with the same commands.  A player appoints commands to frames he has not *)
(* closed yet; a frame runs on any machine only when every player who is    *)
(* still open has closed it, and it runs with everything appointed to it.   *)
(***************************************************************************)
EXTENDS Integers, Sequences

CONSTANTS
  Player,    \* the slots of the game
  Command    \* records with the fields player and frame

VARIABLES
  schedule,  \* every command appointed so far
  open,      \* open[p]: p may still appoint commands
  closed,    \* closed[p]: p appoints nothing more up to this frame
  ran        \* ran[p]: the command sets of the frames p has run, in order

vars == <<schedule, open, closed, ran>>

TypeOK ==
  /\ schedule \in SUBSET Command
  /\ open     \in [Player -> BOOLEAN]
  /\ closed   \in [Player -> Nat]
  /\ ran      \in [Player -> Seq(SUBSET Command)]

\* The frames closed at the start are the ones nobody can appoint to.
Init ==
  /\ schedule = {}
  /\ open   = [p \in Player |-> TRUE]
  /\ closed \in [Player -> Nat]
  /\ ran    = [p \in Player |-> << >>]

AppointedTo(f) == {c \in schedule : c.frame = f}

\* p appoints commands to frames he has not closed; he may close more frames,
\* or appoint nothing ever again.
Announce(p) ==
  /\ open[p]
  /\ schedule \subseteq schedule'
  /\ \A c \in schedule' \ schedule :
       c \in Command /\ c.player = p /\ c.frame > closed[p]
  /\ \E f \in {closed'[p]} :
       f \in Nat /\ f >= closed[p] /\ closed' = [closed EXCEPT ![p] = f]
  /\ \E b \in {open'[p]} : b \in BOOLEAN /\ open' = [open EXCEPT ![p] = b]
  /\ UNCHANGED ran

\* p runs his next frame.
Run(p) ==
  LET f == Len(ran[p]) + 1
  IN  /\ \A q \in Player : open[q] => closed[q] >= f
      /\ ran' = [ran EXCEPT ![p] = Append(@, AppointedTo(f))]
      /\ UNCHANGED <<schedule, open, closed>>

Next == \E p \in Player : Announce(p) \/ Run(p)

Spec == Init /\ [][Next]_vars

-----------------------------------------------------------------------------
\* Whatever frame two players have both run, they ran it with the same
\* commands (TheGameLogic of one machine never diverges from another's).
Agreement ==
  \A p, q \in Player : \A f \in 1 .. Len(ran[p]) :
     f <= Len(ran[q]) => ran[p][f] = ran[q][f]

=============================================================================
