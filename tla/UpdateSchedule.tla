---------------------------- MODULE UpdateSchedule ----------------------------
(***************************************************************************)
(* What GameLogic promises to update modules, whatever holds them: in every  *)
(* frame those that are due are called, the earliest and of these the lowest *)
(* phase first, until nobody is due; anybody can wake anybody else at any    *)
(* time.  SleepyUpdates keeps them in a heap and implements this.            *)
(***************************************************************************)
EXTENDS Integers

CONSTANTS
  Module,     \* the update modules
  Phase,      \* Phase[m]: SleepyUpdatePhase of m, 0 to 3
  None,       \* no module
  Forever     \* UPDATE_SLEEP_FOREVER

VARIABLES
  frame,
  stage,      \* "before", "loop", "after": the calls of this frame
  scheduled,  \* the modules of the objects there are
  wake,       \* wake[m]: the frame m is to be called at
  running     \* whose update is running

vars == <<frame, stage, scheduled, wake, running>>

Init ==
  /\ frame = 0 /\ stage = "before"
  /\ scheduled = {} /\ wake = [m \in Module |-> 0] /\ running = None

Capped(f) == IF f > Forever THEN Forever ELSE f
Due(m) == m \in scheduled /\ wake[m] <= frame
Before(m, n) ==   \* m has to be called before n
  wake[m] < wake[n] \/ (wake[m] = wake[n] /\ Phase[m] < Phase[n])

\* Who is due already need not be woken as soon as possible.
Wake(m, when) ==
  /\ m \in scheduled /\ m # running
  /\ ~ (frame > 0 /\ wake[m] = frame /\ when = frame + 1)
  /\ wake' = [wake EXCEPT ![m] = Capped(when)]
  /\ UNCHANGED <<frame, stage, scheduled, running>>

Enter(ms) ==
  /\ ms \subseteq Module \ scheduled
  /\ scheduled' = scheduled \cup ms
  /\ wake' \in [Module -> 0 .. Forever]
  /\ \A m \in Module : IF m \in ms THEN wake'[m] >= frame ELSE wake'[m] = wake[m]
  /\ UNCHANGED <<frame, stage, running>>

Leave(ms) ==
  /\ stage = "after"
  /\ scheduled' = scheduled \ ms
  /\ UNCHANGED <<frame, stage, wake, running>>

StartCalls ==
  /\ stage = "before" /\ stage' = "loop"
  /\ UNCHANGED <<frame, scheduled, wake, running>>

Call(m) ==
  /\ stage = "loop" /\ running = None /\ Due(m)
  /\ \A n \in scheduled : ~ Before(n, m)
  /\ running' = m
  /\ UNCHANGED <<frame, stage, scheduled, wake>>

\* m's object is disabled.
Skip(m) ==
  /\ stage = "loop" /\ running = None /\ Due(m)
  /\ \A n \in scheduled : ~ Before(n, m)
  /\ wake' = [wake EXCEPT ![m] = Capped(frame + 1)]
  /\ UNCHANGED <<frame, stage, scheduled, running>>

Return(sleep) ==
  /\ running # None
  /\ wake' = [wake EXCEPT ![running] = Capped(frame + sleep)]
  /\ running' = None
  /\ UNCHANGED <<frame, stage, scheduled>>

EndCalls ==
  /\ stage = "loop" /\ running = None
  /\ \A m \in scheduled : ~ Due(m)
  /\ stage' = "after"
  /\ UNCHANGED <<frame, scheduled, wake, running>>

NextFrame ==
  /\ stage = "after" /\ frame < Forever
  /\ stage' = "before" /\ frame' = frame + 1
  /\ UNCHANGED <<scheduled, wake, running>>

Next ==
  \/ StartCalls \/ EndCalls \/ NextFrame
  \/ \E m \in Module : Call(m) \/ Skip(m) \/ \E when \in frame .. frame + Forever : Wake(m, when)
  \/ \E sleep \in 1 .. Forever : Return(sleep)
  \/ \E ms \in SUBSET Module : Leave(ms) \/ Enter(ms)

Spec == Init /\ [][Next]_vars

-----------------------------------------------------------------------------
TypeOK ==
  /\ frame \in 0 .. Forever
  /\ stage \in {"before", "loop", "after"}
  /\ scheduled \subseteq Module
  /\ wake \in [Module -> 0 .. Forever]
  /\ running \in scheduled \cup {None}
  /\ running # None => stage = "loop"

\* Nobody is forgotten: after the calls of a frame everybody's time is that frame
\* or later, and one who is woken for it then has to wait for the next frame only.
NobodyOverdue ==
  \A m \in scheduled : wake[m] >= IF stage = "after" THEN frame ELSE frame - 1

=============================================================================
