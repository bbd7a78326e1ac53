----------------------------- MODULE SleepyUpdates -----------------------------
(***************************************************************************)
(* The update modules of GameLogic.cpp in their heap m_sleepyUpdates, each    *)
(* with the index it has there.  Scripts, commands, the updates themselves   *)
(* and what comes after them wake modules, create objects and destroy them,  *)
(* in the middle of the loop that calls the updates as well.  Objects are     *)
(* deleted at the end of the frame.                                          *)
(*                                                                          *)
(* Positions in the heap are one more than the code's, 0 being its -1.       *)
(***************************************************************************)
EXTENDS Integers, Sequences, SequencesExt

CONSTANTS
  Module,     \* the update modules, numbers from 1
  Owner,      \* Owner[m]: m's object
  Modules,    \* Modules[o]: o's modules in the order of getBehaviorModules
  Phase,      \* Phase[m]: getUpdatePhase
  Forever,    \* UPDATE_SLEEP_FOREVER
  Delays,     \* bound: how far ahead modules are woken
  MaxFrame    \* bound: the last frame

NORMAL == 2
FINAL  == 3
None   == 0
MAX_SUO == 256   \* how many modules of an object processDestroyList can take out

Objects == DOMAIN Modules

ASSUME SleepyAssumption ==
  /\ Module \subseteq Nat \ {0} /\ Phase \in [Module -> 0 .. 3] /\ Owner \in [Module -> Objects]
  /\ \A o \in Objects : /\ Modules[o] \in Seq(Module) /\ IsInjective(Modules[o])
                        /\ ToSet(Modules[o]) = {m \in Module : Owner[m] = o}
                        /\ Len(Modules[o]) <= MAX_SUO
  /\ MaxFrame \in Nat /\ Forever \in Nat /\ Forever > MaxFrame /\ Delays \subseteq 1 .. Forever

VARIABLES
  frame,      \* m_frame
  stage,      \* where GameLogic::update is
  objList,    \* m_objList, the newest object first
  doomed,     \* m_objectsToDestroy
  deleted,    \* the objects that are gone
  next,       \* next[m]: the frame of m_nextCallFrameAndPhase
  heap,       \* m_sleepyUpdates and m_indexInLogic: [list, at]
  running     \* m_curUpdateModule

vars == <<frame, stage, objList, doomed, deleted, next, heap, running>>

Heaps == [list : Seq(Module), at : [Module -> Nat]]
InHeap == ToSet(heap.list)

TypeOK ==
  /\ frame \in 0 .. MaxFrame
  /\ stage \in {"before", "loop", "after", "destroy"}
  /\ objList \in Seq(Objects) /\ doomed \in Seq(Objects) /\ deleted \subseteq Objects
  /\ next \in [Module -> 0 .. Forever]
  /\ heap \in Heaps
  /\ running \in Module \cup {None}

EmptyHeap == [list |-> <<>>, at |-> [m \in Module |-> 0]]

Init ==
  /\ frame = 0 /\ stage = "before"
  /\ objList = <<>> /\ doomed = <<>> /\ deleted = {}
  /\ next = [m \in Module |-> 0] /\ heap = EmptyHeap /\ running = None

-----------------------------------------------------------------------------
\* friend_setNextCallFrame.
Capped(f) == IF f > Forever THEN Forever ELSE f

\* The frame in the upper bits, the phase in the lower two.
Priority(times, m) == 4 * times[m] + Phase[m]

NotHigher(times, a, b) == Priority(times, a) >= Priority(times, b)   \* mutant: equal counts as lower
isLowerPriority(times, a, b) == Priority(times, a) > Priority(times, b)

Swapped(h, i, j) ==
  [list |-> [h.list EXCEPT ![i] = h.list[j], ![j] = h.list[i]],
   at   |-> [h.at EXCEPT ![h.list[i]] = j, ![h.list[j]] = i]]

\* The loops of the code go over the places of a heap.  What the n-th round of
\* one leaves: a round that finds nothing left to do changes nothing.
Places == [heap : Heaps, at : Nat]
Rounds(round, start) ==
  LET after[n \in Nat] == IF n = 0 THEN start ELSE round[after[n - 1]] IN after

\* Returns the index i has got to as well.
rebalanceParent(h, times, i) ==
  LET round == [s \in Places |->
        LET parent == s.at \div 2
        IN  IF parent >= 1 /\ isLowerPriority(times, s.heap.list[parent], s.heap.list[s.at])
              THEN [heap |-> Swapped(s.heap, s.at, parent), at |-> parent] ELSE s]
  IN  Rounds(round, [heap |-> h, at |-> i])[i]

LeftChild(h, times, i) == 2 * i   \* mutant: whatever the right one's priority
\* The child with the higher priority.
FirstChild(h, times, i) ==
  IF 2 * i < Len(h.list) /\ isLowerPriority(times, h.list[2 * i], h.list[2 * i + 1])
    THEN 2 * i + 1 ELSE 2 * i

rebalanceChild(h, times, i) ==
  LET round == [s \in Places |->
        LET child == FirstChild(s.heap, times, s.at)
        IN  IF /\ 2 * s.at <= Len(s.heap.list)
               /\ isLowerPriority(times, s.heap.list[s.at], s.heap.list[child])
              THEN [heap |-> Swapped(s.heap, s.at, child), at |-> child] ELSE s]
  IN  Rounds(round, [heap |-> h, at |-> i])[Len(h.list)].heap

\* rebalanceSleepyUpdate: up, then down from where it has got to.
rebalance(h, times, i) ==
  LET up == rebalanceParent(h, times, i) IN rebalanceChild(up.heap, times, up.at)

push(h, times, m) ==
  LET n == Len(h.list) + 1
  IN  rebalanceParent([list |-> Append(h.list, m), at |-> [h.at EXCEPT ![m] = n]], times, n).heap

\* eraseSleepyUpdate: the last one takes its place.
erase(h, times, i) ==
  LET last == Last(h.list)
      gone == [h.at EXCEPT ![h.list[i]] = 0]
  IN  IF i = Len(h.list) THEN [list |-> Front(h.list), at |-> gone]
      ELSE rebalance([list |-> Front([h.list EXCEPT ![i] = last]), at |-> [gone EXCEPT ![last] = i]],
                     times, i)

\* remakeSleepyUpdate, from the middle to the root.
remake(h, times) ==
  LET middle == Len(h.list) \div 2 + 1
      round == [s \in Places |-> [heap |-> rebalanceChild(s.heap, times, s.at), at |-> s.at - 1]]
  IN  Rounds(round, [heap |-> h, at |-> middle])[middle].heap

pushAll(h, times, ms) ==
  LET round == [s \in Places |-> [heap |-> push(s.heap, times, ms[s.at]), at |-> s.at + 1]]
  IN  Rounds(round, [heap |-> h, at |-> 1])[Len(ms)].heap

-----------------------------------------------------------------------------
\* Everything but the update of a last-phase module wakes others and creates and
\* destroys objects (FiringTracker and ObjectWeaponStatusHelper only see to their
\* own object's state).
Acting == running # None => Phase[running] # FINAL

AlwaysReset(m, when) == FALSE   \* mutant
\* "If we are already awake": called in this frame yet.
AlreadyAwake(m, when) == frame > 0 /\ next[m] = frame /\ when = frame + 1

\* friend_awakenUpdateModule for a module of an object in m_objList.  Only those
\* of the normal phase are woken with a delay of 0.
Awaken(m, delay) ==
  LET when  == frame + delay
      times == [next EXCEPT ![m] = Capped(when)]
  IN  /\ Acting /\ stage # "destroy"
      /\ m \in InHeap /\ m # running
      /\ delay = 0 => Phase[m] = NORMAL
      /\ when # next[m] /\ ~ AlreadyAwake(m, when)
      /\ next' = times
      /\ heap' = rebalance(heap, times, heap.at[m])
      /\ UNCHANGED <<frame, stage, objList, doomed, deleted, running>>

\* The constructors of the modules set their first frame or leave it 0; then
\* registerObject.
Now == IF frame = 0 THEN 1 ELSE frame
FirstFrames(m) ==
  {Capped(frame + d) : d \in Delays} \cup (IF Phase[m] = NORMAL THEN {Now} ELSE {})
CreateObject(o) ==
  /\ Acting /\ stage # "destroy"
  /\ o \notin ToSet(objList) \cup deleted
  /\ objList' = <<o>> \o objList
  /\ \E first \in [ToSet(Modules[o]) -> 0 .. Forever] :
       /\ \A m \in DOMAIN first : first[m] \in FirstFrames(m)
       /\ next' = [m \in Module |-> IF Owner[m] = o THEN first[m] ELSE next[m]]
  /\ heap' = pushAll(heap, next', Modules[o])
  /\ UNCHANGED <<frame, stage, doomed, deleted, running>>

\* In the destructor of another object, too.
DestroyObject(o) ==
  /\ Acting
  /\ o \in ToSet(objList) \ ToSet(doomed)
  /\ doomed' = Append(doomed, o)
  /\ UNCHANGED <<frame, stage, objList, deleted, next, heap, running>>

-----------------------------------------------------------------------------
StartUpdates ==
  /\ stage = "before" /\ stage' = "loop"
  /\ UNCHANGED <<frame, objList, doomed, deleted, next, heap, running>>

NextUpdate ==
  /\ stage = "loop" /\ running = None
  /\ heap.list # <<>> /\ next[heap.list[1]] <= frame

CallUpdate ==
  /\ NextUpdate
  /\ running' = heap.list[1]
  /\ UNCHANGED <<frame, stage, objList, doomed, deleted, next, heap>>

Rescheduled(m, sleep) ==
  /\ next' = [next EXCEPT ![m] = Capped(frame + sleep)]
  /\ heap' = rebalance(heap, next', 1)

\* Its object is disabled.
SkipUpdate ==
  /\ NextUpdate
  /\ Rescheduled(heap.list[1], 1)
  /\ UNCHANGED <<frame, stage, objList, doomed, deleted, running>>

ReturnFromUpdate ==
  /\ running # None
  /\ \E sleep \in Delays : Rescheduled(running, sleep)
  /\ running' = None
  /\ UNCHANGED <<frame, stage, objList, doomed, deleted>>

EndUpdates ==
  /\ stage = "loop" /\ running = None /\ ~ NextUpdate
  /\ stage' = "after"
  /\ UNCHANGED <<frame, objList, doomed, deleted, next, heap, running>>

StartDestroying ==
  /\ stage = "after" /\ stage' = "destroy"
  /\ UNCHANGED <<frame, objList, doomed, deleted, next, heap, running>>

\* mutant: indexes from before the first was erased
ErasedWhereFound(o) ==
  LET round == [s \in Places |->
        [heap |-> IF Owner[heap.list[s.at]] = o /\ s.at <= Len(s.heap.list)
                    THEN erase(s.heap, next, s.at) ELSE s.heap,
         at   |-> s.at - 1]]
  IN  Rounds(round, [heap |-> heap, at |-> Len(heap.list)])[Len(heap.list)].heap

\* The modules of o that were found in the heap, the last first.  "Have to re-get
\* idx each time since each call to erase might change others."
Erased(o) ==
  LET round == [s \in Places |->
        LET m == heap.list[s.at]
        IN  [heap |-> IF Owner[m] = o THEN erase(s.heap, next, s.heap.at[m]) ELSE s.heap,
             at   |-> s.at - 1]]
  IN  Rounds(round, [heap |-> heap, at |-> Len(heap.list)])[Len(heap.list)].heap

\* One object of processDestroyList.
DestroyNext ==
  LET o == Head(doomed)
  IN  /\ stage = "destroy" /\ doomed # <<>>
      /\ heap' = Erased(o)
      /\ objList' = RemoveFirst(objList, o)
      /\ deleted' = deleted \cup {o}
      /\ doomed' = Tail(doomed)
      /\ UNCHANGED <<frame, stage, next, running>>

NextFrame ==
  /\ stage = "destroy" /\ doomed = <<>> /\ frame < MaxFrame
  /\ stage' = "before" /\ frame' = frame + 1
  /\ UNCHANGED <<objList, doomed, deleted, next, heap, running>>

\* The modules object by object: what loadPostProcess puts into the vector.
Listed(objs) ==
  LET round == [s \in Seq(Module) \X Nat |-> <<s[1] \o Modules[objs[s[2]]], s[2] + 1>>]
  IN  Rounds(round, << <<>>, 1 >>)[Len(objs)][1]

\* A game saved here is loaded again: objects are created in the order saved, each
\* before those in the list; loadPostProcess makes the heap anew.
LoadGame ==
  LET loaded == Reverse(objList)
      ms     == Listed(loaded)
  IN  /\ stage = "before" /\ doomed = <<>> /\ ms # <<>>
      /\ objList' = loaded
      /\ heap' = remake([list |-> ms,
                         at |-> [m \in Module |-> IF m \in ToSet(ms) THEN CHOOSE i \in 1 .. Len(ms) : ms[i] = m
                                                  ELSE 0]], next)
      /\ UNCHANGED <<frame, stage, doomed, deleted, next, running>>

Next ==
  \/ StartUpdates \/ CallUpdate \/ SkipUpdate \/ ReturnFromUpdate \/ EndUpdates
  \/ StartDestroying \/ DestroyNext \/ NextFrame \/ LoadGame
  \/ \E m \in Module, delay \in Delays \cup {0} : Awaken(m, delay)
  \/ \E o \in Objects : CreateObject(o) \/ DestroyObject(o)

Spec == Init /\ [][Next]_vars

-----------------------------------------------------------------------------
\* validateSleepyUpdate: whatever is woken, created or deleted in whatever order,
\* everybody has the index he is at and nobody is before his parent.
ValidHeap ==
  \A i \in 1 .. Len(heap.list) :
    /\ heap.at[heap.list[i]] = i
    /\ i > 1 => Priority(next, heap.list[i \div 2]) <= Priority(next, heap.list[i])

\* When an update returns, its module is rebalanced at the root: nothing the
\* update did may have moved it from there.
RunningIsFirst == running # None => heap.list[1] = running

\* The modules in the heap are those of the objects in the list.
AllScheduled ==
  /\ \A m \in Module : m \in InHeap <=> Owner[m] \in ToSet(objList)
  /\ \A m \in Module : m \notin InHeap => heap.at[m] = 0
  /\ IsInjective(heap.list)

\* The heap, woken, erased from and rebuilt at any moment, keeps the schedule.
Schedule == INSTANCE UpdateSchedule
  WITH scheduled <- InHeap, wake <- next, stage <- IF stage = "destroy" THEN "after" ELSE stage

ImplementsSchedule == Schedule!Spec

=============================================================================
