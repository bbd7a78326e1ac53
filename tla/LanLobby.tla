------------------------------- MODULE LanLobby -------------------------------
(***************************************************************************)
(* The screen where a LAN game is set up (LANAPI.cpp, LANAPIhandlers.cpp,    *)
(* LANAPICallbacks.cpp and the handlers of LanGameOptionsMenu.cpp).  The     *)
(* host has the slots and the options; joiners ask for a slot, ask for       *)
(* changes, accept, become inactive and leave.  Whatever changes, the host   *)
(* sends all of it to the players in his slots.  Each of them has a copy of  *)
(* the game, into which he writes his own choice before he asks for it; the  *)
(* next options overwrite it, and his controls are disabled while they say   *)
(* that he has accepted.  When all have accepted the host counts down and    *)
(* starts, and who hears it starts the game as his copy has it.              *)
(*                                                                          *)
(* Messages are datagrams that nobody repeats but for the periodic ones.  On *)
(* the LAN they arrive in order; the buffer they are read into may change it.*)
(***************************************************************************)
EXTENDS Integers, Sequences, FiniteSets, SequencesExt, FiniteSetsExt

CONSTANTS
  Joiner,
  Slot,        \* the slots 1 .. MAX_SLOTS - 1; the host's own is slot 0
  Open, Closed, NoGame,
  Lossy,       \* TRUE if datagrams may be lost
  Edits,       \* bound: what the host sets a slot without a player to, Open or Closed
  Kicks,       \* bound: what he sets a player's slot to
  Leavers,     \* bound: who may leave
  Asks,        \* bound: what joiners may say, "yes", "rules", "looks" or "inactive"
  MaxRules,    \* bound: changes of what players accept
  MaxLooks,    \* bound: changes of colors
  MaxQueue     \* bound: messages on the way to one player when more are sent

ASSUME LobbyAssumption ==
  /\ Slot \subseteq Nat /\ Slot # {} /\ Joiner \cap {Open, Closed, NoGame} = {} /\ Open # Closed
  /\ Lossy \in BOOLEAN /\ Leavers \subseteq Joiner
  /\ Edits \subseteq {Open, Closed} /\ Kicks \subseteq {Open, Closed}
  /\ Asks \subseteq {"yes", "rules", "looks", "inactive"}
  /\ MaxRules \in Nat /\ MaxLooks \in Nat /\ MaxQueue \in Nat

VARIABLES
  hosting,   \* "setup", "playing" or "left": m_currentGame of the host
  slots,     \* who is in which of the host's slots
  options,   \* map, cash, factions, teams (rules) and colors (looks), as counts of changes
  accepted,  \* whose m_isAccepted the host has set
  counting,  \* m_gameStartTime is set
  place,     \* place[j]: m_inLobby, m_currentGame and m_inProgress of joiner j
  pending,   \* pending[j]: m_pendingAction
  view,      \* view[j]: j's copy of the game he has heard of, or is in
  locked,    \* locked[j]: the controls of j's own slot are disabled
  agreed,    \* agreed[j]: the rules on j's screen when he last pressed accept
  held,      \* held[j]: messages behind the hole in j's m_inBuffer
  toHost, toJoiner

gameVars == <<hosting, slots, options, accepted, counting>>
playerVars == <<place, pending, view, locked, agreed>>
vars == <<gameVars, playerVars, held, toHost, toJoiner>>

Options == [rules : 0 .. MaxRules, looks : 0 .. MaxLooks]
SlotLists == [Slot -> Joiner \cup {Open, Closed}]
Humans(s) == {j \in Joiner : \E i \in Slot : s[i] = j}

\* What a joiner has chosen himself stands in his copy only.
Mine == -1
OwnOptions == [rules : Mine .. MaxRules, looks : Mine .. MaxLooks]
Infos == [slots : SlotLists, options : OwnOptions, accepts : SUBSET Joiner]

TypeOK ==
  /\ hosting \in {"setup", "playing", "left"} /\ slots \in SlotLists /\ options \in Options
  /\ accepted \subseteq Humans(slots) /\ counting \in BOOLEAN
  /\ place \in [Joiner -> {"lobby", "setup", "playing"}]
  /\ pending \in [Joiner -> {"none", "join", "leave"}]
  /\ view \in [Joiner -> Infos \cup {NoGame}]
  /\ \A j \in Joiner : place[j] # "lobby" => view[j] \in Infos
  /\ locked \in [Joiner -> BOOLEAN] /\ agreed \in [Joiner -> Mine .. MaxRules]
  /\ held \in [Joiner -> Nat] /\ \A j \in Joiner : held[j] <= Len(toJoiner[j])

Init ==
  /\ hosting = "setup" /\ slots = [i \in Slot |-> Open] /\ options = [rules |-> 0, looks |-> 0]
  /\ accepted = {} /\ counting = FALSE
  /\ place = [j \in Joiner |-> "lobby"] /\ pending = [j \in Joiner |-> "none"]
  /\ view = [j \in Joiner |-> NoGame]
  /\ locked = [j \in Joiner |-> FALSE] /\ agreed = [j \in Joiner |-> 0]
  /\ held = [j \in Joiner |-> 0]
  /\ toHost = [j \in Joiner |-> <<>>] /\ toJoiner = [j \in Joiner |-> <<>>]

-----------------------------------------------------------------------------
(* Sending.  A message of the game goes to each human in the sender's own     *)
(* slot list, or as a broadcast to everybody if there is no other.            *)

Audience(s) == IF Humans(s) = {} THEN Joiner ELSE Humans(s)
FanOut(s, m) == [to |-> Audience(s), message |-> m]
Direct(j, m) == [to |-> {j}, message |-> m]
Broadcast(m) == [to |-> Joiner, message |-> m]

queues ++ mail ==
  [j \in Joiner |-> IF j \in mail.to THEN Append(queues[j], mail.message) ELSE queues[j]]
Post(mail) == toJoiner' = toJoiner ++ mail

Room == \A j \in Joiner : Len(toJoiner[j]) < MaxQueue

\* The options string: the slots, what is set, and who of them has accepted.
Info(s, o, a) == [slots |-> s, options |-> o, accepts |-> a \cap Humans(s)]
GameOptions(s, o, a) == FanOut(s, [type |-> "options", info |-> Info(s, o, a)])

(* What resets the accepts also stops the countdown. *)
\* mutant: the countdown goes on
ResetFlagsOnly == accepted' = {} /\ UNCHANGED counting
resetAccepted == accepted' = {} /\ counting' = FALSE

-----------------------------------------------------------------------------
(* The host reads a message of joiner j.  Nothing is read once he plays.      *)

Request(j, type) ==
  /\ hosting # "playing" /\ Room
  /\ toHost[j] # <<>> /\ Head(toHost[j]).type = type
  /\ toHost' = [toHost EXCEPT ![j] = Tail(@)]
  /\ UNCHANGED <<playerVars, held>>
FromPlayer(j, type) == Request(j, type) /\ hosting = "setup" /\ j \in Humans(slots)

(* The answer to a request to join is sent to j and as a broadcast, which only *)
(* j looks at.                                                               *)
FirstOpen == Min({i \in Slot : slots[i] = Open})
CanJoin(j) == hosting = "setup" /\ j \notin Humans(slots) /\ \E i \in Slot : slots[i] = Open

Admit(j) ==
  LET joined == [slots EXCEPT ![FirstOpen] = j]
      accept == [type |-> "accept", pos |-> FirstOpen]
  IN /\ Request(j, "join") /\ CanJoin(j)
     /\ slots' = joined
     /\ resetAccepted
     /\ toJoiner' = toJoiner ++ GameOptions(joined, options, {})
                     ++ Direct(j, accept) ++ Direct(j, accept) ++ GameOptions(joined, options, {})
     /\ UNCHANGED <<hosting, options>>

Deny(j) ==
  /\ Request(j, "join") /\ ~CanJoin(j)
  /\ LET denied == toJoiner ++ Direct(j, [type |-> "deny"]) ++ Direct(j, [type |-> "deny"])
     IN toJoiner' = IF hosting = "setup" THEN denied ++ GameOptions(slots, options, accepted) ELSE denied
  /\ UNCHANGED gameVars

\* mutant: the change is not sent
ChangeUnsent(o) == options' = o /\ UNCHANGED toJoiner
Change(o) ==
  /\ options' = o
  /\ Post(GameOptions(slots, o, accepted'))

MoreRules == [options EXCEPT !.rules = @ + 1]
MoreLooks == [options EXCEPT !.looks = @ + 1]

(* handleGameOptions: a player asks for a faction, team or start position ... *)
GrantRules(j) ==
  /\ FromPlayer(j, "rules") /\ options.rules < MaxRules
  /\ resetAccepted
  /\ Change(MoreRules)
  /\ UNCHANGED <<hosting, slots>>

(* ... or for a color, which needs nobody's consent.  The NAT type, which is   *)
(* always taken, has the options sent once more.                              *)
GrantLooks(j) ==
  /\ FromPlayer(j, "looks") /\ options.looks < MaxLooks
  /\ UNCHANGED <<hosting, slots, accepted, counting>>
  /\ Change(MoreLooks)
SendAgain(j) ==
  /\ FromPlayer(j, "nat")
  /\ UNCHANGED <<hosting, slots, accepted, counting>>
  /\ Change(options)

(* A wish that is invalid or the current value, and whatever comes from somebody *)
(* not in the slots or reaches a host who has left.                           *)
Ignore(j) ==
  /\ \/ \E type \in {"rules", "looks"} : FromPlayer(j, type)
     \/ /\ hosting = "left" \/ j \notin Humans(slots)
        /\ \E type \in {"rules", "looks", "nat", "yes", "inactive", "leave"} : Request(j, type)
  /\ UNCHANGED <<gameVars, toJoiner>>

OnAccept(j) ==
  /\ FromPlayer(j, "yes")
  /\ accepted' = accepted \cup {j}
  /\ Change(options)
  /\ UNCHANGED <<hosting, slots, counting>>

handleInActive(j) ==
  /\ FromPlayer(j, "inactive")
  /\ IF counting THEN UNCHANGED <<accepted, options, toJoiner>>
     ELSE accepted' = accepted \ {j} /\ Change(options)
  /\ UNCHANGED <<hosting, slots, counting>>

Without(s, j, state) == [i \in Slot |-> IF s[i] = j THEN state ELSE s[i]]

(* OnPlayerLeave sends the options as the accepts still are; when those are reset *)
(* the one who left, and the others again, are sent them too.                  *)
Leaves(j) ==
  LET left == Without(slots, j, Open)
  IN /\ slots' = left
     /\ resetAccepted
     /\ toJoiner' = toJoiner ++ GameOptions(left, options, accepted)
                     ++ Direct(j, [type |-> "options", info |-> Info(left, options, {})])
                     ++ GameOptions(left, options, {})
     /\ UNCHANGED <<hosting, options>>
handleRequestGameLeave(j) == FromPlayer(j, "leave") /\ Leaves(j)

(* Eight periods without a word but requests to join: taken as a leave.  That  *)
(* all HELLOs of a player in the game are lost for so long, or an answer is on *)
(* its way, is left out.                                                      *)
\* mutant: nobody is dropped
DropNobody(j) == FALSE /\ UNCHANGED vars
DropSilent(j) ==
  /\ hosting = "setup" /\ j \in Humans(slots)
  /\ place[j] # "setup" /\ Room
  /\ \A i \in DOMAIN toHost[j] : toHost[j][i].type = "join"
  /\ \A i \in DOMAIN toJoiner[j] : toJoiner[j][i].type # "accept"
  /\ Leaves(j)
  /\ UNCHANGED <<playerVars, held, toHost>>
-----------------------------------------------------------------------------
(* What the host does.  His screen can be operated while he counts down,      *)
(* except for the start button and the map.                                   *)

AtHost == hosting = "setup" /\ Room /\ UNCHANGED <<playerVars, held, toHost>>

HostChanges ==
  /\ AtHost
  /\ \/ options.rules < MaxRules /\ resetAccepted /\ Change(MoreRules)
     \/ options.looks < MaxLooks /\ UNCHANGED <<accepted, counting>> /\ Change(MoreLooks)
  /\ UNCHANGED <<hosting, slots>>

SetSlot(i, state) ==
  /\ AtHost
  /\ slots[i] \in {Open, Closed} \ {state}
  /\ slots' = [slots EXCEPT ![i] = state]
  /\ Post(GameOptions(slots', options, accepted))
  /\ UNCHANGED <<hosting, options, accepted, counting>>

Kick(j, state) ==
  /\ AtHost
  /\ j \in Humans(slots)
  /\ slots' = Without(slots, j, state)
  /\ resetAccepted
  /\ Post(GameOptions(slots', options, {}))
  /\ UNCHANGED <<hosting, options>>

CloseOpen(s) == Without(s, Open, Closed)

StartPressed ==
  /\ AtHost /\ ~counting
  /\ Humans(slots) \subseteq accepted
  /\ slots' = CloseOpen(slots) /\ counting' = TRUE
  /\ UNCHANGED <<hosting, options, accepted, toJoiner>>

RequestGameStart ==
  /\ AtHost /\ counting
  /\ counting' = FALSE
  /\ hosting' = "playing" /\ slots' = CloseOpen(slots)
  /\ Post(FanOut(slots, [type |-> "start"]))
  /\ UNCHANGED <<options, accepted>>

(* Every period: the options to the players, the game to everybody. *)
Resend ==
  /\ AtHost
  /\ toJoiner' = toJoiner ++ GameOptions(slots, options, accepted)
                  ++ Broadcast([type |-> "announce", info |-> Info(slots, options, accepted)])
  /\ UNCHANGED gameVars

HostLeaves ==
  /\ AtHost
  /\ hosting' = "left" /\ slots' = [i \in Slot |-> Closed] /\ accepted' = {} /\ counting' = FALSE
  /\ Post(FanOut(slots, [type |-> "gone"]))
  /\ UNCHANGED options
-----------------------------------------------------------------------------
(* Joiner j reads a message.  LANAPI::update reads m_inBuffer from the front   *)
(* and stops at the first hole; joining stops it midway and leaves one there,  *)
(* which the next datagram fills, ahead of those that were read before it.    *)

Next1(j) == held[j] + 1
Readable(j) == Len(toJoiner[j]) > held[j]
Take(j, type) ==
  /\ Readable(j) /\ toJoiner[j][Next1(j)].type = type
  /\ toJoiner' = [toJoiner EXCEPT ![j] = RemoveAt(@, Next1(j))]
NoHole(j) == held' = [held EXCEPT ![j] = 0]
Stays(j) == NoHole(j) /\ UNCHANGED <<gameVars, toHost>>
InfoFor(j) == toJoiner[j][Next1(j)].info

(* Back in the lobby everything is forgotten and the socket is opened anew,   *)
(* so what was on the way is lost.                                            *)
ToLobby(j) ==
  /\ place' = [place EXCEPT ![j] = "lobby"] /\ pending' = [pending EXCEPT ![j] = "none"]
  /\ view' = [view EXCEPT ![j] = NoGame] /\ locked' = [locked EXCEPT ![j] = FALSE]
  /\ toJoiner' = [toJoiner EXCEPT ![j] = <<>>]
  /\ NoHole(j)
  /\ UNCHANGED <<agreed, gameVars, toHost>>

(* The controls of j's own slot are disabled, the accept button among them, if  *)
(* the list says that he has accepted, and else enabled (EnableAcceptControls).   *)
\* mutant: the controls stay enabled
StayEnabled(j, info) == UNCHANGED locked
UpdateSlotList(j, info) == locked' = [locked EXCEPT ![j] = j \in info.accepts]

(* An announcement, too, is read into j's copy, but shown on the setup screen   *)
(* only if j comes into the list, or the map (one of the rules) is another.     *)
Appears(j) == j \notin Humans(view[j].slots)
NewRules(j) == view[j].options.rules # InfoFor(j).options.rules
Shown(j, shown) ==
  IF place[j] = "setup" /\ j \in Humans(InfoFor(j).slots)
  THEN (Appears(j) => shown) /\ (shown => Appears(j) \/ NewRules(j))
  ELSE ~shown

handleGameAnnounce(j) ==
  /\ Take(j, "announce") /\ Stays(j)
  /\ view' = [view EXCEPT ![j] = IF place[j] = "playing" THEN @ ELSE InfoFor(j)]
  /\ \E shown \in BOOLEAN :
       /\ Shown(j, shown)
       /\ IF shown THEN UpdateSlotList(j, InfoFor(j)) ELSE UNCHANGED locked
  /\ UNCHANGED <<place, pending, agreed>>

OnGameOptions(j) ==
  /\ place[j] = "setup" /\ Take(j, "options") /\ j \in Humans(InfoFor(j).slots)
  /\ view' = [view EXCEPT ![j] = InfoFor(j)]
  /\ UpdateSlotList(j, InfoFor(j))
  /\ Stays(j) /\ UNCHANGED <<place, pending, agreed>>

Booted(j) ==
  /\ place[j] = "setup" /\ Readable(j) /\ toJoiner[j][Next1(j)].type = "options"
  /\ j \notin Humans(InfoFor(j).slots)
  /\ ToLobby(j)

(* The preferred faction and color and the NAT type are sent at once. *)
Wishes == <<[type |-> "rules"], [type |-> "looks"], [type |-> "nat"]>>

handleJoinAccept(j) ==
  /\ pending[j] = "join" /\ view[j] # NoGame /\ Take(j, "accept")
  /\ place' = [place EXCEPT ![j] = "setup"] /\ pending' = [pending EXCEPT ![j] = "none"]
  /\ view' = [view EXCEPT ![j].slots[toJoiner[j][Next1(j)].pos] = j, ![j].accepts = @ \ {j}]
  /\ locked' = [locked EXCEPT ![j] = FALSE]
  /\ toHost' = [toHost EXCEPT ![j] = @ \o Wishes]
  /\ \E n \in 0 .. Len(toJoiner'[j]) : held' = [held EXCEPT ![j] = n]
  /\ UNCHANGED <<agreed, gameVars>>

(* Also the acceptance of a game that is no longer known. *)
handleJoinDeny(j) ==
  /\ pending[j] = "join"
  /\ Take(j, "deny") \/ (view[j] = NoGame /\ Take(j, "accept"))
  /\ pending' = [pending EXCEPT ![j] = "none"]
  /\ Stays(j) /\ UNCHANGED <<place, view, locked, agreed>>

(* Somebody else has left: j opens his slot without waiting for the host, and   *)
(* resets the accepts in his copy.  His controls stay as they were: lanUpdate-    *)
(* SlotList is not called, OnPlayerLeave does so on the host only.              *)
handleOthersLeave(j) ==
  /\ place[j] = "setup" /\ Take(j, "leave")
  /\ LET k == toJoiner[j][Next1(j)].who
     IN view' = [view EXCEPT ![j].slots = Without(@, k, Open), ![j].accepts = {}]
  /\ Stays(j) /\ UNCHANGED <<place, pending, locked, agreed>>

OnHostLeave(j) ==
  /\ place[j] = "setup" /\ Readable(j) /\ toJoiner[j][Next1(j)].type = "gone"
  /\ ToLobby(j)

handleGameStart(j) ==
  /\ place[j] = "setup" /\ Take(j, "start")
  /\ place' = [place EXCEPT ![j] = "playing"]
  /\ Stays(j) /\ UNCHANGED <<pending, view, locked, agreed>>

Skip(j) ==
  /\ \/ /\ place[j] # "setup"
        /\ \E type \in {"options", "leave", "gone", "start"} : Take(j, type)
     \/ /\ pending[j] # "join"
        /\ \E type \in {"accept", "deny"} : Take(j, type)
  /\ Stays(j) /\ UNCHANGED playerVars
-----------------------------------------------------------------------------
(* What joiner j does. *)

Say(j, type) ==
  /\ Len(toHost[j]) < MaxQueue
  /\ toHost' = [toHost EXCEPT ![j] = Append(@, [type |-> type])]
  /\ UNCHANGED <<gameVars, held>>

RequestGameJoin(j) ==
  /\ place[j] = "lobby" /\ pending[j] = "none" /\ view[j] # NoGame
  /\ Say(j, "join")
  /\ pending' = [pending EXCEPT ![j] = "join"]
  /\ UNCHANGED <<place, view, locked, agreed, toJoiner>>

JoinTimesOut(j) ==
  /\ pending[j] = "join"
  /\ pending' = [pending EXCEPT ![j] = "none"]
  /\ UNCHANGED <<place, view, locked, agreed, held, gameVars, toHost, toJoiner>>

(* With his controls enabled j changes his own slot: he writes what he has      *)
(* chosen into his copy, then asks the host for it.  A faction or a team also    *)
(* resets the accepts in his copy, a start position does not.                  *)
CanChoose(j) == place[j] = "setup" /\ ~locked[j]

AskRules(j) ==
  /\ "rules" \in Asks /\ CanChoose(j)
  /\ \E a \in {{}, view[j].accepts} :
       view' = [view EXCEPT ![j].options.rules = Mine, ![j].accepts = a]
  /\ Say(j, "rules")
  /\ UNCHANGED <<place, pending, locked, agreed, toJoiner>>

(* A color is asked for only if j still has a slot in his copy. *)
AskLooks(j) ==
  /\ "looks" \in Asks /\ CanChoose(j)
  /\ view' = [view EXCEPT ![j].options.looks = Mine]
  /\ IF j \in Humans(view[j].slots) THEN Say(j, "looks") ELSE UNCHANGED <<gameVars, held, toHost>>
  /\ UNCHANGED <<place, pending, locked, agreed, toJoiner>>

(* The window loses the focus, whatever the controls are. *)
setIsActive(j) ==
  /\ "inactive" \in Asks /\ place[j] = "setup"
  /\ Say(j, "inactive")
  /\ UNCHANGED <<playerVars, toJoiner>>

(* The accept button stays enabled until the host has answered. *)
RequestAccept(j) ==
  /\ "yes" \in Asks /\ CanChoose(j) /\ Say(j, "yes")
  /\ agreed' = [agreed EXCEPT ![j] = view[j].options.rules]
  /\ UNCHANGED <<place, pending, view, locked, toJoiner>>

(* The others in j's own slot list are told too. *)
RequestGameLeave(j) ==
  /\ j \in Leavers /\ place[j] = "setup" /\ Room
  /\ Say(j, "leave")
  /\ pending' = [pending EXCEPT ![j] = "leave"]
  /\ LET told == Humans(view[j].slots) \ {j}
     IN toJoiner' = [k \in Joiner |-> IF k \in told
                       THEN Append(toJoiner[k], [type |-> "leave", who |-> j]) ELSE toJoiner[k]]
  /\ UNCHANGED <<place, view, locked, agreed>>

LeaveTimesOut(j) ==
  /\ place[j] = "setup" /\ pending[j] = "leave"
  /\ ToLobby(j)

(* Sixteen periods without options or an announcement of the game. *)
\* mutant: j waits for ever
WaitForHost(j) == FALSE /\ UNCHANGED vars
HostNotResponding(j) ==
  /\ place[j] = "setup" /\ hosting # "setup" /\ ~Readable(j)
  /\ ToLobby(j)

(* Two periods without an announcement, in the lobby. *)
ForgetGame(j) ==
  /\ place[j] = "lobby" /\ view[j] # NoGame
  /\ hosting # "setup" \/ Lossy
  /\ view' = [view EXCEPT ![j] = NoGame]
  /\ UNCHANGED <<place, pending, locked, agreed, held, gameVars, toHost, toJoiner>>

LoseToHost(j) ==
  /\ Lossy
  /\ \E i \in 1 .. Len(toHost[j]) : toHost' = [toHost EXCEPT ![j] = RemoveAt(@, i)]
  /\ UNCHANGED <<gameVars, playerVars, held, toJoiner>>
LoseToJoiner(j) ==
  /\ Lossy
  /\ \E i \in Next1(j) .. Len(toJoiner[j]) : toJoiner' = [toJoiner EXCEPT ![j] = RemoveAt(@, i)]
  /\ UNCHANGED <<gameVars, playerVars, held, toHost>>
-----------------------------------------------------------------------------
HostReads(j) ==
  \/ Admit(j) \/ Deny(j) \/ GrantRules(j) \/ GrantLooks(j) \/ SendAgain(j) \/ Ignore(j)
  \/ OnAccept(j) \/ handleInActive(j) \/ handleRequestGameLeave(j)

JoinerReads(j) ==
  \/ handleGameAnnounce(j) \/ OnGameOptions(j) \/ Booted(j)
  \/ handleJoinAccept(j) \/ handleJoinDeny(j)
  \/ handleOthersLeave(j) \/ OnHostLeave(j) \/ handleGameStart(j) \/ Skip(j)

HostActs ==
  \/ HostChanges \/ StartPressed \/ RequestGameStart \/ Resend \/ HostLeaves
  \/ \E i \in Slot, state \in Edits : SetSlot(i, state)
  \/ \E j \in Joiner, state \in Kicks : Kick(j, state)

JoinerActs(j) ==
  \/ RequestGameJoin(j) \/ RequestAccept(j) \/ RequestGameLeave(j)
  \/ AskRules(j) \/ AskLooks(j) \/ setIsActive(j)

TimesOut(j) ==
  \/ DropSilent(j) \/ JoinTimesOut(j) \/ LeaveTimesOut(j) \/ HostNotResponding(j) \/ ForgetGame(j)

Next ==
  \/ HostActs
  \/ \E j \in Joiner :
       HostReads(j) \/ JoinerReads(j) \/ JoinerActs(j) \/ TimesOut(j)
       \/ LoseToHost(j) \/ LoseToJoiner(j)

Spec == Init /\ [][Next]_vars
-----------------------------------------------------------------------------
(* LANAPI::update runs every frame, reads what has come, sends the periodic   *)
(* messages and looks at the timeouts.  Fairness is strong where a full queue, *)
(* a bound of the model, stands in the way now and then.                      *)
MessagesMove == WF_vars(Resend) /\ \A j \in Joiner : SF_vars(HostReads(j)) /\ WF_vars(JoinerReads(j))
TimeoutsCome ==
  \A j \in Joiner :
    SF_vars(DropSilent(j)) /\ WF_vars(LeaveTimesOut(j)) /\ WF_vars(HostNotResponding(j))

TalkingSpec == Spec /\ MessagesMove
FairSpec == TalkingSpec /\ TimeoutsCome
-----------------------------------------------------------------------------
(* While the countdown runs everybody in the slots has accepted, whoever comes, *)
(* leaves, becomes inactive or asks for another faction meanwhile: each of those *)
(* handlers either stops the countdown or leaves the accepts alone.             *)
CountdownMeansAccepted == counting => Humans(slots) \subseteq accepted

(* Nobody enters the setup screen on a late or repeated answer, unless the host *)
(* still has him in a slot: every answer is sent twice, handleJoinAccept does not *)
(* test which request it answers, and only the lobby's reset() forgets old ones. *)
EntersOnlyIfListed ==
  [][\A j \in Joiner : place[j] = "lobby" /\ place'[j] = "setup"
                       => hosting = "left" \/ j \in Humans(slots)]_vars

(* Players who start play the host's game: the options he had and everybody in *)
(* the slot he had them in (OnGameStart uses each player's own copy).           *)
SameGame ==
  \A j \in Joiner : place[j] = "playing" =>
    /\ hosting = "playing" /\ j \in Humans(slots)
    /\ CloseOpen(view[j].slots) = slots /\ view[j].options = options

(* The same where players leave: whoever never does starts the host's game, with *)
(* its options and every slot as the host has it, but those of players who may  *)
(* leave, which each player opens when he hears of it (handleRequestGameLeave).  *)
StayersAgree ==
  \A j \in Joiner \ Leavers : place[j] = "playing" =>
    /\ hosting = "playing" /\ j \in Humans(slots)
    /\ view[j].options = options
    /\ \A i \in Slot : CloseOpen(view[j].slots)[i] = slots[i] \/ slots[i] \in Leavers

(* A slot held by somebody who is not there, because the answer or his leaving *)
(* was lost, becomes free again.                                               *)
GhostsLeave ==
  \A j \in Joiner :
    (hosting = "setup" /\ j \in Humans(slots) /\ place[j] = "lobby")
      ~> (hosting # "setup" \/ j \notin Humans(slots) \/ place[j] # "lobby")

(* When the host plays or has gone nobody stays on the setup screen, even if the *)
(* message that says so is lost.                                               *)
NobodyStranded ==
  \A j \in Joiner : (hosting # "setup" /\ place[j] = "setup") ~> place[j] # "setup"

(* "I'm cool with everything as is" (MSG_SET_ACCEPT): a game starts on rules   *)
(* that everybody in it had on his screen when he accepted.                    *)
StartsAsAgreed ==
  hosting = "playing" => \A j \in Humans(slots) : agreed[j] = options.rules

(* OnGameOptions: a player who gets a slot list without himself has been booted *)
(* and goes back to the lobby, so one whom the host removes does.               *)
KickedLeave ==
  \A j \in Joiner :
    (hosting = "setup" /\ place[j] = "setup" /\ j \notin Humans(slots))
      ~> (hosting # "setup" \/ place[j] # "setup" \/ j \in Humans(slots))
=============================================================================
