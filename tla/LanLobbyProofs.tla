---------------------------- MODULE LanLobbyProofs ----------------------------
(***************************************************************************)
(* The LAN lobby, for any joiners, slots and options: the countdown runs    *)
(* only while everybody in the slots has accepted; the variables keep their *)
(* types; and whoever stays to the start plays the host's game.             *)
(***************************************************************************)
EXTENDS LanLobby, SequenceTheorems, WellFoundedInduction, TLAPS

(* CountdownMeansAccepted is inductive with the type of the slots: closing and *)
(* opening slots by hand lets nobody in.                                       *)
CountdownInv == slots \in SlotLists /\ CountdownMeansAccepted

LEMMA NobodyEnters ==
  ASSUME NEW s \in SlotLists, NEW t,
         \A i \in Slot : t[i] = s[i] \/ t[i] \notin Joiner
  PROVE  Humans(t) \subseteq Humans(s)
BY Zenon DEF Humans

LEMMA SlotTypes ==
  /\ \A s \in SlotLists, j \in Joiner, state \in {Open, Closed} : Without(s, j, state) \in SlotLists
  /\ \A s \in SlotLists : CloseOpen(s) \in SlotLists /\ Humans(CloseOpen(s)) \subseteq Humans(s)
<1>1. \A s \in SlotLists, j \in Joiner, state \in {Open, Closed} : Without(s, j, state) \in SlotLists
  BY DEF SlotLists, Without
<1>2. ASSUME NEW s \in SlotLists
      PROVE  CloseOpen(s) \in SlotLists /\ Humans(CloseOpen(s)) \subseteq Humans(s)
  <2>1. CloseOpen(s) \in SlotLists BY DEF SlotLists, Without, CloseOpen
  <2>2. \A i \in Slot : CloseOpen(s)[i] = s[i] \/ CloseOpen(s)[i] \notin Joiner
    BY LobbyAssumption DEF SlotLists, Without, CloseOpen
  <2> QED BY <2>1, <2>2, NobodyEnters
<1> QED BY <1>1, <1>2

LEMMA InitCountdown == Init => CountdownInv
BY DEF Init, CountdownInv, CountdownMeansAccepted, SlotLists

(* The host reads a message: whatever lets somebody in or takes an accept back *)
(* ends the countdown.                                                         *)
LEMMA HostReadsCountdown ==
  ASSUME CountdownInv, NEW j \in Joiner, HostReads(j)
  PROVE  CountdownInv'
<1> USE DEF CountdownInv, CountdownMeansAccepted
<1>1. CASE Admit(j)
  BY <1>1 DEF Admit, resetAccepted, SlotLists
<1>2. CASE Deny(j)
  BY <1>2 DEF Deny, gameVars, Humans
<1>3. CASE GrantRules(j)
  BY <1>3 DEF GrantRules, resetAccepted
<1>4. CASE GrantLooks(j)
  BY <1>4 DEF GrantLooks, Humans
<1>5. CASE SendAgain(j)
  BY <1>5 DEF SendAgain, Humans
<1>6. CASE Ignore(j)
  BY <1>6 DEF Ignore, gameVars, Humans
<1>7. CASE OnAccept(j)
  BY <1>7 DEF OnAccept, Humans
<1>8. CASE handleInActive(j)
  BY <1>8 DEF handleInActive, Humans
<1>9. CASE handleRequestGameLeave(j)
  <2>1. slots' = Without(slots, j, Open) /\ counting' = FALSE
    BY <1>9 DEF handleRequestGameLeave, Leaves, resetAccepted
  <2> QED BY <2>1, SlotTypes
<1> QED BY <1>1, <1>2, <1>3, <1>4, <1>5, <1>6, <1>7, <1>8, <1>9 DEF HostReads

(* The host acts: only the start button begins the countdown. *)
LEMMA HostActsCountdown ==
  ASSUME CountdownInv, HostActs
  PROVE  CountdownInv'
<1> USE DEF CountdownInv, CountdownMeansAccepted
<1>1. CASE HostChanges
  BY <1>1 DEF HostChanges, resetAccepted, Humans
<1>2. CASE StartPressed
  BY <1>2, SlotTypes DEF StartPressed
<1>3. CASE RequestGameStart
  BY <1>3, SlotTypes DEF RequestGameStart
<1>4. CASE Resend
  BY <1>4 DEF Resend, gameVars, Humans
<1>5. CASE HostLeaves
  BY <1>5 DEF HostLeaves, SlotLists
<1>6. ASSUME NEW i \in Slot, NEW state \in Edits, SetSlot(i, state)
      PROVE  CountdownInv'
  <2>1. slots' = [slots EXCEPT ![i] = state] /\ UNCHANGED <<accepted, counting>>
    BY <1>6 DEF SetSlot
  <2>2. slots' \in SlotLists
    BY <2>1, LobbyAssumption DEF SlotLists
  <2>3. \A k \in Slot : slots'[k] = slots[k] \/ slots'[k] \notin Joiner
    BY <2>1, LobbyAssumption DEF SlotLists
  <2>4. Humans(slots') \subseteq Humans(slots)
    BY <2>3, NobodyEnters
  <2> QED BY <2>1, <2>2, <2>4
<1>7. ASSUME NEW j \in Joiner, NEW state \in Kicks, Kick(j, state)
      PROVE  CountdownInv'
  BY <1>7, SlotTypes, LobbyAssumption DEF Kick, resetAccepted
<1> QED BY <1>1, <1>2, <1>3, <1>4, <1>5, <1>6, <1>7 DEF HostActs

(* Who is silent is dropped as if he had left. *)
LEMMA DropSilentCountdown ==
  ASSUME CountdownInv, NEW j \in Joiner, DropSilent(j)
  PROVE  CountdownInv'
<1>1. slots' = Without(slots, j, Open) /\ counting' = FALSE
  BY DEF DropSilent, Leaves, resetAccepted
<1> QED BY <1>1, SlotTypes DEF CountdownInv, CountdownMeansAccepted

(* Joiners and the network change nothing of the host's. *)
LEMMA JoinersLeaveTheGame ==
  ASSUME NEW j \in Joiner,
         \/ JoinerReads(j) \/ JoinerActs(j) \/ LoseToHost(j) \/ LoseToJoiner(j)
         \/ JoinTimesOut(j) \/ LeaveTimesOut(j) \/ HostNotResponding(j) \/ ForgetGame(j)
  PROVE  UNCHANGED gameVars
<1>1. CASE JoinerReads(j)
  BY <1>1 DEF JoinerReads, handleGameAnnounce, OnGameOptions, Booted, handleJoinAccept,
     handleJoinDeny, handleOthersLeave, OnHostLeave, handleGameStart, Skip, Stays, ToLobby
<1>2. CASE JoinerActs(j)
  BY <1>2 DEF JoinerActs, RequestGameJoin, RequestAccept, RequestGameLeave, AskRules, AskLooks,
     setIsActive, Say
<1>3. CASE LoseToHost(j) \/ LoseToJoiner(j)
  BY <1>3 DEF LoseToHost, LoseToJoiner
<1>4. CASE JoinTimesOut(j) \/ LeaveTimesOut(j) \/ HostNotResponding(j) \/ ForgetGame(j)
  BY <1>4 DEF JoinTimesOut, LeaveTimesOut, HostNotResponding, ForgetGame, ToLobby
<1> QED BY <1>1, <1>2, <1>3, <1>4

LEMMA UnchangedCountdown ==
  ASSUME CountdownInv, UNCHANGED gameVars
  PROVE  CountdownInv'
BY DEF CountdownInv, CountdownMeansAccepted, gameVars, Humans

(* While the countdown runs everybody in the slots has accepted, for any number *)
(* of joiners and slots and whatever is lost: no handler of the host takes an   *)
(* accept back or lets somebody in without ending it.                           *)
THEOREM CountdownIsAccepted == Spec => []CountdownMeansAccepted
<1>1. Init => CountdownInv
  BY InitCountdown
<1>2. CountdownInv /\ [Next]_vars => CountdownInv'
  <2> SUFFICES ASSUME CountdownInv, [Next]_vars PROVE CountdownInv'
    OBVIOUS
  <2>1. CASE UNCHANGED vars
    BY <2>1, UnchangedCountdown DEF vars
  <2>2. CASE HostActs
    BY <2>2, HostActsCountdown
  <2>3. ASSUME NEW j \in Joiner, HostReads(j) PROVE CountdownInv'
    BY <2>3, HostReadsCountdown
  <2>4. ASSUME NEW j \in Joiner, DropSilent(j) PROVE CountdownInv'
    BY <2>4, DropSilentCountdown
  <2>5. ASSUME NEW j \in Joiner,
               \/ JoinerReads(j) \/ JoinerActs(j) \/ LoseToHost(j) \/ LoseToJoiner(j)
               \/ JoinTimesOut(j) \/ LeaveTimesOut(j) \/ HostNotResponding(j) \/ ForgetGame(j)
        PROVE  CountdownInv'
    <3>1. UNCHANGED gameVars BY <2>5, JoinersLeaveTheGame
    <3> QED BY <3>1, UnchangedCountdown
  <2> QED BY <2>1, <2>2, <2>3, <2>4, <2>5 DEF Next, TimesOut
<1>3. CountdownInv => CountdownMeansAccepted
  BY DEF CountdownInv
<1> QED BY <1>1, <1>2, <1>3, PTL DEF Spec

-----------------------------------------------------------------------------
(* Types, messages and mail.                                                   *)

Told      == [type : {"options", "announce"}, info : Infos]
Accepting == [type : {"accept"}, pos : Slot]
Leaving   == [type : {"leave"}, who : Leavers]
Plain     == [type : {"deny", "start", "gone"}]
Messages  == Told \cup Accepting \cup Leaving \cup Plain

Types == TypeOK /\ toJoiner \in [Joiner -> Seq(Messages)]

LEMMA MessageTypes ==
  ASSUME NEW m \in Messages
  PROVE  /\ m.type \in {"options", "announce", "accept", "leave", "deny", "start", "gone"}
         /\ m.type \in {"options", "announce"} => m.info \in Infos
         /\ m.type = "accept" => m.pos \in Slot
         /\ m.type = "leave" => m.who \in Leavers
BY DEF Messages, Told, Accepting, Leaving, Plain

\* What the host has set a joiner's copy can have, too.
LEMMA OptionsInCopies == Options \subseteq OwnOptions
BY LobbyAssumption DEF Options, OwnOptions, Mine

LEMMA SomeMessages ==
  /\ \A a : \A s \in SlotLists, o \in Options, type \in {"options", "announce"} :
       [type |-> type, info |-> Info(s, o, a)] \in Messages
  /\ \A i \in Slot : [type |-> "accept", pos |-> i] \in Messages
  /\ \A j \in Leavers : [type |-> "leave", who |-> j] \in Messages
  /\ [type |-> "deny"] \in Messages /\ [type |-> "start"] \in Messages
  /\ [type |-> "gone"] \in Messages
<1>1. \A a : \A s \in SlotLists, o \in Options : Info(s, o, a) \in Infos
  BY OptionsInCopies DEF Info, Infos, Humans
<1> QED BY <1>1 DEF Messages, Told, Accepting, Leaving, Plain

LEMMA CloseOpenHumans ==
  ASSUME NEW s \in SlotLists
  PROVE  Humans(CloseOpen(s)) = Humans(s)
<1>1. \A i \in Slot : CloseOpen(s)[i] = s[i] \/ (s[i] = Open /\ CloseOpen(s)[i] = Closed)
  BY DEF CloseOpen, Without
<1> QED BY <1>1, LobbyAssumption, Zenon DEF Humans

\* q and then some more.
Extends(q, r) ==
  /\ Len(q) <= Len(r)
  /\ \A i \in 1 .. Len(q) : r[i] = q[i]
NoneNew(q, r, type) == \A i \in DOMAIN r : i > Len(q) => r[i].type # type

(* Mail goes to the end of the queues. *)
LEMMA MailExtends ==
  ASSUME NEW queues \in [Joiner -> Seq(Messages)], NEW S \in SUBSET Joiner, NEW m \in Messages,
         NEW mail, mail.to = S, mail.message = m, NEW j \in Joiner
  PROVE  /\ Extends(queues[j], (queues ++ mail)[j])
         /\ \A type : m.type # type => NoneNew(queues[j], (queues ++ mail)[j], type)
<1>1. queues[j] \in Seq(Messages)
  OBVIOUS
<1>2. (queues ++ mail)[j] = queues[j] \/ (queues ++ mail)[j] = Append(queues[j], m)
  BY DEF ++
<1> QED BY <1>1, <1>2 DEF Extends, NoneNew

LEMMA ExtendsOn ==
  ASSUME NEW q \in Seq(Messages), NEW r \in Seq(Messages), NEW s \in Seq(Messages),
         Extends(q, r), Extends(r, s)
  PROVE  /\ Extends(q, s)
         /\ \A type : NoneNew(q, r, type) /\ NoneNew(r, s, type) => NoneNew(q, s, type)
<1>1. Len(q) <= Len(r) /\ Len(r) <= Len(s) /\ Len(q) \in Nat /\ Len(r) \in Nat /\ DOMAIN r = 1 .. Len(r)
  BY DEF Extends
<1>2. Extends(q, s)
  BY <1>1 DEF Extends
<1>3. ASSUME NEW type, NoneNew(q, r, type), NoneNew(r, s, type), NEW i \in DOMAIN s, i > Len(q)
      PROVE  s[i].type # type
  <2>1. i \in Nat
    BY <1>3
  <2>2. CASE i > Len(r)
    BY <1>3, <2>2 DEF NoneNew
  <2>3. CASE i <= Len(r)
    <3>1. i \in 1 .. Len(r)
      BY <1>1, <1>3, <2>1, <2>3
    <3>2. s[i] = r[i]
      BY <3>1 DEF Extends
    <3> QED BY <1>1, <1>3, <3>1, <3>2 DEF NoneNew
  <2> QED BY <1>1, <2>1, <2>2, <2>3
<1> QED BY <1>2, <1>3 DEF NoneNew

LEMMA Removed ==
  ASSUME NEW q \in Seq(Messages), NEW i \in 1 .. Len(q)
  PROVE  /\ RemoveAt(q, i) \in Seq(Messages) /\ Len(RemoveAt(q, i)) = Len(q) - 1
         /\ \A k \in 1 .. Len(q) - 1 : RemoveAt(q, i)[k] = IF k < i THEN q[k] ELSE q[k + 1]
<1> DEFINE a == SubSeq(q, 1, i - 1)
           b == SubSeq(q, i + 1, Len(q))
<1>1. a \in Seq(Messages) /\ Len(a) = i - 1 /\ \A k \in 1 .. i - 1 : a[k] = q[k]
  OBVIOUS
<1>2. b \in Seq(Messages) /\ Len(b) = Len(q) - i /\ \A k \in 1 .. Len(q) - i : b[k] = q[k + i]
  OBVIOUS
<1>3. RemoveAt(q, i) = a \o b
  BY DEF RemoveAt
<1> HIDE DEF a, b
<1>4. a \o b \in Seq(Messages) /\ Len(a \o b) = Len(q) - 1
  <2>1. a \o b \in Seq(Messages) /\ Len(a \o b) = Len(a) + Len(b)
    BY <1>1, <1>2, ConcatProperties
  <2>2. Len(a) + Len(b) = Len(q) - 1
    BY <1>1, <1>2
  <2> QED BY <2>1, <2>2
<1>5. ASSUME NEW k \in 1 .. Len(q) - 1
      PROVE  (a \o b)[k] = IF k < i THEN q[k] ELSE q[k + 1]
  <2>1. (a \o b)[k] = IF k <= Len(a) THEN a[k] ELSE b[k - Len(a)]
    BY <1>1, <1>2
  <2> QED BY <2>1, <1>1, <1>2
<1> QED BY <1>3, <1>4, <1>5

-----------------------------------------------------------------------------
(* What the host says when he changes something.                               *)

(* q are the queues and then some, with no start and with acceptances for      *)
(* nobody but players in s.                                                    *)
Grown(q, s) ==
  /\ q \in [Joiner -> Seq(Messages)]
  /\ \A j \in Joiner :
       /\ Extends(toJoiner[j], q[j]) /\ NoneNew(toJoiner[j], q[j], "start")
       /\ j \notin Audience(s) => NoneNew(toJoiner[j], q[j], "accept")

\* The last that was said of the game is info, and as options.
Informed(q, info) ==
  \E i \in DOMAIN q :
    /\ q[i].type = "options" /\ q[i].info = info
    /\ \A k \in DOMAIN q : k > i => q[k].type = "announce" /\ q[k].info = info

Tells(m) == m.type \in {"options", "announce"}

(* Everybody in the host's slots, or everybody, is told of the game as it is    *)
(* now.                                                                        *)
Informs ==
  /\ hosting = "setup" /\ hosting' = "setup" /\ UNCHANGED <<playerVars, held>>
  /\ slots' \in SlotLists /\ options' \in Options
  /\ Grown(toJoiner', slots')
  /\ \A j \in Audience(slots') : Informed(toJoiner'[j], Info(slots', options', accepted'))

LEMMA NothingSaid ==
  ASSUME toJoiner \in [Joiner -> Seq(Messages)], NEW s
  PROVE  Grown(toJoiner, s)
<1>1. \A j \in Joiner : toJoiner[j] \in Seq(Messages)
  OBVIOUS
<1> QED BY <1>1 DEF Grown, Extends, NoneNew

LEMMA MailGrows ==
  ASSUME toJoiner \in [Joiner -> Seq(Messages)], NEW s, NEW q, Grown(q, s),
         NEW S \in SUBSET Joiner, NEW m \in Messages, NEW mail, mail.to = S, mail.message = m,
         m.type # "start", m.type = "accept" => S \subseteq Audience(s)
  PROVE  Grown(q ++ mail, s)
<1>1. q \in [Joiner -> Seq(Messages)]
  BY DEF Grown
<1>2. q ++ mail \in [Joiner -> Seq(Messages)]
  <2>1. \A k \in Joiner : q[k] \in Seq(Messages) /\ Append(q[k], m) \in Seq(Messages)
    BY <1>1
  <2> QED BY <2>1 DEF ++
<1>3. ASSUME NEW j \in Joiner
      PROVE  /\ Extends(toJoiner[j], (q ++ mail)[j])
             /\ NoneNew(toJoiner[j], (q ++ mail)[j], "start")
             /\ j \notin Audience(s) => NoneNew(toJoiner[j], (q ++ mail)[j], "accept")
  <2> DEFINE a == toJoiner[j]
             b == q[j]
             c == (q ++ mail)[j]
  <2>1. a \in Seq(Messages) /\ b \in Seq(Messages) /\ c \in Seq(Messages)
    BY <1>1, <1>2
  <2>2. Extends(b, c) /\ NoneNew(b, c, "start")
    BY <1>1, MailExtends
  <2>3. Extends(a, b) /\ NoneNew(a, b, "start")
    BY DEF Grown
  <2>4. Extends(a, c) /\ NoneNew(a, c, "start")
    <3> HIDE DEF a, b, c
    <3> QED BY <2>1, <2>2, <2>3, ExtendsOn
  <2>5. ASSUME j \notin Audience(s) PROVE NoneNew(a, c, "accept")
    <3>1. NoneNew(a, b, "accept")
      BY <2>5 DEF Grown
    <3>2. NoneNew(b, c, "accept")
      <4>1. CASE m.type # "accept"
        BY <4>1, <1>1, MailExtends
      <4>2. CASE m.type = "accept"
        <5>1. j \notin S
          BY <4>2, <2>5
        <5>2. c = b
          BY <5>1, <1>1 DEF ++
        <5> HIDE DEF b, c
        <5> QED BY <5>2, <2>1 DEF NoneNew
      <4> QED BY <4>1, <4>2
    <3> HIDE DEF a, b, c
    <3> QED BY <2>1, <2>2, <2>3, <3>1, <3>2, ExtendsOn
  <2> QED BY <2>4, <2>5
<1> QED BY <1>2, <1>3 DEF Grown

LEMMA OptionsMail ==
  ASSUME NEW s \in SlotLists, NEW o \in Options, NEW a
  PROVE  /\ GameOptions(s, o, a).to = Audience(s) /\ Audience(s) \in SUBSET Joiner
         /\ GameOptions(s, o, a).message = [type |-> "options", info |-> Info(s, o, a)]
         /\ [type |-> "options", info |-> Info(s, o, a)] \in Messages
BY SomeMessages DEF GameOptions, FanOut, Audience, Humans

LEMMA OptionsInform ==
  ASSUME toJoiner \in [Joiner -> Seq(Messages)], NEW s \in SlotLists, NEW o \in Options, NEW a,
         NEW q, Grown(q, s)
  PROVE  /\ Grown(q ++ GameOptions(s, o, a), s)
         /\ \A j \in Audience(s) : Informed((q ++ GameOptions(s, o, a))[j], Info(s, o, a))
<1> DEFINE m == [type |-> "options", info |-> Info(s, o, a)]
           mail == GameOptions(s, o, a)
           S == Audience(s)
<1>1. mail.to = S /\ S \in SUBSET Joiner /\ mail.message = m /\ m \in Messages
  BY OptionsMail
<1>2. m.type = "options" /\ m.info = Info(s, o, a)
  OBVIOUS
<1>3. q \in [Joiner -> Seq(Messages)]
  BY DEF Grown
<1> HIDE DEF m, mail, S
<1>4. Grown(q ++ mail, s)
  BY <1>1, <1>2, MailGrows
<1>5. ASSUME NEW j \in S PROVE Informed((q ++ mail)[j], Info(s, o, a))
  <2>1. j \in Joiner /\ q[j] \in Seq(Messages)
    BY <1>1, <1>3
  <2>2. (q ++ mail)[j] = Append(q[j], m)
    BY <1>1, <2>1 DEF ++
  <2>3. /\ Append(q[j], m)[Len(q[j]) + 1] = m /\ Len(Append(q[j], m)) = Len(q[j]) + 1
        /\ DOMAIN Append(q[j], m) = 1 .. Len(q[j]) + 1 /\ Len(q[j]) \in Nat
    BY <1>1, <2>1
  <2> QED BY <1>2, <2>2, <2>3 DEF Informed
<1> QED BY <1>4, <1>5 DEF mail, S

LEMMA FirstOpenIsOpen ==
  ASSUME NEW j, CanJoin(j)
  PROVE  FirstOpen \in Slot /\ slots[FirstOpen] = Open
<1> DEFINE S == {i \in Slot : slots[i] = Open}
           R == {ss \in Nat \X Nat : ss[1] < ss[2]}
<1>1. S \subseteq Nat /\ S # {}
  BY LobbyAssumption DEF CanJoin
<1>2. PICK n \in S : \A m \in S : ~(<<m, n>> \in R)
  <2>1. IsWellFoundedOn(R, Nat)
    BY NatLessThanWellFounded DEF OpToRel
  <2> HIDE DEF R, S
  <2> QED BY <1>1, <2>1, WFMin
<1>3. \A m \in S : n <= m
  <2> TAKE m \in S
  <2>1. <<m, n>> \in Nat \X Nat
    BY <1>1
  <2>2. ~(m < n)
    BY <1>2, <2>1
  <2> QED BY <1>1, <2>2
<1>4. Min(S) \in S
  BY <1>3 DEF Min
<1> QED BY <1>4 DEF FirstOpen

(* The host lets somebody in: the acceptance goes to a player in the slots. *)
LEMMA AdmitInforms ==
  ASSUME Types, NEW j \in Joiner, Admit(j)
  PROVE  Informs /\ slots'[FirstOpen] = j /\ FirstOpen \in Slot
<1> DEFINE s == [slots EXCEPT ![FirstOpen] = j]
           accept == [type |-> "accept", pos |-> FirstOpen]
           a == toJoiner ++ GameOptions(s, options, {})
           b == a ++ Direct(j, accept)
           c == b ++ Direct(j, accept)
           d == c ++ GameOptions(s, options, {})
<1>1. CanJoin(j) /\ slots' = s /\ UNCHANGED <<hosting, options, playerVars, held>> /\ toJoiner' = d
      /\ accepted' = {}
  BY DEF Admit, Request, resetAccepted
<1>2. FirstOpen \in Slot /\ hosting = "setup"
  BY <1>1, FirstOpenIsOpen DEF CanJoin
<1>3. s \in SlotLists /\ s[FirstOpen] = j /\ options \in Options
  BY <1>2 DEF Types, TypeOK, SlotLists
<1>4. accept \in Messages /\ accept.type = "accept"
  BY <1>2, SomeMessages
<1>5. {j} \subseteq Audience(s)
  BY <1>2, <1>3 DEF Audience, Humans
<1>6. /\ Direct(j, accept).to = {j} /\ {j} \in SUBSET Joiner /\ Direct(j, accept).message = accept
  BY DEF Direct
<1>7. toJoiner \in [Joiner -> Seq(Messages)]
  BY DEF Types
<1> HIDE DEF s, accept
<1>8. Grown(a, s)
  BY <1>3, <1>7, NothingSaid, OptionsInform
<1> HIDE DEF a
<1>9. Grown(b, s)
  BY <1>4, <1>5, <1>6, <1>7, <1>8, MailGrows
<1> HIDE DEF b
<1>10. Grown(c, s)
  BY <1>4, <1>5, <1>6, <1>7, <1>9, MailGrows
<1> HIDE DEF c
<1>11. Grown(d, s) /\ \A k \in Audience(s) : Informed(d[k], Info(s, options, {}))
  BY <1>3, <1>7, <1>10, OptionsInform
<1> HIDE DEF d
<1> QED BY <1>1, <1>2, <1>3, <1>11 DEF Informs

(* Most changes are followed by the options and nothing else. *)
LEMMA OneMailInforms ==
  ASSUME Types, hosting = "setup", hosting' = "setup", UNCHANGED <<playerVars, held>>,
         NEW s \in SlotLists, NEW o \in Options, NEW a, slots' = s, options' = o, accepted' = a,
         Post(GameOptions(s, o, a))
  PROVE  Informs
<1>1. toJoiner \in [Joiner -> Seq(Messages)]
  BY DEF Types
<1>2. toJoiner' = toJoiner ++ GameOptions(s, o, a)
  BY DEF Post
<1>3. Grown(toJoiner', s) /\ \A k \in Audience(s) : Informed(toJoiner'[k], Info(s, o, a))
  BY <1>1, <1>2, NothingSaid, OptionsInform
<1> QED BY <1>3 DEF Informs

LEMMA DenyInforms ==
  ASSUME Types, NEW j \in Joiner, Deny(j), hosting = "setup"
  PROVE  Informs
<1> DEFINE m == [type |-> "deny"]
           a == toJoiner ++ Direct(j, m)
           b == a ++ Direct(j, m)
           c == b ++ GameOptions(slots, options, accepted)
<1>1. UNCHANGED <<gameVars, playerVars, held>> /\ toJoiner' = c
  BY DEF Deny, Request
<1>2. slots \in SlotLists /\ options \in Options /\ toJoiner \in [Joiner -> Seq(Messages)]
  BY DEF Types, TypeOK
<1>3. /\ Direct(j, m).to = {j} /\ {j} \in SUBSET Joiner /\ Direct(j, m).message = m
      /\ m \in Messages /\ m.type = "deny"
  BY SomeMessages DEF Direct
<1>4. Grown(toJoiner, slots)
  BY <1>2, NothingSaid
<1> HIDE DEF m
<1>5. Grown(a, slots)
  BY <1>2, <1>3, <1>4, MailGrows
<1> HIDE DEF a
<1>6. Grown(b, slots)
  BY <1>2, <1>3, <1>5, MailGrows
<1> HIDE DEF b
<1>7. Grown(c, slots) /\ \A k \in Audience(slots) : Informed(c[k], Info(slots, options, accepted))
  BY <1>2, <1>6, OptionsInform
<1> HIDE DEF c
<1> QED BY <1>1, <1>2, <1>7 DEF Informs, gameVars

LEMMA LeavesInforms ==
  ASSUME Types, NEW j \in Joiner, Leaves(j), hosting = "setup", UNCHANGED <<playerVars, held>>
  PROVE  Informs
<1> DEFINE s == Without(slots, j, Open)
           m == [type |-> "options", info |-> Info(s, options, {})]
           a == toJoiner ++ GameOptions(s, options, accepted)
           b == a ++ Direct(j, m)
           c == b ++ GameOptions(s, options, {})
<1>1. slots' = s /\ UNCHANGED <<hosting, options>> /\ toJoiner' = c /\ accepted' = {}
  BY DEF Leaves, resetAccepted
<1>2. s \in SlotLists /\ options \in Options /\ toJoiner \in [Joiner -> Seq(Messages)]
  BY SlotTypes DEF Types, TypeOK
<1>3. /\ Direct(j, m).to = {j} /\ {j} \in SUBSET Joiner /\ Direct(j, m).message = m
      /\ m \in Messages /\ m.type = "options"
  BY <1>2, SomeMessages DEF Direct
<1> HIDE DEF s, m
<1>4. Grown(a, s)
  BY <1>2, NothingSaid, OptionsInform
<1> HIDE DEF a
<1>5. Grown(b, s)
  BY <1>2, <1>3, <1>4, MailGrows
<1> HIDE DEF b
<1>6. Grown(c, s) /\ \A k \in Audience(s) : Informed(c[k], Info(s, options, {}))
  BY <1>2, <1>5, OptionsInform
<1> HIDE DEF c
<1> QED BY <1>1, <1>2, <1>6 DEF Informs

(* The periodic announcement comes after the options and says the same. *)
LEMMA ResendInforms ==
  ASSUME Types, Resend
  PROVE  Informs
<1> DEFINE m == [type |-> "announce", info |-> Info(slots, options, accepted)]
           a == toJoiner ++ GameOptions(slots, options, accepted)
           b == a ++ Broadcast(m)
<1>1. hosting = "setup" /\ UNCHANGED <<gameVars, playerVars, held>> /\ toJoiner' = b
  BY DEF Resend, AtHost
<1>2. slots \in SlotLists /\ options \in Options /\ toJoiner \in [Joiner -> Seq(Messages)]
  BY DEF Types, TypeOK
<1>3. /\ Broadcast(m).to = Joiner /\ Joiner \in SUBSET Joiner /\ Broadcast(m).message = m
      /\ m \in Messages /\ m.type = "announce" /\ m.info = Info(slots, options, accepted)
  BY <1>2, SomeMessages DEF Broadcast
<1> HIDE DEF m
<1>4. Grown(a, slots) /\ \A k \in Audience(slots) : Informed(a[k], Info(slots, options, accepted))
  BY <1>2, NothingSaid, OptionsInform
<1>5. a \in [Joiner -> Seq(Messages)]
  BY <1>4 DEF Grown
<1> HIDE DEF a
<1>6. Grown(b, slots)
  BY <1>2, <1>3, <1>4, MailGrows
<1>7. ASSUME NEW k \in Audience(slots)
      PROVE  Informed(b[k], Info(slots, options, accepted))
  <2>1. k \in Joiner /\ a[k] \in Seq(Messages)
    BY <1>2, <1>5, OptionsMail
  <2>2. b[k] = Append(a[k], m)
    BY <1>3, <2>1 DEF ++
  <2> HIDE DEF b
  <2>3. PICK i \in DOMAIN a[k] :
          /\ a[k][i].type = "options" /\ a[k][i].info = Info(slots, options, accepted)
          /\ \A n \in DOMAIN a[k] : n > i => a[k][n].type = "announce" /\ a[k][n].info = Info(slots, options, accepted)
    BY <1>4 DEF Informed
  <2>4. i \in DOMAIN b[k] /\ b[k][i] = a[k][i]
    BY <2>1, <2>2
  <2>5. \A n \in DOMAIN b[k] : n > i => b[k][n].type = "announce" /\ b[k][n].info = Info(slots, options, accepted)
    <3> TAKE n \in DOMAIN b[k]
    <3>1. b[k][n] = IF n = Len(a[k]) + 1 THEN m ELSE a[k][n]
      BY <2>1, <2>2
    <3>2. n # Len(a[k]) + 1 => n \in DOMAIN a[k]
      BY <2>1, <2>2
    <3> QED BY <3>1, <3>2, <1>3, <2>3
  <2> QED BY <2>3, <2>4, <2>5 DEF Informed
<1> HIDE DEF b
<1> QED BY <1>1, <1>2, <1>6, <1>7 DEF Informs, gameVars

\* The queues stay as they are, with nothing at the host's that they speak of.
Quiet == UNCHANGED <<hosting, slots, options, accepted, playerVars, held, toJoiner>>

\* A host who has left turns somebody down.
DenyLeft(j) == hosting = "left" /\ Deny(j)

LEMMA OptionTypes ==
  ASSUME options \in Options
  PROVE  /\ options.rules < MaxRules => MoreRules \in Options
         /\ options.looks < MaxLooks => MoreLooks \in Options
BY LobbyAssumption DEF Options, MoreRules, MoreLooks

LEMMA HostReadsSay ==
  ASSUME Types, NEW j \in Joiner, HostReads(j)
  PROVE  Informs \/ Quiet \/ DenyLeft(j)
<1>1. slots \in SlotLists /\ options \in Options
  BY DEF Types, TypeOK
<1>2. CASE Admit(j)
  BY <1>2, AdmitInforms
<1>3. CASE Deny(j)
  <2>1. hosting \in {"setup", "left"}
    BY <1>3 DEF Deny, Request, Types, TypeOK
  <2> QED BY <1>3, <2>1, DenyInforms DEF DenyLeft
<1>4. CASE GrantRules(j) \/ GrantLooks(j) \/ SendAgain(j) \/ OnAccept(j)
  <2>1. hosting = "setup" /\ UNCHANGED <<hosting, slots, playerVars, held>>
    BY <1>4 DEF GrantRules, GrantLooks, SendAgain, OnAccept, FromPlayer, Request
  <2>2. PICK o \in Options : Change(o)
    BY <1>1, <1>4, OptionTypes DEF GrantRules, GrantLooks, SendAgain, OnAccept
  <2> QED BY <1>1, <2>1, <2>2, OneMailInforms DEF Change
<1>5. CASE handleInActive(j)
  <2>1. hosting = "setup" /\ UNCHANGED <<hosting, slots, playerVars, held>>
    BY <1>5 DEF handleInActive, FromPlayer, Request
  <2>2. CASE counting
    BY <1>5, <2>1, <2>2 DEF handleInActive, Quiet
  <2>3. CASE ~counting
    <3>1. Change(options)
      BY <1>5, <2>3 DEF handleInActive
    <3> QED BY <1>1, <2>1, <3>1, OneMailInforms DEF Change
  <2> QED BY <2>2, <2>3
<1>6. CASE Ignore(j)
  BY <1>6 DEF Ignore, FromPlayer, Request, gameVars, Quiet
<1>7. CASE handleRequestGameLeave(j)
  <2>1. hosting = "setup" /\ UNCHANGED <<playerVars, held>> /\ Leaves(j)
    BY <1>7 DEF handleRequestGameLeave, FromPlayer, Request
  <2> QED BY <2>1, LeavesInforms
<1> QED BY <1>2, <1>3, <1>4, <1>5, <1>6, <1>7 DEF HostReads

LEMMA HostActsSay ==
  ASSUME Types, HostActs
  PROVE  Informs \/ StartPressed \/ RequestGameStart \/ HostLeaves
<1>1. slots \in SlotLists /\ options \in Options
  BY DEF Types, TypeOK
<1>2. CASE HostChanges
  <2>1. hosting = "setup" /\ UNCHANGED <<hosting, slots, playerVars, held>>
    BY <1>2 DEF HostChanges, AtHost
  <2>2. PICK o \in Options : Change(o)
    BY <1>1, <1>2, OptionTypes DEF HostChanges
  <2> QED BY <1>1, <2>1, <2>2, OneMailInforms DEF Change
<1>3. CASE Resend
  BY <1>3, ResendInforms
<1>4. ASSUME NEW i \in Slot, NEW state \in Edits, SetSlot(i, state)
      PROVE  Informs
  <2>1. hosting = "setup" /\ UNCHANGED <<hosting, options, accepted, playerVars, held>>
    BY <1>4 DEF SetSlot, AtHost
  <2>2. slots' \in SlotLists /\ Post(GameOptions(slots', options, accepted))
    BY <1>1, <1>4, LobbyAssumption DEF SetSlot, SlotLists
  <2> QED BY <1>1, <2>1, <2>2, OneMailInforms
<1>5. ASSUME NEW j \in Joiner, NEW state \in Kicks, Kick(j, state)
      PROVE  Informs
  <2>1. hosting = "setup" /\ accepted' = {} /\ UNCHANGED <<hosting, options, playerVars, held>>
    BY <1>5 DEF Kick, AtHost, resetAccepted
  <2>2. slots' \in SlotLists /\ Post(GameOptions(slots', options, {}))
    BY <1>1, <1>5, SlotTypes, LobbyAssumption DEF Kick
  <2> QED BY <1>1, <2>1, <2>2, OneMailInforms
<1> QED BY <1>2, <1>3, <1>4, <1>5 DEF HostActs

LEMMA DropSilentSays ==
  ASSUME Types, NEW j \in Joiner, DropSilent(j)
  PROVE  Informs
BY LeavesInforms DEF DropSilent

(* The host's accepts are of players in his slots. *)
LEMMA AcceptsOfHumans ==
  ASSUME Types, HostActs \/ \E j \in Joiner : HostReads(j) \/ DropSilent(j)
  PROVE  /\ accepted' \subseteq Humans(slots)' /\ counting' \in BOOLEAN
         /\ hosting' \in {"setup", "playing", "left"}
<1>1. slots \in SlotLists /\ accepted \subseteq Humans(slots) /\ counting \in BOOLEAN
      /\ hosting \in {"setup", "playing", "left"}
  BY DEF Types, TypeOK
<1>2. ASSUME NEW j \in Joiner, HostReads(j)
      PROVE  /\ hosting' = hosting /\ counting' \in {counting, FALSE}
             /\ accepted' = {} \/ (slots' = slots /\ accepted' \subseteq accepted \cup Humans(slots))
  BY <1>2 DEF HostReads, Admit, Deny, GrantRules, GrantLooks, SendAgain, Ignore, OnAccept,
     handleInActive, handleRequestGameLeave, Leaves, resetAccepted, FromPlayer, gameVars
<1>3. ASSUME NEW j \in Joiner, DropSilent(j)
      PROVE  hosting' = hosting /\ counting' = FALSE /\ accepted' = {}
  BY <1>3 DEF DropSilent, Leaves, resetAccepted
<1>4. CASE HostChanges \/ Resend \/ HostLeaves
  BY <1>1, <1>4 DEF HostChanges, Resend, HostLeaves, resetAccepted, gameVars, AtHost, Humans
<1>5. CASE StartPressed \/ RequestGameStart
  BY <1>1, <1>5, CloseOpenHumans DEF StartPressed, RequestGameStart
<1>6. ASSUME NEW i \in Slot, NEW state \in Edits, SetSlot(i, state)
      PROVE  accepted' \subseteq Humans(slots)' /\ counting' = counting /\ hosting' = hosting
  <2>1. slots' = [slots EXCEPT ![i] = state] /\ slots[i] \notin Joiner
    BY <1>6, LobbyAssumption DEF SetSlot
  <2>2. Humans(slots) \subseteq Humans(slots')
    BY <1>1, <2>1 DEF Humans, SlotLists
  <2> QED BY <1>1, <1>6, <2>2 DEF SetSlot
<1>7. ASSUME NEW j \in Joiner, NEW state \in Kicks, Kick(j, state)
      PROVE  accepted' = {} /\ counting' = FALSE /\ hosting' = hosting
  BY <1>7 DEF Kick, resetAccepted
<1> QED BY <1>1, <1>2, <1>3, <1>4, <1>5, <1>6, <1>7 DEF HostActs, Humans

-----------------------------------------------------------------------------
(* The types.                                                                  *)

LEMMA InitTypes == Init => Types
<1> SUFFICES ASSUME Init PROVE Types
  OBVIOUS
<1>1. slots \in SlotLists /\ options \in Options /\ accepted \subseteq Humans(slots)
  BY LobbyAssumption DEF Init, SlotLists, Options
<1>2. toJoiner \in [Joiner -> Seq(Messages)] /\ \A j \in Joiner : Len(toJoiner[j]) = 0
  BY DEF Init
<1>3. locked \in [Joiner -> BOOLEAN] /\ agreed \in [Joiner -> Mine .. MaxRules]
  BY LobbyAssumption DEF Init, Mine
<1>4. /\ place \in [Joiner -> {"lobby", "setup", "playing"}]
      /\ pending \in [Joiner -> {"none", "join", "leave"}] /\ view \in [Joiner -> Infos \cup {NoGame}]
      /\ held \in [Joiner -> Nat]
      /\ \A j \in Joiner : place[j] = "lobby" /\ held[j] <= Len(toJoiner[j])
  BY <1>2 DEF Init
<1>5. hosting \in {"setup", "playing", "left"} /\ counting \in BOOLEAN
  BY DEF Init
<1> QED BY <1>1, <1>2, <1>3, <1>4, <1>5 DEF Types, TypeOK

(* One message to some players. *)
LEMMA PostGrows ==
  ASSUME toJoiner \in [Joiner -> Seq(Messages)], NEW m \in Messages, NEW S \in SUBSET Joiner,
         NEW mail, mail.to = S, mail.message = m, toJoiner' = toJoiner ++ mail
  PROVE  /\ toJoiner' \in [Joiner -> Seq(Messages)]
         /\ \A j \in Joiner : Extends(toJoiner[j], toJoiner'[j])
         /\ \A j \in Joiner : \/ toJoiner'[j] = toJoiner[j]
                              \/ j \in S /\ toJoiner'[j] = Append(toJoiner[j], m)
<1>1. \A j \in Joiner : toJoiner[j] \in Seq(Messages) /\ Append(toJoiner[j], m) \in Seq(Messages)
  OBVIOUS
<1>2. \A j \in Joiner : \/ (toJoiner ++ mail)[j] = toJoiner[j]
                        \/ j \in S /\ (toJoiner ++ mail)[j] = Append(toJoiner[j], m)
  BY DEF ++
<1>3. toJoiner' \in [Joiner -> Seq(Messages)]
  BY <1>1 DEF ++
<1>4. \A j \in Joiner : Extends(toJoiner[j], (toJoiner ++ mail)[j])
  BY MailExtends
<1> QED BY <1>2, <1>3, <1>4

LEMMA DenyLeftPosts ==
  ASSUME Types, NEW j \in Joiner, DenyLeft(j)
  PROVE  /\ UNCHANGED <<gameVars, playerVars, held>>
         /\ toJoiner' \in [Joiner -> Seq(Messages)]
         /\ \A k \in Joiner : /\ Extends(toJoiner[k], toJoiner'[k])
                              /\ \A type : type # "deny" => NoneNew(toJoiner[k], toJoiner'[k], type)
<1> DEFINE m == [type |-> "deny"]
           a == toJoiner ++ Direct(j, m)
           b == a ++ Direct(j, m)
<1>1. UNCHANGED <<gameVars, playerVars, held>> /\ toJoiner' = b
  BY DEF DenyLeft, Deny, Request
<1>2. toJoiner \in [Joiner -> Seq(Messages)]
  BY DEF Types
<1>3. /\ Direct(j, m).to = {j} /\ {j} \in SUBSET Joiner /\ Direct(j, m).message = m
      /\ m \in Messages /\ m.type = "deny"
  BY SomeMessages DEF Direct
<1> HIDE DEF m
<1>4. ASSUME NEW q \in [Joiner -> Seq(Messages)]
      PROVE  /\ q ++ Direct(j, m) \in [Joiner -> Seq(Messages)]
             /\ \A k \in Joiner :
                  /\ Extends(q[k], (q ++ Direct(j, m))[k])
                  /\ \A type : type # "deny" => NoneNew(q[k], (q ++ Direct(j, m))[k], type)
  <2>1. \A k \in Joiner : q[k] \in Seq(Messages) /\ Append(q[k], m) \in Seq(Messages)
    BY <1>3
  <2>2. q ++ Direct(j, m) \in [Joiner -> Seq(Messages)]
    BY <1>3, <2>1 DEF ++
  <2>3. ASSUME NEW k \in Joiner
        PROVE  /\ Extends(q[k], (q ++ Direct(j, m))[k])
               /\ \A type : type # "deny" => NoneNew(q[k], (q ++ Direct(j, m))[k], type)
    BY <1>3, MailExtends
  <2> QED BY <2>2, <2>3
<1>5. a \in [Joiner -> Seq(Messages)]
  BY <1>2, <1>4
<1>6. \A k \in Joiner : /\ Extends(toJoiner[k], a[k])
                        /\ \A type : type # "deny" => NoneNew(toJoiner[k], a[k], type)
  BY <1>2, <1>4
<1> HIDE DEF a
<1>7. b \in [Joiner -> Seq(Messages)]
  BY <1>4, <1>5
<1>8. \A k \in Joiner : /\ Extends(a[k], b[k])
                        /\ \A type : type # "deny" => NoneNew(a[k], b[k], type)
  BY <1>4, <1>5
<1> HIDE DEF b
<1>9. ASSUME NEW k \in Joiner
      PROVE  /\ Extends(toJoiner[k], b[k])
             /\ \A type : type # "deny" => NoneNew(toJoiner[k], b[k], type)
  <2>1. toJoiner[k] \in Seq(Messages) /\ a[k] \in Seq(Messages) /\ b[k] \in Seq(Messages)
    BY <1>2, <1>5, <1>7
  <2> QED BY <1>6, <1>8, <2>1, ExtendsOn
<1> QED BY <1>1, <1>7, <1>9

(* Whatever the host does keeps the types. *)
LEMMA HostTypes ==
  ASSUME Types, HostActs \/ \E j \in Joiner : HostReads(j) \/ DropSilent(j)
  PROVE  Types'
<1>1. accepted' \subseteq Humans(slots)' /\ counting' \in BOOLEAN /\ hosting' \in {"setup", "playing", "left"}
  BY AcceptsOfHumans
<1>2. ASSUME slots' \in SlotLists, options' \in Options, UNCHANGED <<playerVars, held>>,
             toJoiner' \in [Joiner -> Seq(Messages)],
             \A j \in Joiner : Extends(toJoiner[j], toJoiner'[j])
      PROVE  Types'
  <2>1. \A j \in Joiner : held'[j] <= Len(toJoiner'[j])
    <3>1. \A j \in Joiner : toJoiner[j] \in Seq(Messages) /\ toJoiner'[j] \in Seq(Messages)
      BY <1>2 DEF Types
    <3> QED BY <1>2, <3>1 DEF Types, TypeOK, Extends
  <2> QED BY <1>1, <1>2, <2>1 DEF Types, TypeOK, playerVars
<1>3. slots \in SlotLists /\ options \in Options /\ toJoiner \in [Joiner -> Seq(Messages)]
  BY DEF Types, TypeOK
<1>4. \A j \in Joiner : Extends(toJoiner[j], toJoiner[j])
  <2>1. \A j \in Joiner : toJoiner[j] \in Seq(Messages)
    BY <1>3
  <2> QED BY <2>1 DEF Extends
<1>5. CASE Informs
  BY <1>2, <1>5 DEF Informs, Grown
<1>6. CASE Quiet
  BY <1>2, <1>3, <1>4, <1>6 DEF Quiet
<1>7. CASE StartPressed
  <2>1. slots' \in SlotLists /\ options' = options /\ UNCHANGED <<playerVars, held, toJoiner>>
    BY <1>3, <1>7, SlotTypes DEF StartPressed, AtHost
  <2> QED BY <1>2, <1>3, <1>4, <2>1
<1>8. ASSUME NEW m \in {[type |-> "start"], [type |-> "gone"]}, Post(FanOut(slots, m)),
             UNCHANGED <<options, playerVars, held>>, slots' \in SlotLists
      PROVE  Types'
  <2>1. m \in Messages /\ FanOut(slots, m).to = Audience(slots) /\ FanOut(slots, m).message = m
        /\ Audience(slots) \in SUBSET Joiner
    BY SomeMessages DEF FanOut, Audience, Humans
  <2>2. toJoiner' \in [Joiner -> Seq(Messages)] /\ \A j \in Joiner : Extends(toJoiner[j], toJoiner'[j])
    BY <1>3, <1>8, <2>1, PostGrows DEF Post
  <2> QED BY <1>2, <1>3, <1>8, <2>2
<1>9. CASE RequestGameStart
  BY <1>3, <1>8, <1>9, SlotTypes DEF RequestGameStart, AtHost
<1>10. CASE HostLeaves
  <2>1. slots' \in SlotLists
    BY <1>10 DEF HostLeaves, SlotLists
  <2> QED BY <1>8, <1>10, <2>1 DEF HostLeaves, AtHost
<1>11. ASSUME NEW j \in Joiner, DenyLeft(j) PROVE Types'
  BY <1>2, <1>3, <1>11, DenyLeftPosts DEF gameVars
<1> QED BY <1>5, <1>6, <1>7, <1>9, <1>10, <1>11, HostReadsSay, HostActsSay, DropSilentSays

(* Joiner j reads: what he takes off his queue. *)
LEMMA Takes ==
  ASSUME Types, NEW j \in Joiner, NEW type, Take(j, type)
  PROVE  /\ Next1(j) \in 1 .. Len(toJoiner[j]) /\ toJoiner[j] \in Seq(Messages)
         /\ toJoiner[j][Next1(j)] \in Messages /\ toJoiner[j][Next1(j)].type = type
         /\ toJoiner' = [toJoiner EXCEPT ![j] = RemoveAt(toJoiner[j], Next1(j))]
         /\ RemoveAt(toJoiner[j], Next1(j)) \in Seq(Messages)
         /\ toJoiner' \in [Joiner -> Seq(Messages)]
<1>1. toJoiner[j] \in Seq(Messages) /\ held[j] \in Nat /\ held[j] <= Len(toJoiner[j])
  BY DEF Types, TypeOK
<1>2. Next1(j) \in 1 .. Len(toJoiner[j])
  BY <1>1 DEF Take, Readable, Next1
<1>3. toJoiner[j][Next1(j)] \in Messages
  BY <1>1, <1>2
<1>4. RemoveAt(toJoiner[j], Next1(j)) \in Seq(Messages)
  BY <1>1, <1>2, Removed
<1>5. /\ toJoiner' = [toJoiner EXCEPT ![j] = RemoveAt(toJoiner[j], Next1(j))]
      /\ toJoiner[j][Next1(j)].type = type
  BY DEF Take
<1>6. toJoiner' \in [Joiner -> Seq(Messages)]
  BY <1>4, <1>5 DEF Types
<1> QED BY <1>1, <1>2, <1>3, <1>4, <1>5, <1>6

(* What j reads may lock or unlock his own controls. *)
LEMMA JoinerReadsLocks ==
  ASSUME Types, NEW j \in Joiner, JoinerReads(j)
  PROVE  locked' \in [Joiner -> BOOLEAN]
<1>1. locked \in [Joiner -> BOOLEAN]
  BY DEF Types, TypeOK
<1>2. ASSUME NEW l \in BOOLEAN, locked' = [locked EXCEPT ![j] = l] \/ locked' = locked
      PROVE  locked' \in [Joiner -> BOOLEAN]
  BY <1>1, <1>2
<1>3. CASE ToLobby(j) \/ handleJoinAccept(j)
  BY <1>2, <1>3 DEF ToLobby, handleJoinAccept
<1>4. CASE handleGameAnnounce(j) \/ OnGameOptions(j)
  <2>1. UpdateSlotList(j, InfoFor(j)) \/ locked' = locked
    BY <1>4 DEF handleGameAnnounce, OnGameOptions
  <2>2. CASE UpdateSlotList(j, InfoFor(j))
    <3>1. PICK l \in BOOLEAN : l = (j \in InfoFor(j).accepts)
      <4>1. (j \in InfoFor(j).accepts) \in BOOLEAN
        OBVIOUS
      <4> QED BY <4>1, Zenon
    <3>2. locked' = [locked EXCEPT ![j] = l]
      BY <2>2, <3>1, Zenon DEF UpdateSlotList
    <3> QED BY <1>2, <3>2
  <2> QED BY <1>1, <2>1, <2>2
<1>5. CASE handleJoinDeny(j) \/ handleOthersLeave(j) \/ handleGameStart(j) \/ Skip(j)
  BY <1>2, <1>5 DEF handleJoinDeny, handleOthersLeave, handleGameStart, Skip, playerVars
<1> QED BY <1>3, <1>4, <1>5 DEF JoinerReads, Booted, OnHostLeave

LEMMA CopyChanged ==
  ASSUME NEW info \in Infos, NEW s \in SlotLists, NEW a \in SUBSET Joiner
  PROVE  [info EXCEPT !.slots = s, !.accepts = a] \in Infos
BY DEF Infos

LEMMA JoinerReadsTypes ==
  ASSUME Types, NEW j \in Joiner, JoinerReads(j)
  PROVE  Types'
<1> DEFINE q == toJoiner[j]
           i == Next1(j)
           r == RemoveAt(q, i)
<1>1. UNCHANGED gameVars
  BY JoinersLeaveTheGame
<1>2. ASSUME place' \in [Joiner -> {"lobby", "setup", "playing"}],
             pending' \in [Joiner -> {"none", "join", "leave"}], UNCHANGED agreed,
             view' \in [Joiner -> Infos \cup {NoGame}],
             \A k \in Joiner : place'[k] # "lobby" => view'[k] \in Infos,
             toJoiner' \in [Joiner -> Seq(Messages)],
             held' \in [Joiner -> Nat], \A k \in Joiner : held'[k] <= Len(toJoiner'[k])
      PROVE  Types'
  BY <1>1, <1>2, JoinerReadsLocks DEF Types, TypeOK, gameVars, Humans
<1>3. /\ place \in [Joiner -> {"lobby", "setup", "playing"}]
      /\ pending \in [Joiner -> {"none", "join", "leave"}]
      /\ view \in [Joiner -> Infos \cup {NoGame}]
      /\ \A k \in Joiner : place[k] # "lobby" => view[k] \in Infos
      /\ toJoiner \in [Joiner -> Seq(Messages)]
      /\ held \in [Joiner -> Nat] /\ \A k \in Joiner : held[k] <= Len(toJoiner[k])
  BY DEF Types, TypeOK
<1>4. ASSUME NEW s \in Seq(Messages), toJoiner' = [toJoiner EXCEPT ![j] = s],
             held' = [held EXCEPT ![j] = 0]
      PROVE  /\ toJoiner' \in [Joiner -> Seq(Messages)]
             /\ held' \in [Joiner -> Nat] /\ \A k \in Joiner : held'[k] <= Len(toJoiner'[k])
  <2>1. toJoiner' \in [Joiner -> Seq(Messages)] /\ held' \in [Joiner -> Nat]
    BY <1>3, <1>4
  <2>2. \A k \in Joiner : k # j => held'[k] = held[k] /\ toJoiner'[k] = toJoiner[k]
    BY <1>3, <1>4
  <2>3. held'[j] = 0 /\ toJoiner'[j] = s /\ Len(s) \in Nat
    BY <1>3, <1>4
  <2>4. ASSUME NEW k \in Joiner PROVE held'[k] <= Len(toJoiner'[k])
    <3>1. CASE k = j
      BY <2>3, <3>1
    <3>2. CASE k # j
      BY <1>3, <2>2, <3>2
    <3> QED BY <3>1, <3>2
  <2> QED BY <2>1, <2>4
<1>5. ASSUME NEW type, Take(j, type), Stays(j)
      PROVE  /\ toJoiner' \in [Joiner -> Seq(Messages)]
             /\ held' \in [Joiner -> Nat] /\ \A k \in Joiner : held'[k] <= Len(toJoiner'[k])
             /\ q[i] \in Messages /\ q[i].type = type
  <2>1. r \in Seq(Messages) /\ toJoiner' = [toJoiner EXCEPT ![j] = r] /\ held' = [held EXCEPT ![j] = 0]
        /\ q[i] \in Messages /\ q[i].type = type
    BY <1>5, Takes DEF Stays, NoHole
  <2> HIDE DEF r
  <2> QED BY <1>4, <2>1
<1>6. CASE ToLobby(j)
  <2>1. <<>> \in Seq(Messages)
    OBVIOUS
  <2>2. toJoiner' \in [Joiner -> Seq(Messages)] /\ held' \in [Joiner -> Nat]
        /\ \A k \in Joiner : held'[k] <= Len(toJoiner'[k])
    BY <1>4, <1>6, <2>1 DEF ToLobby, NoHole
  <2> QED BY <1>2, <1>3, <1>6, <2>2 DEF ToLobby
<1>7. CASE handleGameAnnounce(j)
  <2>1. Take(j, "announce") /\ Stays(j)
    BY <1>7 DEF handleGameAnnounce
  <2>2. InfoFor(j) \in Infos
    BY <1>5, <2>1, MessageTypes DEF InfoFor
  <2> QED BY <1>2, <1>3, <1>5, <1>7, <2>1, <2>2 DEF handleGameAnnounce
<1>8. CASE OnGameOptions(j)
  <2>1. Take(j, "options") /\ Stays(j)
    BY <1>8 DEF OnGameOptions
  <2>2. InfoFor(j) \in Infos
    BY <1>5, <2>1, MessageTypes DEF InfoFor
  <2> QED BY <1>2, <1>3, <1>5, <1>8, <2>1, <2>2 DEF OnGameOptions
<1>9. CASE handleJoinAccept(j)
  <2>1. /\ Take(j, "accept") /\ view[j] \in Infos
        /\ place' = [place EXCEPT ![j] = "setup"] /\ pending' = [pending EXCEPT ![j] = "none"]
        /\ view' = [view EXCEPT ![j].slots[q[i].pos] = j, ![j].accepts = @ \ {j}] /\ UNCHANGED agreed
    BY <1>3, <1>9 DEF handleJoinAccept
  <2>2. q[i].pos \in Slot /\ r \in Seq(Messages) /\ toJoiner' = [toJoiner EXCEPT ![j] = r]
    BY <2>1, Takes, MessageTypes
  <2>3. PICK n \in 0 .. Len(toJoiner'[j]) : held' = [held EXCEPT ![j] = n]
    BY <1>9 DEF handleJoinAccept
  <2> HIDE DEF r, i, q
  <2> DEFINE s == [view[j].slots EXCEPT ![q[i].pos] = j]
             a == view[j].accepts \ {j}
             v == [view[j] EXCEPT !.slots = s, !.accepts = a]
  <2>4. view' = [view EXCEPT ![j] = v]
    BY <1>3, <2>1
  <2>5. v \in Infos
    <3>1. s \in SlotLists
      BY <2>1, <2>2 DEF Infos, SlotLists
    <3>2. a \in SUBSET Joiner
      BY <2>1 DEF Infos
    <3> HIDE DEF s, a
    <3> QED BY <2>1, <3>1, <3>2, CopyChanged
  <2> HIDE DEF v
  <2>6. view' \in [Joiner -> Infos \cup {NoGame}] /\ \A k \in Joiner : place'[k] # "lobby" => view'[k] \in Infos
    <3>1. \A k \in Joiner : k # j => place'[k] = place[k] /\ view'[k] = view[k]
      <4>1. \A k \in Joiner : k # j => place'[k] = place[k]
        BY <1>3, <2>1
      <4> QED BY <1>3, <2>4, <4>1
    <3>2. view'[j] = v
      BY <1>3, <2>4
    <3>3. view' \in [Joiner -> Infos \cup {NoGame}]
      BY <1>3, <2>4, <2>5
    <3> QED BY <1>3, <2>5, <3>1, <3>2, <3>3
  <2>7. toJoiner' \in [Joiner -> Seq(Messages)] /\ Len(toJoiner'[j]) \in Nat
    BY <1>3, <2>2
  <2>8. held' \in [Joiner -> Nat] /\ \A k \in Joiner : held'[k] <= Len(toJoiner'[k])
    <3>1. \A k \in Joiner : k # j => held'[k] = held[k] /\ toJoiner'[k] = toJoiner[k]
      BY <1>3, <2>2, <2>3
    <3>2. held'[j] = n /\ n \in Nat /\ n <= Len(toJoiner'[j])
      BY <1>3, <2>3, <2>7
    <3> QED BY <1>3, <2>3, <3>1, <3>2
  <2> QED BY <1>2, <1>3, <2>1, <2>6, <2>7, <2>8
<1>10. CASE handleJoinDeny(j)
  <2>1. (Take(j, "deny") \/ Take(j, "accept")) /\ Stays(j)
    BY <1>10 DEF handleJoinDeny
  <2> QED BY <1>2, <1>3, <1>5, <1>10, <2>1 DEF handleJoinDeny
<1>11. CASE handleOthersLeave(j)
  <2>1. Take(j, "leave") /\ Stays(j) /\ view[j] \in Infos
    BY <1>3, <1>11 DEF handleOthersLeave
  <2>2. q[i].who \in Joiner
    BY <1>5, <2>1, MessageTypes, LobbyAssumption
  <2> DEFINE v == [view[j] EXCEPT !.slots = Without(view[j].slots, q[i].who, Open), !.accepts = {}]
  <2>3. view' = [view EXCEPT ![j] = v]
    BY <1>3, <1>11 DEF handleOthersLeave
  <2>4. v \in Infos
    <3>1. Without(view[j].slots, q[i].who, Open) \in SlotLists
      BY <2>1, <2>2, SlotTypes DEF Infos
    <3> QED BY <2>1, <3>1, CopyChanged
  <2>5. view' \in [Joiner -> Infos \cup {NoGame}] /\ \A k \in Joiner : place[k] # "lobby" => view'[k] \in Infos
    BY <1>3, <2>3, <2>4
  <2> QED BY <1>2, <1>3, <1>5, <1>11, <2>1, <2>5 DEF handleOthersLeave
<1>12. CASE handleGameStart(j)
  <2>1. Take(j, "start") /\ Stays(j)
    BY <1>12 DEF handleGameStart
  <2> QED BY <1>2, <1>3, <1>5, <1>12, <2>1 DEF handleGameStart
<1>13. CASE Skip(j)
  <2>1. PICK type : Take(j, type)
    BY <1>13 DEF Skip
  <2>2. Stays(j) /\ UNCHANGED playerVars
    BY <1>13 DEF Skip
  <2> QED BY <1>2, <1>3, <1>5, <2>1, <2>2 DEF playerVars
<1> QED BY <1>6, <1>7, <1>8, <1>9, <1>10, <1>11, <1>12, <1>13 DEF JoinerReads, Booted, OnHostLeave

(* What j writes into his copy before he asks the host. *)
LEMMA ChoiceWritten ==
  ASSUME Types, NEW j \in Joiner, AskRules(j) \/ AskLooks(j)
  PROVE  \E v : /\ view' = [view EXCEPT ![j] = v]
                /\ \E a \in {{}, view[j].accepts} :
                     \/ v = [view[j] EXCEPT !.options.rules = Mine, !.accepts = a]
                     \/ v = [view[j] EXCEPT !.options.looks = Mine]
<1>1. view \in [Joiner -> Infos \cup {NoGame}]
  BY DEF Types, TypeOK
<1>2. CASE AskRules(j)
  <2>1. PICK a \in {{}, view[j].accepts} :
          view' = [view EXCEPT ![j].options.rules = Mine, ![j].accepts = a]
    BY <1>2 DEF AskRules
  <2>2. view' = [view EXCEPT ![j] = [view[j] EXCEPT !.options.rules = Mine, !.accepts = a]]
    BY <1>1, <2>1
  <2> QED BY <2>2
<1>3. CASE AskLooks(j)
  BY <1>1, <1>3 DEF AskLooks
<1> QED BY <1>2, <1>3

(* What joiners do by themselves, and time-outs. *)
LEMMA JoinerActsTypes ==
  ASSUME Types, NEW j \in Joiner,
         \/ JoinerActs(j) \/ LoseToHost(j) \/ LoseToJoiner(j)
         \/ JoinTimesOut(j) \/ LeaveTimesOut(j) \/ HostNotResponding(j) \/ ForgetGame(j)
  PROVE  Types'
<1>1. UNCHANGED gameVars
  BY JoinersLeaveTheGame
<1>2. ASSUME place' \in [Joiner -> {"lobby", "setup", "playing"}],
             pending' \in [Joiner -> {"none", "join", "leave"}],
             locked' \in [Joiner -> BOOLEAN], agreed' \in [Joiner -> Mine .. MaxRules],
             view' \in [Joiner -> Infos \cup {NoGame}],
             \A k \in Joiner : place'[k] # "lobby" => view'[k] \in Infos,
             toJoiner' \in [Joiner -> Seq(Messages)],
             held' \in [Joiner -> Nat], \A k \in Joiner : held'[k] <= Len(toJoiner'[k])
      PROVE  Types'
  BY <1>1, <1>2 DEF Types, TypeOK, gameVars, Humans
<1>3. /\ place \in [Joiner -> {"lobby", "setup", "playing"}]
      /\ pending \in [Joiner -> {"none", "join", "leave"}]
      /\ locked \in [Joiner -> BOOLEAN] /\ agreed \in [Joiner -> Mine .. MaxRules]
      /\ view \in [Joiner -> Infos \cup {NoGame}]
      /\ \A k \in Joiner : place[k] # "lobby" => view[k] \in Infos
      /\ toJoiner \in [Joiner -> Seq(Messages)]
      /\ held \in [Joiner -> Nat] /\ \A k \in Joiner : held[k] <= Len(toJoiner[k])
  BY DEF Types, TypeOK
<1>4. CASE RequestGameJoin(j) \/ JoinTimesOut(j) \/ LoseToHost(j) \/ setIsActive(j)
  <2>1. pending' \in [Joiner -> {"none", "join", "leave"}]
        /\ UNCHANGED <<place, view, locked, agreed, held, toJoiner>>
    BY <1>3, <1>4 DEF RequestGameJoin, JoinTimesOut, LoseToHost, setIsActive, Say, playerVars
  <2> QED BY <1>2, <1>3, <2>1
<1>5. CASE AskRules(j) \/ AskLooks(j)
  <2>1. PICK v : /\ view' = [view EXCEPT ![j] = v]
                 /\ \E a \in {{}, view[j].accepts} :
                      \/ v = [view[j] EXCEPT !.options.rules = Mine, !.accepts = a]
                      \/ v = [view[j] EXCEPT !.options.looks = Mine]
    BY <1>3, <1>5, ChoiceWritten
  <2>2. view[j] \in Infos /\ Mine \in Mine .. MaxRules /\ Mine \in Mine .. MaxLooks
    BY <1>3, <1>5, LobbyAssumption DEF AskRules, AskLooks, CanChoose, Mine
  <2>3. v \in Infos
    <3>1. view[j].options \in OwnOptions
      BY <2>2 DEF Infos
    <3>2. \A o \in OwnOptions : [o EXCEPT !.rules = Mine] \in OwnOptions /\ [o EXCEPT !.looks = Mine] \in OwnOptions
      BY <2>2 DEF OwnOptions
    <3>3. v.options \in OwnOptions /\ v.slots = view[j].slots /\ v.accepts \in SUBSET Joiner
          /\ v = [slots |-> v.slots, options |-> v.options, accepts |-> v.accepts]
      BY <2>1, <2>2, <3>1, <3>2 DEF Infos
    <3> QED BY <2>2, <3>3 DEF Infos
  <2>4. UNCHANGED <<place, pending, locked, agreed, held, toJoiner>>
    BY <1>5 DEF AskRules, AskLooks, Say
  <2>5. view' \in [Joiner -> Infos \cup {NoGame}] /\ \A k \in Joiner : place[k] # "lobby" => view'[k] \in Infos
    BY <1>3, <2>1, <2>3
  <2> QED BY <1>2, <1>3, <2>4, <2>5
<1>6. CASE RequestAccept(j)
  <2>1. view[j] \in Infos /\ agreed' = [agreed EXCEPT ![j] = view[j].options.rules]
        /\ UNCHANGED <<place, pending, view, locked, held, toJoiner>>
    BY <1>3, <1>6 DEF RequestAccept, CanChoose, Say
  <2>2. view[j].options.rules \in Mine .. MaxRules
    BY <2>1 DEF Infos, OwnOptions
  <2>3. agreed' \in [Joiner -> Mine .. MaxRules]
    BY <1>3, <2>1, <2>2
  <2> QED BY <1>2, <1>3, <2>1, <2>3
<1>7. CASE RequestGameLeave(j)
  <2> DEFINE m == [type |-> "leave", who |-> j]
             told == Humans(view[j].slots) \ {j}
  <2>1. m \in Messages
    BY <1>7, SomeMessages DEF RequestGameLeave
  <2>2. toJoiner' = [k \in Joiner |-> IF k \in told THEN Append(toJoiner[k], m) ELSE toJoiner[k]]
    BY <1>7 DEF RequestGameLeave
  <2>3. pending' = [pending EXCEPT ![j] = "leave"] /\ UNCHANGED <<place, view, locked, agreed, held>>
    BY <1>7 DEF RequestGameLeave, Say
  <2> HIDE DEF m, told
  <2>4. \A k \in Joiner : toJoiner[k] \in Seq(Messages) /\ Append(toJoiner[k], m) \in Seq(Messages)
                          /\ Len(Append(toJoiner[k], m)) = Len(toJoiner[k]) + 1 /\ Len(toJoiner[k]) \in Nat
    BY <1>3, <2>1
  <2>5. toJoiner' \in [Joiner -> Seq(Messages)] /\ \A k \in Joiner : held[k] <= Len(toJoiner'[k])
    BY <1>3, <2>2, <2>4
  <2> QED BY <1>2, <1>3, <2>3, <2>5
<1>8. CASE ToLobby(j)
  <2>1. <<>> \in Seq(Messages) /\ Len(<<>>) = 0
    OBVIOUS
  <2>2. toJoiner' = [toJoiner EXCEPT ![j] = <<>>] /\ held' = [held EXCEPT ![j] = 0]
    BY <1>8 DEF ToLobby, NoHole
  <2>3. toJoiner' \in [Joiner -> Seq(Messages)] /\ held' \in [Joiner -> Nat]
        /\ \A k \in Joiner : held'[k] <= Len(toJoiner'[k])
    BY <1>3, <2>1, <2>2
  <2>4. locked' \in [Joiner -> BOOLEAN]
    BY <1>3, <1>8 DEF ToLobby
  <2> QED BY <1>2, <1>3, <1>8, <2>3, <2>4 DEF ToLobby
<1>9. CASE ForgetGame(j)
  BY <1>2, <1>3, <1>9 DEF ForgetGame
<1>10. CASE LoseToJoiner(j)
  <2>1. PICK i \in Next1(j) .. Len(toJoiner[j]) : toJoiner' = [toJoiner EXCEPT ![j] = RemoveAt(toJoiner[j], i)]
    BY <1>10 DEF LoseToJoiner
  <2>2. UNCHANGED <<playerVars, held>>
    BY <1>10 DEF LoseToJoiner
  <2>3. toJoiner[j] \in Seq(Messages) /\ held[j] \in Nat
    BY <1>3
  <2>4. i \in 1 .. Len(toJoiner[j]) /\ held[j] <= Len(toJoiner[j]) - 1
    BY <2>3 DEF Next1
  <2>5. RemoveAt(toJoiner[j], i) \in Seq(Messages) /\ held[j] <= Len(RemoveAt(toJoiner[j], i))
    BY <2>3, <2>4, Removed
  <2>6. toJoiner' \in [Joiner -> Seq(Messages)] /\ \A k \in Joiner : held[k] <= Len(toJoiner'[k])
    BY <1>3, <2>1, <2>5
  <2> QED BY <1>2, <1>3, <2>2, <2>6 DEF playerVars
<1> QED BY <1>4, <1>5, <1>6, <1>7, <1>8, <1>9, <1>10 DEF JoinerActs, LeaveTimesOut, HostNotResponding

LEMMA NextTypes == Types /\ [Next]_vars => Types'
<1> SUFFICES ASSUME Types, [Next]_vars PROVE Types'
  OBVIOUS
<1>1. CASE UNCHANGED vars
  BY <1>1 DEF vars, gameVars, playerVars, Types, TypeOK, Humans
<1>2. CASE HostActs \/ \E j \in Joiner : HostReads(j) \/ DropSilent(j)
  BY <1>2, HostTypes
<1>3. ASSUME NEW j \in Joiner, JoinerReads(j) PROVE Types'
  BY <1>3, JoinerReadsTypes
<1>4. ASSUME NEW j \in Joiner,
             \/ JoinerActs(j) \/ LoseToHost(j) \/ LoseToJoiner(j)
             \/ JoinTimesOut(j) \/ LeaveTimesOut(j) \/ HostNotResponding(j) \/ ForgetGame(j)
      PROVE  Types'
  BY <1>4, JoinerActsTypes
<1> QED BY <1>1, <1>2, <1>3, <1>4 DEF Next, TimesOut

(* Every variable of the lobby keeps its type, for any joiners, slots and queues, *)
(* whatever is lost or read out of order.                                      *)
THEOREM TypeCorrectness == Spec => []TypeOK
<1>1. Types => TypeOK
  BY DEF Types
<1> QED BY <1>1, InitTypes, NextTypes, PTL DEF Spec

-----------------------------------------------------------------------------
(* Whoever stays to the start plays the host's game, if nothing is lost and    *)
(* datagrams are read in the order they came in.  The host starts when everybody *)
(* in his slots has accepted.  Whose acceptance is known to the host hears, or    *)
(* has heard, of the game as it is and that he has accepted; once he has heard,   *)
(* his controls are disabled, so that he writes nothing more into his copy.      *)

\* Nothing lies behind the hole that joining leaves in a buffer.
InOrder == \A j \in Joiner : held[j] = 0

\* A game with slots s and options o, but for who may leave and for open slots,
\* which are closed at the start.
Same(info, s, o) ==
  /\ info.options = o
  /\ \A i \in Slot : CloseOpen(info.slots)[i] = CloseOpen(s)[i] \/ s[i] \in Leavers

\* ... and with j's controls disabled.
Fits(j, info) == Same(info, slots, options) /\ j \in info.accepts

\* Only options set the controls for sure; announcements say the same as the last.
Silent(q) == \A i \in DOMAIN q : q[i].type # "options"
IsLast(q, i) == Tells(q[i]) /\ \A k \in DOMAIN q : k > i => q[k].type # "options"
Answers(q) == \E i \in DOMAIN q : q[i].type = "accept"
Starts(q) == \E i \in DOMAIN q : q[i].type = "start"

\* An acceptance is followed by the options.
AnswersTold(q) ==
  \A i \in DOMAIN q : q[i].type = "accept" => \E k \in DOMAIN q : k > i /\ q[k].type = "options"
\* Nothing of the game comes after the start.
StartEnds(q) ==
  \A i, k \in DOMAIN q : q[i].type = "start" /\ k > i => ~Tells(q[k])
\* Before j can be accepted once more he reads that he is out.
Boots(q, j) ==
  \E i \in DOMAIN q : /\ q[i].type = "options" /\ j \notin Humans(q[i].info.slots)
                      /\ \A k \in DOMAIN q : k > i => q[k].type # "accept"

\* Who has accepted hears, or has heard, of the host's game as it is.
HearsLast ==
  \A j \in accepted : \A i \in DOMAIN toJoiner[j] : IsLast(toJoiner[j], i) => Fits(j, toJoiner[j][i].info)
HasHeard ==
  \A j \in accepted :
    place[j] = "setup" /\ Silent(toJoiner[j]) => locked[j] /\ Same(view[j], slots, options)
AnswersInv == \A j \in Joiner : AnswersTold(toJoiner[j])
StartsInv ==
  \A j \in Joiner : Starts(toJoiner[j]) =>
    /\ hosting = "playing" /\ StartEnds(toJoiner[j])
    /\ j \in Humans(slots) \/ Humans(slots) = {}
\* When nobody is in the slots everybody is told, so who was put out hears of it
\* before the start that goes to everybody as well.
EmptyInv ==
  hosting # "left" /\ Humans(slots) = {} =>
    \A j \in Joiner : place[j] = "setup" \/ Answers(toJoiner[j]) => Boots(toJoiner[j], j)
ClosedInv == hosting = "playing" => (\A i \in Slot : slots[i] # Open) /\ Humans(slots) \subseteq accepted

AgreeInv ==
  /\ Types /\ HearsLast /\ HasHeard /\ AnswersInv /\ StartsInv /\ EmptyInv /\ ClosedInv
  /\ StayersAgree

LEMMA InitAgree == Init => AgreeInv
<1> SUFFICES ASSUME Init PROVE AgreeInv
  OBVIOUS
<1>1. Types
  BY InitTypes
<1>2. \A j \in Joiner : place[j] = "lobby" /\ toJoiner[j] = <<>> /\ DOMAIN toJoiner[j] = {}
  BY DEF Init
<1>3. accepted = {} /\ Humans(slots) = {} /\ hosting = "setup"
  BY LobbyAssumption DEF Init, Humans
<1>4. HearsLast /\ HasHeard /\ AnswersInv /\ StartsInv /\ EmptyInv /\ ClosedInv /\ StayersAgree
  BY <1>2, <1>3 DEF HearsLast, HasHeard, AnswersInv, StartsInv, EmptyInv, ClosedInv, StayersAgree,
     AnswersTold, Starts, Answers
<1> QED BY <1>1, <1>4 DEF AgreeInv

LEMMA AcceptedAreHumans ==
  ASSUME Types
  PROVE  accepted \subseteq Humans(slots) /\ Humans(slots) \subseteq Joiner
BY DEF Types, TypeOK, Humans

LEMMA CloseOpenAgain ==
  ASSUME NEW s \in SlotLists, NEW i \in Slot
  PROVE  /\ CloseOpen(CloseOpen(s))[i] = CloseOpen(s)[i] /\ CloseOpen(s)[i] # Open
         /\ CloseOpen(s)[i] \in Leavers <=> s[i] \in Leavers
BY LobbyAssumption DEF CloseOpen, Without, SlotLists

LEMMA InformedSays ==
  ASSUME NEW q \in Seq(Messages), NEW info, Informed(q, info)
  PROVE  /\ \A i \in DOMAIN q : IsLast(q, i) => q[i].info = info
         /\ ~Silent(q) /\ AnswersTold(q)
         /\ \A j : j \notin Humans(info.slots) => Boots(q, j)
<1>1. PICK i \in DOMAIN q :
        /\ q[i].type = "options" /\ q[i].info = info
        /\ \A k \in DOMAIN q : k > i => q[k].type = "announce" /\ q[k].info = info
  BY DEF Informed
<1>2. DOMAIN q \subseteq Nat
  OBVIOUS
<1>4. ASSUME NEW k \in DOMAIN q, IsLast(q, k)
      PROVE  q[k].info = info
  <2>1. ~(k < i)
    BY <1>1, <1>2, <1>4 DEF IsLast
  <2> QED BY <1>1, <1>2, <2>1
<1>5. AnswersTold(q)
  <2>1. \A k \in DOMAIN q : q[k].type = "accept" => k < i
    BY <1>1, <1>2
  <2> QED BY <1>1, <2>1 DEF AnswersTold
<1>6. \A k \in DOMAIN q : k > i => q[k].type # "accept"
  BY <1>1
<1> QED BY <1>1, <1>4, <1>5, <1>6 DEF Silent, Boots

(* An acceptance stays answered when nothing but other messages is added. *)
LEMMA ToldStays ==
  ASSUME NEW q \in Seq(Messages), NEW r \in Seq(Messages), Extends(q, r), NoneNew(q, r, "accept"),
         AnswersTold(q)
  PROVE  AnswersTold(r)
<1> SUFFICES ASSUME NEW i \in DOMAIN r, r[i].type = "accept"
             PROVE  \E k \in DOMAIN r : k > i /\ r[k].type = "options"
  BY DEF AnswersTold
<1>1. /\ DOMAIN q = 1 .. Len(q) /\ DOMAIN r = 1 .. Len(r) /\ Len(q) \in Nat /\ Len(r) \in Nat
      /\ Len(q) <= Len(r) /\ \A k \in 1 .. Len(q) : r[k] = q[k]
  BY DEF Extends
<1>2. i \in DOMAIN q
  BY <1>1 DEF NoneNew
<1>3. PICK k \in DOMAIN q : k > i /\ q[k].type = "options"
  BY <1>1, <1>2 DEF AnswersTold
<1>4. k \in DOMAIN r /\ r[k] = q[k]
  BY <1>1
<1> QED BY <1>3, <1>4

(* The host tells everybody of a change. *)
LEMMA InformsAgree ==
  ASSUME AgreeInv, Informs, Types'
  PROVE  AgreeInv'
<1>1. hosting = "setup" /\ hosting' = "setup" /\ UNCHANGED <<place, view>>
  BY DEF Informs, playerVars
<1>2. \A j \in Joiner : toJoiner[j] \in Seq(Messages) /\ toJoiner'[j] \in Seq(Messages)
  BY DEF AgreeInv, Types
<1>3. \A j \in Audience(slots') : Informed(toJoiner'[j], Info(slots', options', accepted'))
  BY DEF Informs
<1>4. accepted' \subseteq Humans(slots') /\ accepted' \subseteq Audience(slots') /\ accepted' \subseteq Joiner
  BY DEF Types, TypeOK, Audience, Humans
<1>5. Info(slots', options', accepted').options = options' /\ Info(slots', options', accepted').slots = slots'
  BY DEF Info
<1>6. Same(Info(slots', options', accepted'), slots', options')
  BY <1>5 DEF Same
<1>7. HearsLast'
  <2> SUFFICES ASSUME NEW j \in accepted', NEW i \in DOMAIN toJoiner'[j], IsLast(toJoiner'[j], i)
               PROVE  Same(toJoiner'[j][i].info, slots', options') /\ j \in toJoiner'[j][i].info.accepts
    BY DEF HearsLast, Fits, IsLast, Tells
  <2>1. toJoiner'[j][i].info = Info(slots', options', accepted')
    BY <1>2, <1>3, <1>4, InformedSays
  <2>2. j \in Info(slots', options', accepted').accepts
    BY <1>4 DEF Info
  <2> QED BY <1>6, <2>1, <2>2
<1>8. HasHeard'
  <2>1. \A j \in accepted' : ~Silent(toJoiner'[j])
    BY <1>2, <1>3, <1>4, InformedSays
  <2> QED BY <2>1 DEF HasHeard, Silent
<1>9. AnswersInv'
  <2> SUFFICES ASSUME NEW j \in Joiner PROVE AnswersTold(toJoiner'[j])
    BY DEF AnswersInv, AnswersTold
  <2>1. CASE j \in Audience(slots')
    BY <1>2, <1>3, <2>1, InformedSays
  <2>2. CASE j \notin Audience(slots')
    <3>1. Extends(toJoiner[j], toJoiner'[j]) /\ NoneNew(toJoiner[j], toJoiner'[j], "accept")
      BY <2>2 DEF Informs, Grown
    <3>2. AnswersTold(toJoiner[j])
      BY DEF AgreeInv, AnswersInv
    <3>3. toJoiner[j] \in Seq(Messages) /\ toJoiner'[j] \in Seq(Messages)
      BY <1>2
    <3> QED BY <3>1, <3>2, <3>3, ToldStays
  <2> QED BY <2>1, <2>2
<1>10. \A j \in Joiner : ~Starts(toJoiner'[j])
  <2> TAKE j \in Joiner
  <2>1. ~Starts(toJoiner[j])
    BY <1>1 DEF AgreeInv, StartsInv
  <2>2. Extends(toJoiner[j], toJoiner'[j]) /\ NoneNew(toJoiner[j], toJoiner'[j], "start")
    BY DEF Informs, Grown
  <2> QED BY <1>2, <2>1, <2>2 DEF Starts, Extends, NoneNew
<1>11. EmptyInv'
  <2> SUFFICES ASSUME Humans(slots') = {}, NEW j \in Joiner PROVE Boots(toJoiner'[j], j)
    BY DEF EmptyInv, Humans, Boots
  <2>1. j \in Audience(slots')
    BY DEF Audience
  <2> QED BY <1>2, <1>3, <1>5, <2>1, InformedSays
<1>12. StartsInv' /\ ClosedInv' /\ StayersAgree'
  BY <1>1, <1>10 DEF AgreeInv, StartsInv, ClosedInv, StayersAgree, Starts
<1> QED BY <1>7, <1>8, <1>9, <1>11, <1>12 DEF AgreeInv

\* r is q with nothing of the game behind it.
PlainMore(q, r) ==
  /\ Extends(q, r)
  /\ \A i \in DOMAIN r : i > Len(q) => r[i].type \in {"deny", "leave", "start", "gone"}

LEMMA PlainSays ==
  ASSUME NEW q \in Seq(Messages), NEW r \in Seq(Messages), PlainMore(q, r)
  PROVE  /\ \A i \in DOMAIN r : IsLast(r, i) => i \in DOMAIN q /\ IsLast(q, i) /\ r[i] = q[i]
         /\ Silent(r) => Silent(q)
         /\ AnswersTold(q) => AnswersTold(r)
         /\ Answers(r) => Answers(q)
         /\ \A j : Boots(q, j) => Boots(r, j)
         /\ StartEnds(q) => StartEnds(r)
<1>1. /\ DOMAIN q = 1 .. Len(q) /\ DOMAIN r = 1 .. Len(r) /\ Len(q) \in Nat /\ Len(r) \in Nat
      /\ Len(q) <= Len(r) /\ \A i \in 1 .. Len(q) : r[i] = q[i]
      /\ \A i \in DOMAIN r : i > Len(q) => ~Tells(r[i]) /\ r[i].type \notin {"accept", "options"}
  BY DEF PlainMore, Extends, Tells
<1>2. \A i \in DOMAIN r : IsLast(r, i) => i \in DOMAIN q /\ IsLast(q, i) /\ r[i] = q[i]
  BY <1>1 DEF IsLast
<1>3. Silent(r) => Silent(q)
  BY <1>1 DEF Silent
<1>4. AnswersTold(q) => AnswersTold(r)
  BY <1>1 DEF AnswersTold
<1>5. Answers(r) => Answers(q)
  BY <1>1 DEF Answers
<1>6. \A j : Boots(q, j) => Boots(r, j)
  BY <1>1 DEF Boots
<1>7. StartEnds(q) => StartEnds(r)
  BY <1>1 DEF StartEnds
<1> QED BY <1>2, <1>3, <1>4, <1>5, <1>6, <1>7

LEMMA PoppedSays ==
  ASSUME NEW q \in Seq(Messages), Len(q) >= 1, NEW r, r = RemoveAt(q, 1)
  PROVE  /\ r \in Seq(Messages)
         /\ \A i \in DOMAIN r : IsLast(r, i) => i + 1 \in DOMAIN q /\ IsLast(q, i + 1) /\ r[i] = q[i + 1]
         /\ Silent(r) /\ q[1].type # "options" => Silent(q)
         /\ Silent(r) /\ Tells(q[1]) => IsLast(q, 1)
         /\ AnswersTold(q) => AnswersTold(r)
         /\ AnswersTold(q) /\ q[1].type = "accept" => ~Silent(r) /\ Answers(q)
         /\ Answers(r) => Answers(q)
         /\ \A j : /\ Boots(q, j)
                   /\ q[1].type # "options" \/ j \in Humans(q[1].info.slots) \/ Answers(r)
                   => Boots(r, j)
         /\ StartEnds(q) => StartEnds(r) /\ (q[1].type = "start" => Silent(q))
         /\ Starts(r) => Starts(q)
<1>1. /\ 1 \in 1 .. Len(q) /\ r \in Seq(Messages) /\ Len(r) = Len(q) - 1
      /\ \A k \in 1 .. Len(r) : r[k] = q[k + 1]
  <2>1. 1 \in 1 .. Len(q) /\ Len(q) \in Nat
    OBVIOUS
  <2>2. /\ RemoveAt(q, 1) \in Seq(Messages) /\ Len(RemoveAt(q, 1)) = Len(q) - 1
        /\ \A k \in 1 .. Len(q) - 1 : RemoveAt(q, 1)[k] = IF k < 1 THEN q[k] ELSE q[k + 1]
    BY <2>1, Removed
  <2> QED BY <2>1, <2>2
<1>2. /\ DOMAIN q = 1 .. Len(q) /\ DOMAIN r = 1 .. Len(r) /\ Len(q) \in Nat /\ Len(r) \in Nat
  BY <1>1
<1>3. \A k \in DOMAIN q : k = 1 \/ (k - 1 \in DOMAIN r /\ q[k] = r[k - 1])
  <2> SUFFICES ASSUME NEW k \in DOMAIN q, k # 1 PROVE k - 1 \in DOMAIN r /\ q[k] = r[k - 1]
    OBVIOUS
  <2>1. k \in Nat /\ k - 1 \in 1 .. Len(r) /\ (k - 1) + 1 = k
    BY <1>1, <1>2
  <2> QED BY <1>1, <1>2, <2>1
<1>4. \A k \in DOMAIN r : k \in Nat /\ k >= 1 /\ k + 1 \in DOMAIN q /\ r[k] = q[k + 1]
  BY <1>1, <1>2
<1>5. \A k \in DOMAIN q : k \in Nat /\ k >= 1
  BY <1>2
<1>6. \A i \in DOMAIN r : IsLast(r, i) => IsLast(q, i + 1)
  <2> SUFFICES ASSUME NEW i \in DOMAIN r, IsLast(r, i), NEW k \in DOMAIN q, k > i + 1
               PROVE  q[k].type # "options" /\ Tells(r[i])
    BY <1>4 DEF IsLast
  <2>1. k - 1 \in DOMAIN r /\ q[k] = r[k - 1] /\ k - 1 > i
    BY <1>3, <1>4, <1>5
  <2> QED BY <2>1 DEF IsLast
<1>7. Silent(r) => \A k \in DOMAIN q : k > 1 => q[k].type # "options"
  BY <1>3, <1>5 DEF Silent
<1>8. AnswersTold(q) => AnswersTold(r)
  <2> SUFFICES ASSUME AnswersTold(q), NEW i \in DOMAIN r, r[i].type = "accept"
               PROVE  \E k \in DOMAIN r : k > i /\ r[k].type = "options"
    BY DEF AnswersTold
  <2>1. PICK k \in DOMAIN q : k > i + 1 /\ q[k].type = "options"
    BY <1>4 DEF AnswersTold
  <2>2. k - 1 \in DOMAIN r /\ q[k] = r[k - 1] /\ k - 1 > i
    BY <1>3, <1>4, <1>5, <2>1
  <2> QED BY <2>1, <2>2
<1>9. AnswersTold(q) /\ q[1].type = "accept" => ~Silent(r) /\ Answers(q)
  BY <1>1, <1>2, <1>7 DEF AnswersTold, Answers
<1>10. Answers(r) => Answers(q)
  BY <1>4 DEF Answers
<1>11. ASSUME NEW j, Boots(q, j),
              q[1].type # "options" \/ j \in Humans(q[1].info.slots) \/ Answers(r)
       PROVE  Boots(r, j)
  <2>1. PICK i \in DOMAIN q : /\ q[i].type = "options" /\ j \notin Humans(q[i].info.slots)
                              /\ \A k \in DOMAIN q : k > i => q[k].type # "accept"
    BY <1>11 DEF Boots
  <2>2. i # 1
    BY <1>4, <1>11, <2>1 DEF Answers
  <2>3. i - 1 \in DOMAIN r /\ r[i - 1] = q[i]
    BY <1>3, <2>2
  <2>4. \A k \in DOMAIN r : k > i - 1 => r[k].type # "accept"
    <3> TAKE k \in DOMAIN r
    <3> HAVE k > i - 1
    <3>1. k + 1 \in DOMAIN q /\ r[k] = q[k + 1] /\ k + 1 > i
      BY <1>4, <1>5
    <3> QED BY <2>1, <3>1
  <2> QED BY <2>1, <2>3, <2>4 DEF Boots
<1>12. StartEnds(q) => StartEnds(r)
  <2> SUFFICES ASSUME StartEnds(q), NEW i \in DOMAIN r, NEW k \in DOMAIN r, r[i].type = "start", k > i
               PROVE  ~Tells(r[k])
    BY DEF StartEnds
  <2>1. i + 1 \in DOMAIN q /\ k + 1 \in DOMAIN q /\ k + 1 > i + 1 /\ r[i] = q[i + 1] /\ r[k] = q[k + 1]
    BY <1>4
  <2> QED BY <2>1 DEF StartEnds
<1>13. StartEnds(q) /\ q[1].type = "start" => Silent(q)
  <2> SUFFICES ASSUME StartEnds(q), q[1].type = "start", NEW k \in DOMAIN q PROVE q[k].type # "options"
    BY DEF Silent
  <2>1. CASE k = 1
    BY <2>1
  <2>2. CASE k # 1
    <3>1. k > 1 /\ 1 \in DOMAIN q
      BY <1>1, <1>2, <2>2
    <3> QED BY <3>1 DEF StartEnds, Tells
  <2> QED BY <2>1, <2>2
<1>14. Starts(r) => Starts(q)
  BY <1>4 DEF Starts
<1>15. Silent(r) /\ q[1].type # "options" => Silent(q)
  BY <1>5, <1>7, <1>3 DEF Silent
<1>16. Silent(r) /\ Tells(q[1]) => IsLast(q, 1)
  BY <1>7 DEF IsLast
<1> QED BY <1>1, <1>4, <1>6, <1>8, <1>9, <1>10, <1>11, <1>12, <1>13, <1>14, <1>15, <1>16

(* Nothing of the game is said. *)
LEMMA PlainAgree ==
  ASSUME AgreeInv, Types', UNCHANGED <<hosting, slots, options, accepted, place, view, locked>>,
         \A j \in Joiner : /\ PlainMore(toJoiner[j], toJoiner'[j])
                           /\ NoneNew(toJoiner[j], toJoiner'[j], "start")
  PROVE  AgreeInv'
<1>1. \A j \in Joiner : toJoiner[j] \in Seq(Messages) /\ toJoiner'[j] \in Seq(Messages)
  BY DEF AgreeInv, Types
<1>2. /\ Humans(slots) = Humans(slots)' /\ accepted' = accepted /\ accepted \subseteq Joiner
      /\ \A j, info : Fits(j, info)' <=> Fits(j, info)
  BY AcceptedAreHumans DEF AgreeInv, Humans, Fits
<1>3. HearsLast'
  <2> SUFFICES ASSUME NEW j \in accepted, NEW i \in DOMAIN toJoiner'[j], IsLast(toJoiner'[j], i)
               PROVE  Fits(j, toJoiner'[j][i].info)
    BY <1>2 DEF HearsLast
  <2>1. i \in DOMAIN toJoiner[j] /\ IsLast(toJoiner[j], i) /\ toJoiner'[j][i] = toJoiner[j][i]
    BY <1>1, <1>2, PlainSays
  <2> QED BY <2>1 DEF AgreeInv, HearsLast
<1>4. HasHeard'
  <2> SUFFICES ASSUME NEW j \in accepted, place[j] = "setup", Silent(toJoiner'[j])
               PROVE  locked[j] /\ Same(view[j], slots, options)
    BY <1>2 DEF HasHeard
  <2>1. Silent(toJoiner[j])
    BY <1>1, <1>2, PlainSays
  <2> QED BY <2>1 DEF AgreeInv, HasHeard
<1>5. AnswersInv'
  BY <1>1, PlainSays DEF AgreeInv, AnswersInv
<1>6. StartsInv'
  <2> SUFFICES ASSUME NEW j \in Joiner, Starts(toJoiner'[j])
               PROVE  /\ hosting = "playing" /\ StartEnds(toJoiner'[j])
                      /\ j \in Humans(slots) \/ Humans(slots) = {}
    BY <1>2 DEF StartsInv
  <2>1. Starts(toJoiner[j])
    BY <1>1 DEF Starts, PlainMore, Extends, NoneNew
  <2> QED BY <1>1, <2>1, PlainSays DEF AgreeInv, StartsInv
<1>7. EmptyInv'
  <2> SUFFICES ASSUME hosting # "left", Humans(slots) = {}, NEW j \in Joiner,
                      place[j] = "setup" \/ Answers(toJoiner'[j])
               PROVE  Boots(toJoiner'[j], j)
    BY <1>2 DEF EmptyInv
  <2>1. Boots(toJoiner[j], j)
    BY <1>1, PlainSays DEF AgreeInv, EmptyInv
  <2> QED BY <1>1, <2>1, PlainSays
<1>8. ClosedInv' /\ StayersAgree'
  BY <1>2 DEF AgreeInv, ClosedInv, StayersAgree
<1> QED BY <1>3, <1>4, <1>5, <1>6, <1>7, <1>8 DEF AgreeInv

LEMMA SameQueues ==
  ASSUME Types
  PROVE  \A j \in Joiner : PlainMore(toJoiner[j], toJoiner[j]) /\ NoneNew(toJoiner[j], toJoiner[j], "start")
<1>1. \A j \in Joiner : toJoiner[j] \in Seq(Messages)
  BY DEF Types
<1> QED BY <1>1 DEF PlainMore, Extends, NoneNew

LEMMA SaysNothingAgree ==
  ASSUME AgreeInv, Types', UNCHANGED <<hosting, slots, options, accepted, place, view, locked, toJoiner>>
  PROVE  AgreeInv'
BY SameQueues, PlainAgree DEF AgreeInv

LEMMA DenyLeftAgree ==
  ASSUME AgreeInv, Types', NEW j \in Joiner, DenyLeft(j)
  PROVE  AgreeInv'
<1>1. Types
  BY DEF AgreeInv
<1>2. ASSUME NEW k \in Joiner
      PROVE  /\ PlainMore(toJoiner[k], toJoiner'[k])
             /\ NoneNew(toJoiner[k], toJoiner'[k], "start")
  <2>1. /\ Extends(toJoiner[k], toJoiner'[k])
        /\ \A type : type # "deny" => NoneNew(toJoiner[k], toJoiner'[k], type)
    BY <1>1, DenyLeftPosts
  <2>2. toJoiner'[k] \in Seq(Messages)
    BY DEF Types
  <2>3. \A i \in DOMAIN toJoiner'[k] : i > Len(toJoiner[k]) => toJoiner'[k][i].type = "deny"
    BY <2>1 DEF NoneNew
  <2> QED BY <2>1, <2>3 DEF PlainMore
<1> QED BY <1>1, <1>2, DenyLeftPosts, PlainAgree DEF gameVars, playerVars

(* The start button closes the open slots: nobody's game is another for that. *)
LEMMA StartPressedAgree ==
  ASSUME AgreeInv, Types', StartPressed
  PROVE  AgreeInv'
<1>1. slots' = CloseOpen(slots) /\ hosting = "setup"
      /\ UNCHANGED <<hosting, options, accepted, place, view, locked, toJoiner>>
  BY DEF StartPressed, AtHost, playerVars
<1>2. slots \in SlotLists
  BY DEF AgreeInv, Types, TypeOK
<1>3. Humans(slots') = Humans(slots)
  BY <1>1, <1>2, CloseOpenHumans
<1>4. \A info : Same(info, slots, options) => Same(info, slots', options)
  BY <1>1, <1>2, CloseOpenAgain DEF Same
<1>5. HearsLast' /\ HasHeard'
  BY <1>1, <1>4 DEF AgreeInv, HearsLast, HasHeard, Fits
<1>6. AnswersInv' /\ StartsInv' /\ ClosedInv' /\ StayersAgree'
  BY <1>1 DEF AgreeInv, AnswersInv, StartsInv, ClosedInv, StayersAgree
<1>7. EmptyInv'
  BY <1>1, <1>3 DEF AgreeInv, EmptyInv
<1> QED BY <1>5, <1>6, <1>7 DEF AgreeInv

(* The start is the last that is said. *)
LEMMA GameStartAgree ==
  ASSUME AgreeInv, CountdownMeansAccepted, Types', RequestGameStart
  PROVE  AgreeInv'
<1> DEFINE m == [type |-> "start"]
<1>1. slots' = CloseOpen(slots) /\ hosting = "setup" /\ hosting' = "playing"
      /\ UNCHANGED <<options, accepted, place, view, locked>> /\ Humans(slots) \subseteq accepted
      /\ Post(FanOut(slots, m))
  BY DEF RequestGameStart, AtHost, playerVars, CountdownMeansAccepted
<1>2. slots \in SlotLists /\ toJoiner \in [Joiner -> Seq(Messages)]
  BY DEF AgreeInv, Types, TypeOK
<1>3. Humans(slots') = Humans(slots) /\ accepted \subseteq Joiner
  BY <1>1, <1>2, CloseOpenHumans, AcceptedAreHumans DEF AgreeInv
<1>4. \A info : Same(info, slots, options) => Same(info, slots', options)
  BY <1>1, <1>2, CloseOpenAgain DEF Same
<1>5. m \in Messages /\ m.type = "start" /\ FanOut(slots, m).to = Audience(slots)
      /\ FanOut(slots, m).message = m /\ Audience(slots) \in SUBSET Joiner
  BY SomeMessages DEF FanOut, Audience, Humans
<1> HIDE DEF m
<1>6. /\ \A j \in Joiner : toJoiner[j] \in Seq(Messages) /\ toJoiner'[j] \in Seq(Messages)
      /\ \A j \in Joiner : \/ toJoiner'[j] = toJoiner[j]
                           \/ j \in Audience(slots) /\ toJoiner'[j] = Append(toJoiner[j], m)
  BY <1>1, <1>2, <1>5, PostGrows DEF Post
<1>7. \A j \in Joiner : PlainMore(toJoiner[j], toJoiner'[j])
  BY <1>5, <1>6 DEF PlainMore, Extends
<1>8. \A j \in Joiner : ~Starts(toJoiner[j])
  BY <1>1 DEF AgreeInv, StartsInv
<1>9. HearsLast'
  <2> SUFFICES ASSUME NEW j \in accepted, NEW i \in DOMAIN toJoiner'[j], IsLast(toJoiner'[j], i)
               PROVE  Same(toJoiner'[j][i].info, slots', options) /\ j \in toJoiner'[j][i].info.accepts
    BY <1>1 DEF HearsLast, Fits
  <2>1. i \in DOMAIN toJoiner[j] /\ IsLast(toJoiner[j], i) /\ toJoiner'[j][i] = toJoiner[j][i]
    BY <1>3, <1>6, <1>7, PlainSays
  <2> QED BY <1>4, <2>1 DEF AgreeInv, HearsLast, Fits
<1>10. HasHeard'
  <2> SUFFICES ASSUME NEW j \in accepted, place[j] = "setup", Silent(toJoiner'[j])
               PROVE  locked[j] /\ Same(view[j], slots', options)
    BY <1>1 DEF HasHeard
  <2>1. Silent(toJoiner[j])
    BY <1>3, <1>6, <1>7, PlainSays
  <2> QED BY <1>4, <2>1 DEF AgreeInv, HasHeard
<1>11. AnswersInv'
  BY <1>6, <1>7, PlainSays DEF AgreeInv, AnswersInv
<1>12. StartsInv'
  <2> SUFFICES ASSUME NEW j \in Joiner, Starts(toJoiner'[j])
               PROVE  StartEnds(toJoiner'[j]) /\ (j \in Humans(slots) \/ Humans(slots) = {})
    BY <1>1, <1>3 DEF StartsInv
  <2>1. j \in Audience(slots) /\ toJoiner'[j] = Append(toJoiner[j], m)
    BY <1>6, <1>8
  <2>2. j \in Humans(slots) \/ Humans(slots) = {}
    BY <2>1 DEF Audience
  <2>3. \A i \in DOMAIN toJoiner[j] : toJoiner[j][i].type # "start"
    BY <1>8 DEF Starts
  <2>4. \A i \in DOMAIN toJoiner'[j] : toJoiner'[j][i].type = "start" => i = Len(toJoiner'[j])
    BY <1>6, <2>1, <2>3
  <2>5. StartEnds(toJoiner'[j])
    BY <1>6, <2>4 DEF StartEnds
  <2> QED BY <2>2, <2>5
<1>13. EmptyInv'
  <2> SUFFICES ASSUME Humans(slots) = {}, NEW j \in Joiner, place[j] = "setup" \/ Answers(toJoiner'[j])
               PROVE  Boots(toJoiner'[j], j)
    BY <1>1, <1>3 DEF EmptyInv
  <2>1. Boots(toJoiner[j], j)
    BY <1>1, <1>6, <1>7, PlainSays DEF AgreeInv, EmptyInv
  <2> QED BY <1>6, <1>7, <2>1, PlainSays
<1>14. ClosedInv' /\ StayersAgree'
  BY <1>1, <1>2, <1>3, CloseOpenAgain DEF AgreeInv, ClosedInv, StayersAgree
<1> QED BY <1>9, <1>10, <1>11, <1>12, <1>13, <1>14 DEF AgreeInv

LEMMA HostLeavesAgree ==
  ASSUME AgreeInv, Types', HostLeaves
  PROVE  AgreeInv'
<1> DEFINE m == [type |-> "gone"]
<1>1. hosting = "setup" /\ hosting' = "left" /\ accepted' = {} /\ UNCHANGED <<place, view>> /\ Post(FanOut(slots, m))
  BY DEF HostLeaves, AtHost, playerVars
<1>2. Humans(slots') = {}
  BY LobbyAssumption DEF HostLeaves, Humans
<1>3. toJoiner \in [Joiner -> Seq(Messages)]
  BY DEF AgreeInv, Types
<1>4. m \in Messages /\ m.type = "gone" /\ FanOut(slots, m).to = Audience(slots)
      /\ FanOut(slots, m).message = m /\ Audience(slots) \in SUBSET Joiner
  BY SomeMessages DEF FanOut, Audience, Humans
<1> HIDE DEF m
<1>5. /\ \A j \in Joiner : toJoiner[j] \in Seq(Messages) /\ toJoiner'[j] \in Seq(Messages)
      /\ \A j \in Joiner : toJoiner'[j] = toJoiner[j] \/ toJoiner'[j] = Append(toJoiner[j], m)
  BY <1>1, <1>3, <1>4, PostGrows DEF Post
<1>6. \A j \in Joiner : PlainMore(toJoiner[j], toJoiner'[j])
  BY <1>4, <1>5 DEF PlainMore, Extends
<1>7. \A j \in Joiner : ~Starts(toJoiner[j])
  BY <1>1 DEF AgreeInv, StartsInv
<1>8. \A j \in Joiner : ~Starts(toJoiner'[j])
  <2> TAKE j \in Joiner
  <2>1. \A i \in DOMAIN toJoiner[j] : toJoiner[j][i].type # "start"
    BY <1>7 DEF Starts
  <2>2. \A i \in DOMAIN toJoiner'[j] : toJoiner'[j][i].type # "start"
    <3>1. CASE toJoiner'[j] = toJoiner[j]
      BY <2>1, <3>1
    <3>2. CASE toJoiner'[j] = Append(toJoiner[j], m)
      <4>1. toJoiner[j] \in Seq(Messages)
        BY <1>5
      <4> QED BY <1>4, <2>1, <3>2, <4>1
    <3> QED BY <1>5, <3>1, <3>2
  <2> QED BY <2>2 DEF Starts
<1>9. HearsLast' /\ HasHeard' /\ StartsInv'
  <2>1. HearsLast' /\ HasHeard'
    BY <1>1 DEF HearsLast, HasHeard
  <2>2. StartsInv'
    BY <1>8 DEF StartsInv, Starts
  <2> QED BY <2>1, <2>2
<1>10. AnswersInv'
  BY <1>5, <1>6, PlainSays DEF AgreeInv, AnswersInv
<1>11. EmptyInv' /\ ClosedInv' /\ StayersAgree'
  BY <1>1 DEF AgreeInv, EmptyInv, ClosedInv, StayersAgree
<1> QED BY <1>9, <1>10, <1>11 DEF AgreeInv

\* The invariant for one joiner j with queue q at place p, with view v and controls l.
Follows(j, q, p, v, l) ==
  /\ j \in accepted => \A i \in DOMAIN q : IsLast(q, i) => Fits(j, q[i].info)
  /\ j \in accepted /\ p = "setup" /\ Silent(q) => l /\ Same(v, slots, options)
  /\ AnswersTold(q)
  /\ Starts(q) => /\ hosting = "playing" /\ StartEnds(q)
                  /\ j \in Humans(slots) \/ Humans(slots) = {}
  /\ hosting # "left" /\ Humans(slots) = {} /\ (p = "setup" \/ Answers(q)) => Boots(q, j)
  /\ j \notin Leavers /\ p = "playing" =>
       /\ hosting = "playing" /\ j \in Humans(slots) /\ v.options = options
       /\ \A i \in Slot : CloseOpen(v.slots)[i] = slots[i] \/ slots[i] \in Leavers

LEMMA AllFollow ==
  ASSUME AgreeInv, NEW j \in Joiner
  PROVE  Follows(j, toJoiner[j], place[j], view[j], locked[j])
<1>1. j \notin Leavers => j \in Joiner \ Leavers
  OBVIOUS
<1> QED BY <1>1 DEF AgreeInv, HearsLast, HasHeard, AnswersInv, StartsInv, EmptyInv, StayersAgree, Follows

(* Joiner j does something. *)
LEMMA JoinerAgree ==
  ASSUME AgreeInv, Types', NEW j \in Joiner, UNCHANGED gameVars,
         \A k \in Joiner : k # j =>
           /\ toJoiner'[k] = toJoiner[k] /\ place'[k] = place[k]
           /\ view'[k] = view[k] /\ locked'[k] = locked[k],
         Follows(j, toJoiner'[j], place'[j], view'[j], locked'[j])
  PROVE  AgreeInv'
<1>1. /\ UNCHANGED <<hosting, slots, options, accepted>> /\ Humans(slots)' = Humans(slots)
      /\ accepted \subseteq Joiner /\ \A k, info : Fits(k, info)' <=> Fits(k, info)
  BY AcceptedAreHumans DEF AgreeInv, gameVars, Humans, Fits
<1>2. \A k \in Joiner : Follows(k, toJoiner'[k], place'[k], view'[k], locked'[k])
  <2> TAKE k \in Joiner
  <2>1. CASE k = j
    BY <2>1
  <2>2. CASE k # j
    BY <2>2, AllFollow
  <2> QED BY <2>1, <2>2
<1>3. HearsLast'
  BY <1>1, <1>2 DEF HearsLast, Follows
<1>4. HasHeard'
  BY <1>1, <1>2 DEF HasHeard, Follows
<1>5. AnswersInv'
  BY <1>2 DEF AnswersInv, Follows
<1>6. StartsInv'
  BY <1>1, <1>2 DEF StartsInv, Follows
<1>7. EmptyInv'
  BY <1>1, <1>2 DEF EmptyInv, Follows
<1>8. StayersAgree'
  BY <1>1, <1>2 DEF StayersAgree, Follows
<1>9. ClosedInv'
  BY <1>1 DEF AgreeInv, ClosedInv
<1> QED BY <1>3, <1>4, <1>5, <1>6, <1>7, <1>8, <1>9 DEF AgreeInv

(* In the lobby with an empty queue nothing is expected. *)
LEMMA LobbyFollows ==
  ASSUME NEW j \in Joiner, NEW v, NEW l
  PROVE  Follows(j, <<>>, "lobby", v, l)
<1>1. DOMAIN <<>> = {}
  OBVIOUS
<1> QED BY <1>1 DEF Follows, Silent, AnswersTold, Starts, Answers

LEMMA ToLobbyAgree ==
  ASSUME AgreeInv, Types', NEW j \in Joiner, ToLobby(j)
  PROVE  AgreeInv'
<1>1. UNCHANGED gameVars
  BY DEF ToLobby
<1>2. /\ place \in [Joiner -> {"lobby", "setup", "playing"}]
      /\ view \in [Joiner -> Infos \cup {NoGame}] /\ toJoiner \in [Joiner -> Seq(Messages)]
      /\ locked \in [Joiner -> BOOLEAN]
  BY DEF AgreeInv, Types, TypeOK
<1>3. toJoiner'[j] = <<>> /\ place'[j] = "lobby"
  BY <1>2 DEF ToLobby
<1>4. \A k \in Joiner : k # j =>
        /\ toJoiner'[k] = toJoiner[k] /\ place'[k] = place[k]
        /\ view'[k] = view[k] /\ locked'[k] = locked[k]
  BY <1>2 DEF ToLobby
<1>5. Follows(j, toJoiner'[j], place'[j], view'[j], locked'[j])
  BY <1>3, LobbyFollows
<1> QED BY <1>1, <1>4, <1>5, JoinerAgree

(* One message less. *)
LEMMA PoppedFollows ==
  ASSUME NEW j \in Joiner, NEW q \in Seq(Messages), Len(q) >= 1, NEW r, r = RemoveAt(q, 1),
         NEW p, NEW v, NEW l, Follows(j, q, p, v, l), NEW p2, NEW v2, NEW l2,
         j \in accepted /\ p2 = "setup" /\ Silent(r) => l2 /\ Same(v2, slots, options),
         p2 = "setup" => p = "setup" \/ q[1].type = "accept",
         q[1].type # "options" \/ j \in Humans(q[1].info.slots) \/ p2 # "setup",
         j \notin Leavers /\ p2 = "playing" =>
           /\ hosting = "playing" /\ j \in Humans(slots) /\ v2.options = options
           /\ \A i \in Slot : CloseOpen(v2.slots)[i] = slots[i] \/ slots[i] \in Leavers
  PROVE  Follows(j, r, p2, v2, l2)
<1>1. j \in accepted => \A i \in DOMAIN r : IsLast(r, i) => Fits(j, r[i].info)
  BY PoppedSays DEF Follows
<1>2. AnswersTold(r)
  BY PoppedSays DEF Follows
<1>3. Starts(r) => /\ hosting = "playing" /\ StartEnds(r)
                   /\ j \in Humans(slots) \/ Humans(slots) = {}
  BY PoppedSays DEF Follows
<1>4. ASSUME hosting # "left", Humans(slots) = {}, p2 = "setup" \/ Answers(r)
      PROVE  Boots(r, j)
  <2>1. p = "setup" \/ Answers(q)
    BY <1>4, PoppedSays DEF Follows
  <2>2. Boots(q, j)
    BY <1>4, <2>1 DEF Follows
  <2>3. q[1].type # "options" \/ j \in Humans(q[1].info.slots) \/ Answers(r)
    BY <1>4
  <2> QED BY <2>2, <2>3, PoppedSays
<1> QED BY <1>1, <1>2, <1>3, <1>4 DEF Follows

LEMMA TakesFirst ==
  ASSUME AgreeInv, InOrder, NEW j \in Joiner, NEW type, Take(j, type)
  PROVE  /\ toJoiner[j] \in Seq(Messages) /\ Len(toJoiner[j]) >= 1
         /\ toJoiner'[j] = RemoveAt(toJoiner[j], 1)
         /\ \A k \in Joiner : k # j => toJoiner'[k] = toJoiner[k]
         /\ toJoiner[j][1] \in Messages /\ toJoiner[j][1].type = type
         /\ toJoiner[j][Next1(j)] = toJoiner[j][1] /\ InfoFor(j) = toJoiner[j][1].info
<1>1. Next1(j) = 1
  BY DEF InOrder, Next1
<1>2. Types
  BY DEF AgreeInv
<1>3. /\ 1 \in 1 .. Len(toJoiner[j]) /\ toJoiner[j] \in Seq(Messages)
      /\ toJoiner[j][1] \in Messages /\ toJoiner[j][1].type = type
      /\ toJoiner' = [toJoiner EXCEPT ![j] = RemoveAt(toJoiner[j], 1)]
  BY <1>1, <1>2, Takes
<1>4. toJoiner'[j] = RemoveAt(toJoiner[j], 1) /\ \A k \in Joiner : k # j => toJoiner'[k] = toJoiner[k]
  BY <1>2, <1>3 DEF Types
<1>5. Len(toJoiner[j]) >= 1
  BY <1>3
<1> QED BY <1>1, <1>3, <1>4, <1>5 DEF InfoFor

(* What reading a message of the type does to joiner j: he is or gets into the    *)
(* setup screen, what he knows then is the message or what he knew, his controls  *)
(* are as the message says or as they were, and he plays what he knew.          *)
Reads(j, type) ==
  /\ \A k \in Joiner : k # j => place'[k] = place[k] /\ view'[k] = view[k] /\ locked'[k] = locked[k]
  /\ place'[j] = "setup" => place[j] = "setup" \/ type = "accept"
  /\ place'[j] = "setup" =>
       \/ type = "accept"
       \/ type = "options" /\ view'[j] = InfoFor(j) /\ locked'[j] = (j \in InfoFor(j).accepts)
       \/ /\ type = "announce" /\ view'[j] = InfoFor(j)
          /\ locked[j] /\ j \in InfoFor(j).accepts => locked'[j]
       \/ /\ type \notin {"options", "announce"} /\ locked'[j] = locked[j]
          /\ Same(view[j], slots, options) => Same(view'[j], slots, options)
  /\ type # "options" \/ j \in Humans(InfoFor(j).slots) \/ place'[j] # "setup"
  /\ place'[j] = "playing" => view'[j] = view[j] /\ (place[j] = "playing" \/ (place[j] = "setup" /\ type = "start"))

LEMMA ReadAgree ==
  ASSUME AgreeInv, InOrder, Types', NEW j \in Joiner, NEW type, Take(j, type), UNCHANGED gameVars,
         Reads(j, type)
  PROVE  AgreeInv'
<1> DEFINE q == toJoiner[j]
           r == RemoveAt(q, 1)
<1>1. /\ q \in Seq(Messages) /\ Len(q) >= 1 /\ toJoiner'[j] = r
      /\ \A k \in Joiner : k # j => toJoiner'[k] = toJoiner[k]
      /\ q[1].type = type /\ InfoFor(j) = q[1].info
  BY TakesFirst
<1>2. Follows(j, q, place[j], view[j], locked[j])
  BY AllFollow
<1> HIDE DEF q, r
<1>3. ASSUME j \in accepted, place'[j] = "setup", Silent(r)
      PROVE  locked'[j] /\ Same(view'[j], slots, options)
  <2>1. type # "accept"
    BY <1>1, <1>2, <1>3, PoppedSays DEF Follows, r
  <2>2. place[j] = "setup"
    BY <1>3, <2>1 DEF Reads
  <2>3. CASE type \in {"options", "announce"}
    <3>1. IsLast(q, 1) /\ 1 \in DOMAIN q
      BY <1>1, <1>3, <2>3, PoppedSays DEF Tells, r
    <3>2. Same(q[1].info, slots, options) /\ j \in q[1].info.accepts
      BY <1>2, <1>3, <3>1 DEF Follows, Fits
    <3>3. type = "announce" => locked[j]
      <4>1. type = "announce" => Silent(q)
        BY <1>1, <1>3, PoppedSays DEF r
      <4> QED BY <1>2, <1>3, <2>2, <4>1 DEF Follows
    <3>4. view'[j] = q[1].info /\ locked'[j]
      BY <1>1, <1>3, <2>3, <3>2, <3>3 DEF Reads
    <3> QED BY <3>2, <3>4
  <2>4. CASE type \notin {"options", "announce"}
    <3>1. Silent(q)
      BY <1>1, <1>3, <2>4, PoppedSays DEF r
    <3>2. locked[j] /\ Same(view[j], slots, options)
      BY <1>2, <1>3, <2>2, <3>1 DEF Follows
    <3> QED BY <1>3, <2>1, <2>4, <3>2 DEF Reads
  <2> QED BY <2>3, <2>4
<1>4. ASSUME j \notin Leavers, place'[j] = "playing"
      PROVE  /\ hosting = "playing" /\ j \in Humans(slots) /\ view'[j].options = options
             /\ \A i \in Slot : CloseOpen(view'[j].slots)[i] = slots[i] \/ slots[i] \in Leavers
  <2>1. CASE place[j] = "playing"
    BY <1>2, <1>4, <2>1 DEF Follows, Reads
  <2>2. CASE place[j] = "setup" /\ type = "start"
    <3>1. 1 \in DOMAIN q
      BY <1>1
    <3>2. Starts(q)
      BY <1>1, <2>2, <3>1 DEF Starts
    <3>3. hosting = "playing" /\ StartEnds(q) /\ (j \in Humans(slots) \/ Humans(slots) = {})
      BY <1>2, <3>2 DEF Follows
    <3>4. Silent(q)
      BY <1>1, <2>2, <3>3, PoppedSays DEF r
    <3>5. ASSUME Humans(slots) = {} PROVE FALSE
      <4>1. Boots(q, j)
        BY <1>2, <2>2, <3>3, <3>5 DEF Follows
      <4> QED BY <3>4, <4>1 DEF Boots, Silent
    <3>6. j \in Humans(slots)
      BY <3>3, <3>5
    <3>7. Same(view[j], slots, options)
      <4>1. j \in accepted
        BY <3>3, <3>6 DEF AgreeInv, ClosedInv
      <4> QED BY <1>2, <2>2, <3>4, <4>1 DEF Follows
    <3>8. slots \in SlotLists /\ \A i \in Slot : slots[i] # Open
      BY <3>3 DEF AgreeInv, Types, TypeOK, ClosedInv
    <3>9. \A i \in Slot : CloseOpen(slots)[i] = slots[i]
      BY <3>8 DEF CloseOpen, Without
    <3> QED BY <1>4, <3>3, <3>6, <3>7, <3>9 DEF Same, Reads
  <2> QED BY <1>4, <2>1, <2>2 DEF Reads
<1>5. Follows(j, r, place'[j], view'[j], locked'[j])
  <2>1. /\ place'[j] = "setup" => place[j] = "setup" \/ q[1].type = "accept"
        /\ q[1].type # "options" \/ j \in Humans(q[1].info.slots) \/ place'[j] # "setup"
    BY <1>1 DEF Reads
  <2>2. j \in accepted /\ place'[j] = "setup" /\ Silent(r) => locked'[j] /\ Same(view'[j], slots, options)
    BY <1>3
  <2>3. q \in Seq(Messages) /\ Len(q) >= 1 /\ r = RemoveAt(q, 1)
    BY <1>1 DEF r
  <2> QED BY <1>2, <1>4, <2>1, <2>2, <2>3, PoppedFollows
<1>6. \A k \in Joiner : k # j => /\ place'[k] = place[k] /\ view'[k] = view[k]
                                 /\ locked'[k] = locked[k] /\ toJoiner'[k] = toJoiner[k]
  BY <1>1 DEF Reads
<1>7. Follows(j, toJoiner'[j], place'[j], view'[j], locked'[j])
  BY <1>1, <1>5
<1> QED BY <1>6, <1>7, JoinerAgree

(* Joiner j reads what changes nothing for him. *)
LEMMA ReadStillAgree ==
  ASSUME AgreeInv, InOrder, Types', NEW j \in Joiner, NEW type, Take(j, type), UNCHANGED gameVars,
         UNCHANGED <<place, view, locked>>,
         type \notin {"options", "announce"} \/ place[j] # "setup"
  PROVE  AgreeInv'
<1>1. place' = place /\ view' = view /\ locked' = locked
  OBVIOUS
<1>2. place'[j] = "setup" => type \notin {"options", "announce"}
  BY <1>1
<1>3. Same(view[j], slots, options) => Same(view'[j], slots, options)
  BY <1>1
<1>4. /\ \A k \in Joiner : k # j => place'[k] = place[k] /\ view'[k] = view[k] /\ locked'[k] = locked[k]
      /\ place'[j] = place[j] /\ view'[j] = view[j] /\ locked'[j] = locked[j]
  BY <1>1
<1>5. Reads(j, type)
  BY <1>2, <1>3, <1>4 DEF Reads
<1> QED BY <1>5, ReadAgree

(* Joiner j reads. *)
LEMMA JoinerReadsAgree ==
  ASSUME AgreeInv, InOrder, Types', NEW j \in Joiner, JoinerReads(j)
  PROVE  AgreeInv'
<1> DEFINE q == toJoiner[j]
<1>1. UNCHANGED gameVars
  BY JoinersLeaveTheGame
<1>2. /\ place \in [Joiner -> {"lobby", "setup", "playing"}]
      /\ view \in [Joiner -> Infos \cup {NoGame}]
      /\ \A k \in Joiner : place[k] # "lobby" => view[k] \in Infos
      /\ locked \in [Joiner -> BOOLEAN]
  BY DEF AgreeInv, Types, TypeOK
<1>3. CASE ToLobby(j)
  BY <1>3, ToLobbyAgree
<1>4. CASE handleGameAnnounce(j)
  <2>1. Take(j, "announce") /\ UNCHANGED place
        /\ view' = [view EXCEPT ![j] = IF place[j] = "playing" THEN view[j] ELSE InfoFor(j)]
    BY <1>4 DEF handleGameAnnounce
  <2>2. /\ view'[j] = IF place[j] = "playing" THEN view[j] ELSE InfoFor(j)
        /\ \A k \in Joiner : k # j => view'[k] = view[k]
    BY <1>2, <2>1
  <2>3. /\ place'[j] = place[j] /\ \A k \in Joiner : k # j => place'[k] = place[k] /\ view'[k] = view[k]
        /\ \A k \in Joiner : k # j => locked'[k] = locked[k]
        /\ locked'[j] \in {locked[j], j \in InfoFor(j).accepts}
    BY <1>2, <1>4, <2>1, <2>2 DEF handleGameAnnounce, UpdateSlotList
  <2>4. place'[j] = "setup" => view'[j] = InfoFor(j)
    BY <2>2, <2>3
  <2>5. place'[j] = "playing" => view'[j] = view[j]
    BY <2>2, <2>3
  <2>6. place'[j] = "playing" => place[j] = "playing"
    BY <2>3
  <2>7. Reads(j, "announce")
    BY <2>3, <2>4, <2>5, <2>6 DEF Reads
  <2> QED BY <1>1, <2>1, <2>7, ReadAgree
<1>5. CASE OnGameOptions(j)
  <2>1. Take(j, "options") /\ UNCHANGED place /\ place[j] = "setup" /\ j \in Humans(InfoFor(j).slots)
        /\ view' = [view EXCEPT ![j] = InfoFor(j)]
    BY <1>5 DEF OnGameOptions
  <2>2. /\ view'[j] = InfoFor(j) /\ locked'[j] = (j \in InfoFor(j).accepts)
        /\ \A k \in Joiner : k # j => view'[k] = view[k] /\ locked'[k] = locked[k]
    BY <1>2, <1>5, <2>1 DEF OnGameOptions, UpdateSlotList
  <2>3. Reads(j, "options")
    BY <2>1, <2>2 DEF Reads
  <2> QED BY <1>1, <2>1, <2>3, ReadAgree
<1>6. CASE handleJoinAccept(j)
  <2>1. Take(j, "accept") /\ place' = [place EXCEPT ![j] = "setup"]
        /\ view' = [view EXCEPT ![j].slots[q[Next1(j)].pos] = j, ![j].accepts = @ \ {j}]
        /\ locked' = [locked EXCEPT ![j] = FALSE]
    BY <1>6 DEF handleJoinAccept
  <2>2. /\ place'[j] = "setup"
        /\ \A k \in Joiner : k # j => place'[k] = place[k] /\ view'[k] = view[k] /\ locked'[k] = locked[k]
    BY <1>2, <2>1
  <2>3. Reads(j, "accept")
    BY <2>1, <2>2 DEF Reads
  <2> QED BY <1>1, <2>1, <2>3, ReadAgree
<1>7. CASE handleJoinDeny(j)
  <2>1. UNCHANGED <<place, view, locked>>
    BY <1>7 DEF handleJoinDeny
  <2>2. PICK type \in {"deny", "accept"} : Take(j, type)
    BY <1>7 DEF handleJoinDeny
  <2> QED BY <1>1, <2>1, <2>2, ReadStillAgree
<1>8. CASE handleOthersLeave(j)
  <2> DEFINE k == q[1].who
  <2>1. Take(j, "leave") /\ UNCHANGED <<place, locked>> /\ place[j] = "setup"
        /\ view' = [view EXCEPT ![j].slots = Without(view[j].slots, q[Next1(j)].who, Open), ![j].accepts = {}]
    BY <1>8 DEF handleOthersLeave
  <2>2. q[Next1(j)].who = k /\ k \in Leavers
    BY <2>1, TakesFirst, MessageTypes
  <2>3. view[j] \in Infos
    BY <1>2, <2>1
  <2> HIDE DEF k, q
  <2>4. \A n \in Joiner : n # j => view'[n] = view[n]
    BY <1>2, <2>1
  <2>5. view'[j] = [view[j] EXCEPT !.slots = Without(view[j].slots, k, Open), !.accepts = {}]
    BY <1>2, <2>1, <2>2
  <2>6. view'[j].options = view[j].options /\ view'[j].slots = Without(view[j].slots, k, Open)
    BY <2>3, <2>5 DEF Infos
  <2>7. Same(view[j], slots, options) => Same(view'[j], slots, options)
    <3> SUFFICES ASSUME Same(view[j], slots, options), NEW i \in Slot, slots[i] \notin Leavers
                 PROVE  CloseOpen(view'[j].slots)[i] = CloseOpen(slots)[i]
      BY <2>6 DEF Same
    <3>1. CloseOpen(view[j].slots)[i] = CloseOpen(slots)[i]
      BY DEF Same
    <3>2. k # Open /\ k # Closed
      BY <2>2, LobbyAssumption
    <3>3. view[j].slots[i] # k
      <4>1. CloseOpen(slots)[i] = IF slots[i] = Open THEN Closed ELSE slots[i]
        BY DEF CloseOpen, Without
      <4>2. CloseOpen(view[j].slots)[i] = IF view[j].slots[i] = Open THEN Closed ELSE view[j].slots[i]
        BY DEF CloseOpen, Without
      <4> QED BY <2>2, <3>1, <3>2, <4>1, <4>2
    <3>4. view'[j].slots[i] = view[j].slots[i]
      BY <2>6, <3>3 DEF Without
    <3> QED BY <3>1, <3>4 DEF CloseOpen, Without
  <2>8. Reads(j, "leave")
    BY <2>1, <2>4, <2>7 DEF Reads
  <2> QED BY <1>1, <2>1, <2>8, ReadAgree
<1>9. CASE handleGameStart(j)
  <2>1. Take(j, "start") /\ UNCHANGED <<view, locked>> /\ place[j] = "setup" /\ place' = [place EXCEPT ![j] = "playing"]
    BY <1>9 DEF handleGameStart
  <2>2. place'[j] = "playing" /\ \A k \in Joiner : k # j => place'[k] = place[k]
    BY <1>2, <2>1
  <2>3. Reads(j, "start")
    BY <2>1, <2>2 DEF Reads
  <2> QED BY <1>1, <2>1, <2>3, ReadAgree
<1>10. CASE Skip(j)
  <2>1. UNCHANGED <<place, view, locked>>
    BY <1>10 DEF Skip, playerVars
  <2>2. PICK type : Take(j, type) /\ (type \notin {"options", "announce"} \/ place[j] # "setup")
    BY <1>10 DEF Skip
  <2> QED BY <1>1, <2>1, <2>2, ReadStillAgree
<1> QED BY <1>3, <1>4, <1>5, <1>6, <1>7, <1>8, <1>9, <1>10 DEF JoinerReads, Booted, OnHostLeave

(* Joiner j acts, or gives something up. *)
LEMMA JoinerActsAgree ==
  ASSUME AgreeInv, Types', NEW j \in Joiner,
         JoinerActs(j) \/ JoinTimesOut(j) \/ LeaveTimesOut(j) \/ HostNotResponding(j) \/ ForgetGame(j)
  PROVE  AgreeInv'
<1>1. UNCHANGED gameVars
  BY JoinersLeaveTheGame
<1>2. UNCHANGED <<hosting, slots, options, accepted>>
  BY <1>1 DEF gameVars
<1>3. CASE ToLobby(j)
  BY <1>3, ToLobbyAgree
<1>4. CASE RequestGameJoin(j) \/ JoinTimesOut(j) \/ RequestAccept(j) \/ setIsActive(j)
  <2>1. UNCHANGED <<place, view, locked, toJoiner>>
    BY <1>4 DEF RequestGameJoin, JoinTimesOut, RequestAccept, setIsActive, playerVars
  <2> QED BY <1>2, <2>1, SaysNothingAgree
<1>5. CASE RequestGameLeave(j)
  <2> DEFINE m == [type |-> "leave", who |-> j]
             told == Humans(view[j].slots) \ {j}
  <2>1. toJoiner' = [k \in Joiner |-> IF k \in told THEN Append(toJoiner[k], m) ELSE toJoiner[k]]
        /\ UNCHANGED <<place, view, locked>>
    BY <1>5 DEF RequestGameLeave
  <2>2. m.type = "leave" /\ m \in Messages
    BY <1>5, SomeMessages DEF RequestGameLeave
  <2> HIDE DEF m, told
  <2>3. ASSUME NEW k \in Joiner
        PROVE  PlainMore(toJoiner[k], toJoiner'[k]) /\ NoneNew(toJoiner[k], toJoiner'[k], "start")
    <3>1. toJoiner[k] \in Seq(Messages)
      BY DEF AgreeInv, Types
    <3>2. toJoiner'[k] = toJoiner[k] \/ toJoiner'[k] = Append(toJoiner[k], m)
      BY <2>1
    <3> QED BY <2>2, <3>1, <3>2 DEF PlainMore, Extends, NoneNew
  <2> QED BY <1>2, <2>1, <2>3, PlainAgree
<1>6. CASE ForgetGame(j)
  <2>1. place[j] = "lobby" /\ view' = [view EXCEPT ![j] = NoGame] /\ UNCHANGED <<place, locked, toJoiner>>
    BY <1>6 DEF ForgetGame
  <2>2. view \in [Joiner -> Infos \cup {NoGame}]
    BY DEF AgreeInv, Types, TypeOK
  <2>3. \A k \in Joiner : k # j => view'[k] = view[k]
    BY <2>1, <2>2
  <2>4. Follows(j, toJoiner[j], "lobby", view'[j], locked[j])
    BY <2>1, AllFollow DEF Follows
  <2> QED BY <1>1, <2>1, <2>3, <2>4, JoinerAgree
<1>7. CASE AskRules(j) \/ AskLooks(j)
  <2>1. ~locked[j] /\ place[j] = "setup" /\ UNCHANGED <<place, locked, toJoiner>>
    BY <1>7 DEF AskRules, AskLooks, CanChoose
  <2>2. \A k \in Joiner : k # j => view'[k] = view[k]
    <3>1. view \in [Joiner -> Infos \cup {NoGame}]
      BY DEF AgreeInv, Types, TypeOK
    <3> QED BY <1>7, <3>1 DEF AskRules, AskLooks
  <2>3. Follows(j, toJoiner[j], "setup", view[j], locked[j])
    BY <2>1, AllFollow
  <2>4. Follows(j, toJoiner[j], "setup", view'[j], locked[j])
    BY <2>1, <2>3 DEF Follows
  <2> QED BY <1>1, <2>1, <2>2, <2>4, JoinerAgree
<1> QED BY <1>3, <1>4, <1>5, <1>6, <1>7 DEF JoinerActs, LeaveTimesOut, HostNotResponding

LEMMA NextAgree ==
  ~Lossy /\ InOrder /\ CountdownMeansAccepted /\ AgreeInv /\ [Next]_vars => AgreeInv'
<1> SUFFICES ASSUME ~Lossy, InOrder, CountdownMeansAccepted, AgreeInv, [Next]_vars PROVE AgreeInv'
  OBVIOUS
<1>1. Types /\ Types'
  BY NextTypes DEF AgreeInv
<1>2. CASE UNCHANGED vars
  BY <1>1, <1>2, SaysNothingAgree DEF vars, gameVars, playerVars
<1>3. CASE HostActs
  BY <1>1, <1>3, HostActsSay, InformsAgree, StartPressedAgree, GameStartAgree, HostLeavesAgree
<1>4. ASSUME NEW j \in Joiner, HostReads(j) PROVE AgreeInv'
  <2>1. CASE Quiet
    BY <1>1, <2>1, SaysNothingAgree DEF Quiet, playerVars
  <2> QED BY <1>1, <1>4, <2>1, HostReadsSay, InformsAgree, DenyLeftAgree
<1>5. ASSUME NEW j \in Joiner, DropSilent(j) PROVE AgreeInv'
  BY <1>1, <1>5, DropSilentSays, InformsAgree
<1>6. ASSUME NEW j \in Joiner, JoinerReads(j) PROVE AgreeInv'
  BY <1>1, <1>6, JoinerReadsAgree
<1>7. ASSUME NEW j \in Joiner,
             JoinerActs(j) \/ JoinTimesOut(j) \/ LeaveTimesOut(j) \/ HostNotResponding(j) \/ ForgetGame(j)
      PROVE  AgreeInv'
  BY <1>1, <1>7, JoinerActsAgree
<1>8. \A j \in Joiner : ~LoseToHost(j) /\ ~LoseToJoiner(j)
  BY DEF LoseToHost, LoseToJoiner
<1> QED BY <1>2, <1>3, <1>4, <1>5, <1>6, <1>7, <1>8 DEF Next, TimesOut

(* Whoever never leaves and plays, plays the host's game: its options, and every *)
(* slot as the host has it but for those of players who may leave, although each  *)
(* joiner writes into his own copy what he asks for before the host has heard.    *)
(* This is so for any joiners, slots, kicks and changes and any number of         *)
(* datagrams on the way, when none is lost and each is read in its turn.         *)
THEOREM StayersPlayTogether == ~Lossy => (Spec /\ []InOrder => []StayersAgree)
<1>1. AgreeInv => StayersAgree
  BY DEF AgreeInv
<1>2. ASSUME ~Lossy PROVE Spec /\ []InOrder => []StayersAgree
  <2>1. InOrder /\ CountdownMeansAccepted /\ AgreeInv /\ [Next]_vars => AgreeInv'
    BY <1>2, NextAgree
  <2> QED BY <2>1, <1>1, InitAgree, CountdownIsAccepted, PTL DEF Spec
<1> QED BY <1>2
=============================================================================
