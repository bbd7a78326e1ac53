-------------------------- MODULE DisconnectionProofs --------------------------
(***************************************************************************)
(* Who removes a player who has crashed, and at which frame, for any         *)
(* players, frames and commands that come late.  In three parts: the types;  *)
(* one player removes, whoever crashes; the frame, until a second one crashes. *)
(***************************************************************************)
EXTENDS Disconnection, FiniteSetTheorems, TLAPS

-----------------------------------------------------------------------------
(* Numbers.                                                                 *)

LEMMA LargestOfSet ==
  ASSUME NEW N \in Nat, NEW S \in SUBSET (0 .. N), S # {}
  PROVE  Max(S) \in S /\ \A n \in S : n <= Max(S)
  <1> DEFINE R == {ss \in Nat \X Nat : ss[1] < ss[2]}
             T == {N - n : n \in S}
  <1>1. IsWellFoundedOn(R, Nat)
    BY NatLessThanWellFounded DEF OpToRel
  <1>2. T \subseteq Nat /\ T # {}
    <2>1. \A n \in S : N - n \in Nat
      OBVIOUS
    <2> QED BY <2>1
  <1>3. PICK t \in T : \A u \in T : ~ (<<u, t>> \in R)
    <2> HIDE DEF R, T
    <2> QED BY <1>1, <1>2, WFMin
  <1>4. PICK n \in S : t = N - n
    OBVIOUS
  <1>5. \A k \in S : n >= k
    <2> TAKE k \in S
    <2>1. N - k \in T /\ <<N - k, t>> \in Nat \X Nat
      BY <1>2
    <2>2. ~ (N - k < t)
      BY <1>3, <2>1
    <2> QED BY <1>4, <2>2
  <1>6. Max(S) \in S /\ \A k \in S : Max(S) >= k
    BY <1>5 DEF Max
  <1> QED BY <1>6

-----------------------------------------------------------------------------
(* Types.                                                                   *)

\* With TypeOK: only a troubled player's frames are sent, and who has told the
\* others his frame knows it.
Types ==
  /\ TypeOK
  /\ \A p \in Player : \A m \in wire[p] : m.type = "data" => m.from \in Troubled
  /\ \A p \in Player : notified[p] => dframe[p][p] # 0

LEMMA InitTypes == Init => Types
  <1> SUFFICES ASSUME Init PROVE Types
    OBVIOUS
  <1>1. TypeOK
    BY DisconnectionAssumption DEF Init, TypeOK, Frames
  <1> QED BY <1>1 DEF Init, Types

LEMMA NoteType ==
  ASSUME NEW p \in Player, NEW q \in Player, NEW f \in Frames,
         NEW type \in {"frame", "off", "vote", "player"}
  PROVE  Note(type, p, q, f) \in Messages /\ Note(type, p, q, f).type = type
  BY DEF Note, Messages

LEMMA SentByAllType ==
  ASSUME wire \in [Player -> SUBSET Messages], NEW p \in Player, NEW ms \in SUBSET Messages
  PROVE  /\ SentByAll(p, ms) \in [Player -> SUBSET Messages]
         /\ \A q \in Player : SentByAll(p, ms)[q] \subseteq wire[q] \cup ms
  BY DEF SentByAll

LEMMA FrameDataType ==
  ASSUME NEW s \in Player, NEW t \in Player, NEW start
  PROVE  /\ FrameDataFor(s, t, start) \subseteq Messages
         /\ \A m \in FrameDataFor(s, t, start) : m.type = "data" /\ m.from \in Troubled
  BY DisconnectionAssumption DEF FrameDataFor, Messages

LEMMA WithoutVotesType ==
  ASSUME TypeOK, NEW p \in Player, NEW v \in Player, NEW f
  PROVE  /\ WithoutVotes(p, v, f) \in [Player -> [Player -> 0 .. MaxFrame + 1]]
         /\ \A x, w \in Player : WithoutVotes(p, v, f)[x][w] \in {0, votes[p][x][w]}
  <1>1. votes[p] \in [Player -> [Player -> 0 .. MaxFrame + 1]] /\ 0 \in 0 .. MaxFrame + 1
    BY DisconnectionAssumption DEF TypeOK
  <1> QED BY <1>1 DEF WithoutVotes

LEMMA AnnouncedType ==
  ASSUME TypeOK, NEW p \in Player, NEW q \in Player
  PROVE  Announced(q, p) \in 0 .. MaxFrame + RunAhead
  <1>1. frame[q] \in 1 .. MaxFrame + 1 /\ removedAt[q][p] \in 0 .. MaxFrame + 1
    BY DEF TypeOK, Frames
  <1>2. RunAhead \in Nat \ {0} /\ MaxFrame \in Nat
    BY DisconnectionAssumption
  <1>3. CASE Connected(q, p)
    BY <1>1, <1>2, <1>3 DEF Announced
  <1>4. CASE ~ Connected(q, p)
    BY <1>1, <1>2, <1>4 DEF Announced
  <1> QED BY <1>3, <1>4

LEMMA NextTypes == Types /\ [Next]_vars => Types'
  <1> SUFFICES ASSUME Types, [Next]_vars PROVE Types'
    OBVIOUS
  <1>t. TypeOK
    BY DEF Types
  <1>0. /\ RunAhead \in Nat \ {0} /\ MaxFrame \in Nat
        /\ \A p \in Player : frame[p] \in Frames
        /\ \A f \in Frames : f \in 0 .. MaxFrame + 1 /\ f \in 1 .. MaxFrame + 1
        /\ wire \in [Player -> SUBSET Messages] /\ Troubled \subseteq Player
        /\ dframe \in [Player -> [Player -> 0 .. MaxFrame + 1]]
    BY <1>t, DisconnectionAssumption DEF TypeOK, Frames
  <1>m. \A p \in Player : \A m \in wire[p] :
          m.from \in Player /\ m.slot \in Player /\ m.frame \in Frames
    BY <1>0 DEF Messages
  <1>1. ASSUME NEW p \in Player, TurnOnScreen(p) PROVE Types'
    <2>1. notified' = [notified EXCEPT ![p] = FALSE] /\ UNCHANGED <<wire, dframe>>
      BY <1>1 DEF TurnOnScreen
    <2>2. TypeOK'
      BY <1>t, <1>1 DEF TurnOnScreen, TypeOK
    <2> QED BY <1>t, <2>1, <2>2 DEF Types, TypeOK
  <1>2. ASSUME NEW p \in Player, Notify(p) PROVE Types'
    <2> DEFINE f == frame[p]
               n == Note("frame", p, p, f)
               news == SentByAll(p, {n})
    <2>1. n \in Messages /\ n.type = "frame" /\ f \in Frames
      BY <1>0, NoteType
    <2>2. news \in [Player -> SUBSET Messages] /\ \A q \in Player : news[q] \subseteq wire[q] \cup {n}
      BY <1>0, <2>1, SentByAllType
    <2>3. /\ notified' = [notified EXCEPT ![p] = TRUE]
          /\ UNCHANGED <<frame, crashed, removedAt, upto, screen, timedOut>>
      BY <1>2 DEF Notify
    <2>4. CASE dframe[p][p] >= f
      <3>1. wire' = news /\ UNCHANGED <<dframe, received, votes>>
        BY <1>2, <2>4 DEF Notify
      <3>2. dframe[p][p] # 0
        BY <1>0, <2>1, <2>4 DEF Frames
      <3> HIDE DEF news, n, f
      <3>3. TypeOK'
        BY <1>t, <2>2, <2>3, <3>1 DEF TypeOK
      <3>4. \A q \in Player : \A m \in wire'[q] : m.type = "data" => m.from \in Troubled
        BY <2>1, <2>2, <3>1 DEF Types
      <3> QED BY <1>t, <2>3, <3>1, <3>2, <3>3, <3>4 DEF Types, TypeOK
    <2>5. CASE ~ (dframe[p][p] >= f)
      <3>1. /\ dframe' = [dframe EXCEPT ![p][p] = f]
            /\ received' = [received EXCEPT ![p][p] = TRUE]
            /\ votes' = [votes EXCEPT ![p] = WithoutVotes(p, p, f - 1)]
            /\ wire' = [q \in Player |->
                          IF q \in Behind(p) THEN news[q] \cup FrameDataFor(p, q, dframe[p][q])
                          ELSE news[q]]
        BY <1>2, <2>5 DEF Notify
      <3> HIDE DEF news, n, f
      <3>2. \A q \in Player : wire'[q] \subseteq Messages
        BY <2>2, <3>1, FrameDataType
      <3>3. \A q \in Player : \A m \in wire'[q] : m.type = "data" => m.from \in Troubled
        BY <2>1, <2>2, <3>1, FrameDataType DEF Types
      <3>4. wire' \in [Player -> SUBSET Messages]
        BY <3>1, <3>2
      <3>5. votes' \in [Player -> [Player -> [Player -> 0 .. MaxFrame + 1]]]
        BY <1>t, <3>1, WithoutVotesType DEF TypeOK
      <3>6. dframe' \in [Player -> [Player -> 0 .. MaxFrame + 1]] /\ dframe'[p][p] # 0
        BY <1>0, <2>1, <3>1 DEF Frames
      <3>7. received' \in [Player -> [Player -> BOOLEAN]] /\ notified' \in [Player -> BOOLEAN]
        BY <1>t, <2>3, <3>1 DEF TypeOK
      <3>8. TypeOK'
        BY <1>t, <2>3, <3>4, <3>5, <3>6, <3>7 DEF TypeOK
      <3>9. \A q \in Player : notified'[q] => dframe'[q][q] # 0
        BY <1>t, <1>0, <2>3, <3>1, <3>6 DEF Types, TypeOK
      <3> QED BY <3>3, <3>8, <3>9 DEF Types
    <2> QED BY <2>4, <2>5
  <1>3. ASSUME NEW p \in Player, Disconnect(p) PROVE Types'
    <2> DEFINE top == Max({dframe[p][q] : q \in Player})
               ms == {Note("player", p, x, top) : x \in Out(p)}
    <2>1. top \in Frames
      <3> DEFINE S == {dframe[p][q] : q \in Player}
      <3>1. S \subseteq 0 .. MaxFrame + 1 /\ dframe[p][p] \in S
        BY <1>0
      <3>2. dframe[p][p] # 0
        BY <1>3 DEF Disconnect, Types
      <3>3. MaxFrame + 1 \in Nat /\ S # {}
        BY <1>0, <3>1
      <3> HIDE DEF S
      <3>4. Max(S) \in S /\ \A n \in S : n <= Max(S)
        BY <3>1, <3>3, LargestOfSet
      <3>5. Max(S) \in 0 .. MaxFrame + 1 /\ dframe[p][p] \in 0 .. MaxFrame + 1 /\ dframe[p][p] <= Max(S)
        BY <3>1, <3>4
      <3>6. Max(S) \in Frames
        BY <1>0, <3>2, <3>5 DEF Frames
      <3> QED BY <3>6 DEF S
    <2> HIDE DEF top
    <2>2. Out(p) \subseteq Player
      BY DEF Out, Others
    <2>3. ms \subseteq Messages /\ \A m \in ms : m.type = "player"
      BY <2>1, <2>2, NoteType
    <2>4. wire' = SentByAll(p, ms) /\ UNCHANGED <<frame, crashed, upto, screenVars>>
      BY <1>3 DEF Disconnect, top
    <2>5. removedAt' = [removedAt EXCEPT ![p] =
                          [q \in Player |-> IF q \in Out(p) THEN frame[p] ELSE @[q]]]
      BY <1>3 DEF Disconnect
    <2> HIDE DEF ms
    <2>6. /\ wire' \in [Player -> SUBSET Messages]
          /\ \A q \in Player : wire'[q] \subseteq wire[q] \cup ms
      BY <1>0, <2>3, <2>4, SentByAllType
    <2>7. removedAt' \in [Player -> [Player -> 0 .. MaxFrame + 1]]
      BY <1>t, <1>0, <2>5 DEF TypeOK
    <2>8. TypeOK'
      BY <1>t, <2>4, <2>6, <2>7 DEF TypeOK, screenVars
    <2>9. \A q \in Player : \A m \in wire'[q] : m.type = "data" => m.from \in Troubled
      BY <2>3, <2>6 DEF Types
    <2> QED BY <2>4, <2>8, <2>9 DEF Types, screenVars
  <1>4. ASSUME NEW p \in Player, ExecuteFrame(p) PROVE Types'
    <2> DEFINE f == frame[p]
    <2>1. /\ f \in 1 .. MaxFrame /\ f \in Frames
          /\ frame' = [frame EXCEPT ![p] = f + 1]
          /\ screen' = [screen EXCEPT ![p] = FALSE]
          /\ timedOut' = [timedOut EXCEPT ![p] = {}]
          /\ UNCHANGED <<crashed, removedAt, upto, notified>>
      BY <1>0, <1>4 DEF ExecuteFrame, Frames
    <2>2. /\ frame' \in [Player -> Frames] /\ screen' \in [Player -> BOOLEAN]
          /\ timedOut' \in [Player -> SUBSET Player]
      <3>1. f + 1 \in Frames
        BY <1>0, <2>1 DEF Frames
      <3> QED BY <1>t, <2>1, <3>1 DEF TypeOK
    <2>3. CASE ~ screen[p]
      <3>1. UNCHANGED <<dframe, received, votes, wire>>
        BY <1>4, <2>3 DEF ExecuteFrame, ScreenOff
      <3>2. TypeOK'
        BY <1>t, <2>1, <2>2, <3>1 DEF TypeOK
      <3> QED BY <2>1, <3>1, <3>2 DEF Types
    <2>4. CASE screen[p]
      <3> DEFINE n == Note("off", p, p, f)
      <3>1. n \in Messages /\ n.type = "off"
        BY <2>1, NoteType
      <3>2. /\ dframe' = [dframe EXCEPT ![p][p] = f]
            /\ received' = [received EXCEPT ![p][p] = FALSE]
            /\ votes' = [votes EXCEPT ![p] = [x \in Player |-> [@[x] EXCEPT ![p] = 0]]]
            /\ wire' = SentByAll(p, {n})
        BY <1>4, <2>4 DEF ExecuteFrame, ScreenOff
      <3> HIDE DEF n, f
      <3>0. {n} \in SUBSET Messages
        BY <3>1
      <3>3. wire' \in [Player -> SUBSET Messages] /\ \A q \in Player : wire'[q] \subseteq wire[q] \cup {n}
        BY <1>0, <3>0, <3>2, SentByAllType
      <3>4. /\ dframe' \in [Player -> [Player -> 0 .. MaxFrame + 1]]
            /\ \A q \in Player : dframe[q][q] # 0 => dframe'[q][q] # 0
        BY <1>0, <2>1, <3>2
      <3>5. votes' \in [Player -> [Player -> [Player -> 0 .. MaxFrame + 1]]]
        BY <1>t, <1>0, <3>2 DEF TypeOK
      <3>6. received' \in [Player -> [Player -> BOOLEAN]]
        BY <1>t, <3>2 DEF TypeOK
      <3>7. TypeOK'
        BY <1>t, <2>1, <2>2, <3>3, <3>4, <3>5, <3>6 DEF TypeOK
      <3>8. \A q \in Player : \A m \in wire'[q] : m.type = "data" => m.from \in Troubled
        BY <3>1, <3>3 DEF Types
      <3> QED BY <2>1, <3>4, <3>7, <3>8 DEF Types
    <2> QED BY <2>3, <2>4
  <1>5. ASSUME NEW p \in Player, Crash(p) PROVE Types'
    <2>1. TypeOK'
      BY <1>t, <1>5 DEF Crash, TypeOK, screenVars
    <2> QED BY <1>5, <2>1 DEF Types, Crash, screenVars
  <1>6. ASSUME NEW p \in Player, NEW x \in Player, Arrive(p, x) PROVE Types'
    <2>1. Announced(x, p) \in 0 .. MaxFrame + RunAhead /\ x \in Troubled
      BY <1>t, <1>6, AnnouncedType DEF Arrive
    <2>2. upto[p][x] \in 0 .. MaxFrame + RunAhead /\ upto[p][x] < Announced(x, p)
      BY <1>t, <1>6, <2>1 DEF Arrive, TypeOK
    <2>3. upto' \in [Player -> [Troubled -> 0 .. MaxFrame + RunAhead]]
      <3>1. upto[p][x] + 1 \in 0 .. MaxFrame + RunAhead
        BY <1>0, <2>1, <2>2
      <3>2. upto' = [upto EXCEPT ![p][x] = upto[p][x] + 1]
        BY <1>t, <1>6 DEF Arrive, TypeOK
      <3> QED BY <1>t, <2>1, <3>1, <3>2 DEF TypeOK
    <2>4. UNCHANGED <<frame, crashed, removedAt, screenVars, wire>>
      BY <1>6 DEF Arrive
    <2>5. TypeOK'
      BY <1>t, <2>3, <2>4 DEF TypeOK, screenVars
    <2> QED BY <2>4, <2>5 DEF Types, screenVars
  <1>7. ASSUME NEW p \in Player, NEW x \in Player, TimeOut(p, x) PROVE Types'
    <2>1. TypeOK'
      BY <1>t, <1>7 DEF TimeOut, TypeOK
    <2> QED BY <1>7, <2>1 DEF Types, TimeOut
  <1>8. ASSUME NEW p \in Player, NEW x \in Player, VoteFor(p, x) PROVE Types'
    <2> DEFINE n == Note("vote", p, x, frame[p])
    <2>1. n \in Messages /\ n.type = "vote"
      BY <1>0, NoteType
    <2>2. /\ votes' = [votes EXCEPT ![p][x][p] = frame[p]] /\ wire' = SentByAll(p, {n})
          /\ UNCHANGED <<frame, crashed, removedAt, upto, screen, notified, timedOut, dframe, received>>
      BY <1>8 DEF VoteFor
    <2> HIDE DEF n
    <2>0. {n} \in SUBSET Messages
      BY <2>1
    <2>3. wire' \in [Player -> SUBSET Messages] /\ \A q \in Player : wire'[q] \subseteq wire[q] \cup {n}
      BY <1>0, <2>0, <2>2, SentByAllType
    <2>4. votes' \in [Player -> [Player -> [Player -> 0 .. MaxFrame + 1]]]
      BY <1>t, <1>0, <2>2 DEF TypeOK
    <2>5. TypeOK'
      BY <1>t, <2>2, <2>3, <2>4 DEF TypeOK
    <2>6. \A q \in Player : \A m \in wire'[q] : m.type = "data" => m.from \in Troubled
      BY <2>1, <2>3 DEF Types
    <2> QED BY <2>2, <2>5, <2>6 DEF Types
  <1>9. ASSUME NEW p \in Player, NEW m \in wire[p], ReceiveData(p, m) PROVE Types'
    <2>1. m.from \in Troubled /\ m.frame \in 0 .. MaxFrame + RunAhead
      BY <1>0, <1>m, <1>9 DEF ReceiveData, Types, Frames
    <2>2. /\ upto' = [upto EXCEPT ![p][m.from] = m.frame]
          /\ UNCHANGED <<frame, crashed, removedAt, screenVars, wire>>
      BY <1>9 DEF ReceiveData
    <2>3. upto' \in [Player -> [Troubled -> 0 .. MaxFrame + RunAhead]]
      BY <1>t, <2>1, <2>2 DEF TypeOK
    <2>4. TypeOK'
      BY <1>t, <2>2, <2>3 DEF TypeOK, screenVars
    <2> QED BY <2>2, <2>4 DEF Types, screenVars
  <1>10. ASSUME NEW p \in Player, NEW m \in wire[p], ReceiveFrame(p, m) PROVE Types'
    <2> DEFINE q == m.from
    <2>1. q \in Player /\ m.frame \in Frames /\ m.frame # 0 /\ q # p
      BY <1>0, <1>m, <1>10 DEF ReceiveFrame, Pending, Accepted, Others, Frames
    <2>2. /\ votes' = [votes EXCEPT ![p] = WithoutVotes(p, q, m.frame - 1)]
          /\ dframe' = [dframe EXCEPT ![p][q] = m.frame]
          /\ received' = [received EXCEPT ![p][q] = TRUE]
          /\ wire' = IF m.frame < dframe[p][p]
                       THEN [wire EXCEPT ![q] = @ \cup FrameDataFor(p, q, m.frame)] ELSE wire
          /\ UNCHANGED <<frame, crashed, removedAt, upto, screen, notified, timedOut>>
      BY <1>10 DEF ReceiveFrame
    <2> HIDE DEF q
    <2>3. /\ wire' \in [Player -> SUBSET Messages]
          /\ \A r \in Player : wire'[r] \subseteq wire[r] \cup FrameDataFor(p, q, m.frame)
      BY <1>0, <2>1, <2>2, FrameDataType
    <2>4. votes' \in [Player -> [Player -> [Player -> 0 .. MaxFrame + 1]]]
      BY <1>t, <2>1, <2>2, WithoutVotesType DEF TypeOK
    <2>5. dframe' \in [Player -> [Player -> 0 .. MaxFrame + 1]] /\ \A r \in Player : dframe'[r][r] = dframe[r][r]
      BY <1>0, <2>1, <2>2
    <2>6. received' \in [Player -> [Player -> BOOLEAN]]
      BY <1>t, <2>1, <2>2 DEF TypeOK
    <2>7. TypeOK'
      BY <1>t, <2>2, <2>3, <2>4, <2>5, <2>6 DEF TypeOK
    <2>8. \A r \in Player : \A n \in wire'[r] : n.type = "data" => n.from \in Troubled
      BY <2>1, <2>3, FrameDataType DEF Types
    <2> QED BY <2>2, <2>5, <2>7, <2>8 DEF Types
  <1>11. ASSUME NEW p \in Player, NEW m \in wire[p], ReceiveScreenOff(p, m) PROVE Types'
    <2> DEFINE q == m.from
    <2>1. q \in Player /\ m.frame \in Frames /\ q # p
      BY <1>m, <1>11 DEF ReceiveScreenOff, Pending, Accepted, Others
    <2>2. /\ votes' = [votes EXCEPT ![p] = WithoutVotes(p, q, m.frame)]
          /\ dframe' = [dframe EXCEPT ![p][q] = m.frame]
          /\ received' = [received EXCEPT ![p][q] = FALSE]
          /\ UNCHANGED <<frame, crashed, removedAt, upto, screen, notified, timedOut, wire>>
      BY <1>11 DEF ReceiveScreenOff
    <2> HIDE DEF q
    <2>3. votes' \in [Player -> [Player -> [Player -> 0 .. MaxFrame + 1]]]
      BY <1>t, <2>1, <2>2, WithoutVotesType DEF TypeOK
    <2>4. dframe' \in [Player -> [Player -> 0 .. MaxFrame + 1]] /\ \A r \in Player : dframe'[r][r] = dframe[r][r]
      BY <1>0, <2>1, <2>2
    <2>5. TypeOK'
      BY <1>t, <2>1, <2>2, <2>3, <2>4 DEF TypeOK
    <2> QED BY <2>2, <2>4, <2>5 DEF Types
  <1>12. ASSUME NEW p \in Player, NEW m \in wire[p], ReceiveVote(p, m) PROVE Types'
    <2>1. m.slot \in Player /\ m.from \in Player /\ m.frame \in 0 .. MaxFrame + 1
      BY <1>0, <1>m
    <2>2. /\ votes' = [votes EXCEPT ![p][m.slot][m.from] = m.frame]
          /\ UNCHANGED <<frame, crashed, removedAt, upto, screen, notified, timedOut, dframe, received, wire>>
      BY <1>12 DEF ReceiveVote
    <2>3. votes' \in [Player -> [Player -> [Player -> 0 .. MaxFrame + 1]]]
      BY <1>t, <2>1, <2>2 DEF TypeOK
    <2>4. TypeOK'
      BY <1>t, <2>2, <2>3 DEF TypeOK
    <2> QED BY <2>2, <2>4 DEF Types
  <1>13. ASSUME NEW p \in Player, NEW m \in wire[p], ReceivePlayer(p, m) PROVE Types'
    <2>1. /\ removedAt' = [removedAt EXCEPT ![p][m.slot] = frame[p]]
          /\ UNCHANGED <<frame, crashed, upto, screenVars, wire>>
      BY <1>13 DEF ReceivePlayer
    <2>2. removedAt' \in [Player -> [Player -> 0 .. MaxFrame + 1]]
      BY <1>t, <1>0, <1>m, <2>1 DEF TypeOK
    <2>3. TypeOK'
      BY <1>t, <2>1, <2>2 DEF TypeOK, screenVars
    <2> QED BY <2>1, <2>3 DEF Types, screenVars
  <1>14. CASE UNCHANGED vars
    BY <1>14 DEF vars, screenVars, Types, TypeOK
  <1> QED BY <1>1, <1>2, <1>3, <1>4, <1>5, <1>6, <1>7, <1>8, <1>9, <1>10, <1>11, <1>12, <1>13, <1>14
          DEF Next, Receive

LEMMA AllTypes == Spec => []Types
  BY InitTypes, NextTypes, PTL DEF Spec

\* No frame, count, vote or message leaves its range, however often players
\* stop, vote, crash and are removed.
THEOREM TypeCorrectness == Spec => []TypeOK
  <1>1. Types => TypeOK
    BY DEF Types
  <1> QED BY <1>1, AllTypes, PTL

-----------------------------------------------------------------------------
(* One player removes another.                                              *)

\* Nobody votes against a player who is still there.
VotesOnCrashed == \A p, x, v \in Player : votes[p][x][v] # 0 => x \in crashed

LivesConnected  == \A p, q \in Player \ crashed : Connected(p, q)
CrashedTimeOut  == \A p \in Player \ crashed : timedOut[p] \subseteq crashed
\* Whoever tells of a removal is the least of those who are left.
LeastRemoves ==
  \A q \in Player : \A m \in wire[q] : m.type = "player" =>
    /\ m.slot \in crashed
    /\ m.by \notin crashed => \A r \in Player \ crashed : r = m.by \/ m.by < r

CrashedGo == LivesConnected /\ CrashedTimeOut /\ LeastRemoves

LEMMA InitCrashedGo == Init => CrashedGo
  BY DEF Init, CrashedGo, LivesConnected, CrashedTimeOut, LeastRemoves, Connected

LEMMA NumPlayersType ==
  ASSUME NEW p \in Player
  PROVE  /\ Cardinality(Others(p)) \in Nat
         /\ Others(p) # {} => Cardinality(Others(p)) > 0
  <1>1. Others(p) \subseteq Player /\ IsFiniteSet(Player)
    BY DisconnectionAssumption DEF Others
  <1>2. IsFiniteSet(Others(p))
    BY <1>1, FS_Subset
  <1> QED BY <1>2, FS_CardinalityType, FS_EmptySet

\* Who is out has crashed: nobody else has timed out or has votes enough.
LEMMA OutCrashed ==
  ASSUME Types, CrashedGo, VotesOnCrashed, NEW p \in Player \ crashed
  PROVE  Out(p) \subseteq crashed
  <1> SUFFICES ASSUME NEW x \in Out(p), x \notin crashed PROVE FALSE
    OBVIOUS
  <1>1. x \in Others(p) /\ x \in Player /\ Connected(p, x) /\ ~ InGame(p, x)
    BY DEF Out, Others
  <1>2. x \notin timedOut[p]
    BY DEF CrashedGo, CrashedTimeOut
  <1>3. Cardinality(VotesFor(p, x)) >= NumPlayers(p) - 1
    BY <1>1, <1>2 DEF InGame, VotedOut
  <1>4. VotesFor(p, x) = {}
    <2> SUFFICES ASSUME NEW v \in Player, votes[p][x][v] = frame[p] PROVE FALSE
      BY DEF VotesFor
    <2>1. frame[p] # 0
      BY DEF Types, TypeOK, Frames
    <2> QED BY <1>1, <2>1 DEF VotesOnCrashed
  <1>5. /\ Cardinality(Others(p)) \in Nat /\ Cardinality(Others(p)) > 0
        /\ NumPlayers(p) - 1 = Cardinality(Others(p))
    BY <1>1, NumPlayersType DEF NumPlayers
  <1>6. Cardinality(VotesFor(p, x)) = 0
    BY <1>4, FS_EmptySet
  <1> QED BY <1>3, <1>5, <1>6

LEMMA NextCrashedGo == Types /\ VotesOnCrashed /\ CrashedGo /\ [Next]_vars => CrashedGo'
  <1> SUFFICES ASSUME Types, VotesOnCrashed, CrashedGo, [Next]_vars PROVE CrashedGo'
    OBVIOUS
  <1> USE DEF LivesConnected, CrashedTimeOut, LeastRemoves, Connected
  <1>t. TypeOK
    BY DEF Types
  <1>0. /\ removedAt \in [Player -> [Player -> 0 .. MaxFrame + 1]]
        /\ timedOut \in [Player -> SUBSET Player]
        /\ wire \in [Player -> SUBSET Messages]
    BY <1>t DEF TypeOK
  <1>m. \A p \in Player : \A m \in wire[p] : m.slot \in Player
    BY <1>0 DEF Messages
  \* What most steps leave alone is enough.
  <1>q. ASSUME UNCHANGED <<crashed, removedAt>>, CrashedTimeOut',
               \A q \in Player : \A m \in wire'[q] : m.type = "player" => m \in wire[q]
        PROVE  CrashedGo'
    BY <1>q DEF CrashedGo
  <1>1. ASSUME NEW p \in Player, TurnOnScreen(p) PROVE CrashedGo'
    BY <1>0, <1>1 DEF TurnOnScreen, CrashedGo
  <1>2. ASSUME NEW p \in Player, Notify(p) PROVE CrashedGo'
    <2>1. UNCHANGED <<crashed, removedAt, timedOut>>
      BY <1>2 DEF Notify
    <2>2. \A q \in Player : \A m \in wire'[q] : m.type = "player" => m \in wire[q]
      BY <1>2 DEF Notify, SentByAll, Note, FrameDataFor
    <2> QED BY <1>q, <2>1, <2>2 DEF CrashedGo
  <1>3. ASSUME NEW p \in Player, Disconnect(p) PROVE CrashedGo'
    <2>1. p \notin crashed /\ IsNextRouter(p)
      BY <1>3 DEF Disconnect, Stuck, In
    <2>2. Out(p) \subseteq crashed /\ Out(p) \subseteq Player
      BY <2>1, OutCrashed DEF Out, Others
    <2>3. \A r \in Player \ crashed : r = p \/ p < r
      BY <2>1, <2>2 DEF CrashedGo, IsNextRouter, Others
    <2>4. /\ removedAt' = [removedAt EXCEPT ![p] =
                             [q \in Player |-> IF q \in Out(p) THEN frame[p] ELSE @[q]]]
          /\ UNCHANGED <<crashed, timedOut>>
      BY <1>3 DEF Disconnect, screenVars
    <2>5. \A q \in Player : \A m \in wire'[q] : m.type = "player" =>
            m \in wire[q] \/ (m.by = p /\ m.slot \in Out(p))
      <3> DEFINE top == Max({dframe[p][q] : q \in Player})
                 ms == {Note("player", p, x, top) : x \in Out(p)}
      <3>1. wire' = SentByAll(p, ms)
        BY <1>3 DEF Disconnect
      <3> HIDE DEF top
      <3>2. \A m \in ms : m.by = p /\ m.slot \in Out(p)
        BY DEF Note
      <3> HIDE DEF ms
      <3>3. \A q \in Player : wire'[q] \subseteq wire[q] \cup ms
        BY <3>1 DEF SentByAll
      <3> QED BY <3>2, <3>3
    <2>6. LivesConnected'
      BY <1>0, <2>2, <2>4 DEF CrashedGo
    <2>7. CrashedTimeOut'
      BY <2>4 DEF CrashedGo
    <2>8. LeastRemoves'
      BY <2>2, <2>3, <2>4, <2>5 DEF CrashedGo
    <2> QED BY <2>6, <2>7, <2>8 DEF CrashedGo
  <1>4. ASSUME NEW p \in Player, ExecuteFrame(p) PROVE CrashedGo'
    <2>1. UNCHANGED <<crashed, removedAt>> /\ timedOut' = [timedOut EXCEPT ![p] = {}]
      BY <1>4 DEF ExecuteFrame
    <2>2. \A q \in Player : \A m \in wire'[q] : m.type = "player" => m \in wire[q]
      BY <1>4 DEF ExecuteFrame, ScreenOff, SentByAll, Note
    <2>3. CrashedTimeOut'
      BY <1>0, <2>1 DEF CrashedGo
    <2> QED BY <1>q, <2>1, <2>2, <2>3
  <1>5. ASSUME NEW p \in Player, Crash(p) PROVE CrashedGo'
    BY <1>5 DEF Crash, screenVars, CrashedGo
  <1>6. ASSUME NEW p \in Player, NEW x \in Player, Arrive(p, x) PROVE CrashedGo'
    BY <1>6 DEF Arrive, screenVars, CrashedGo
  <1>7. ASSUME NEW p \in Player, NEW x \in Player, TimeOut(p, x) PROVE CrashedGo'
    <2>1. x \in crashed
      BY <1>7 DEF TimeOut, Stuck, In, CrashedGo
    <2>2. /\ timedOut' = [timedOut EXCEPT ![p] = @ \cup {x}]
          /\ UNCHANGED <<crashed, removedAt, wire>>
      BY <1>7 DEF TimeOut
    <2>3. CrashedTimeOut'
      BY <1>0, <2>1, <2>2 DEF CrashedGo
    <2> QED BY <1>q, <2>2, <2>3
  <1>8. ASSUME NEW p \in Player, NEW x \in Player, VoteFor(p, x) PROVE CrashedGo'
    <2>1. UNCHANGED <<crashed, removedAt, timedOut>>
      BY <1>8 DEF VoteFor
    <2>2. \A q \in Player : \A m \in wire'[q] : m.type = "player" => m \in wire[q]
      BY <1>8 DEF VoteFor, SentByAll, Note
    <2> QED BY <1>q, <2>1, <2>2 DEF CrashedGo
  <1>9. ASSUME NEW p \in Player, NEW m \in wire[p], ReceiveData(p, m) PROVE CrashedGo'
    BY <1>9 DEF ReceiveData, screenVars, CrashedGo
  <1>10. ASSUME NEW p \in Player, NEW m \in wire[p], ReceiveFrame(p, m) PROVE CrashedGo'
    <2>1. UNCHANGED <<crashed, removedAt, timedOut>>
      BY <1>10 DEF ReceiveFrame
    <2>2. \A q \in Player : \A n \in wire'[q] : n.type = "player" => n \in wire[q]
      BY <1>0, <1>10 DEF ReceiveFrame, FrameDataFor
    <2> QED BY <1>q, <2>1, <2>2 DEF CrashedGo
  <1>11. ASSUME NEW p \in Player, NEW m \in wire[p], ReceiveScreenOff(p, m) PROVE CrashedGo'
    BY <1>11 DEF ReceiveScreenOff, CrashedGo
  <1>12. ASSUME NEW p \in Player, NEW m \in wire[p], ReceiveVote(p, m) PROVE CrashedGo'
    BY <1>12 DEF ReceiveVote, CrashedGo
  <1>13. ASSUME NEW p \in Player, NEW m \in wire[p], ReceivePlayer(p, m) PROVE CrashedGo'
    <2>1. m.slot \in crashed /\ m.slot \in Player
      BY <1>m, <1>13 DEF ReceivePlayer, CrashedGo
    <2>2. /\ removedAt' = [removedAt EXCEPT ![p][m.slot] = frame[p]]
          /\ UNCHANGED <<crashed, timedOut, wire>>
      BY <1>13 DEF ReceivePlayer, screenVars
    <2>3. LivesConnected'
      BY <1>0, <2>1, <2>2 DEF CrashedGo
    <2> QED BY <2>2, <2>3 DEF CrashedGo
  <1>14. CASE UNCHANGED vars
    BY <1>14 DEF vars, screenVars, CrashedGo
  <1> QED BY <1>1, <1>2, <1>3, <1>4, <1>5, <1>6, <1>7, <1>8, <1>9, <1>10, <1>11, <1>12, <1>13, <1>14
          DEF Next, Receive

LEMMA OneLeast ==
  ASSUME CrashedGo
  PROVE  RemovedByOne
  <1> SUFFICES ASSUME NEW x \in Player PROVE Cardinality(Removers(x)) <= 1
    BY DEF RemovedByOne
  <1>1. \A p, q \in Removers(x) : p = q
    <2> SUFFICES ASSUME NEW p \in Removers(x), NEW q \in Removers(x), p # q PROVE FALSE
      OBVIOUS
    <2>1. p \in Player \ crashed /\ q \in Player \ crashed
      BY DEF Removers
    <2>2. p < q
      BY <2>1 DEF Removers, CrashedGo, LeastRemoves
    <2>3. q < p
      BY <2>1 DEF Removers, CrashedGo, LeastRemoves
    <2>4. p \in Nat /\ q \in Nat
      BY <2>1, DisconnectionAssumption
    <2> QED BY <2>2, <2>3, <2>4
  <1>2. CASE Removers(x) = {}
    BY <1>2, FS_EmptySet
  <1>3. CASE Removers(x) # {}
    <2>1. PICK p : Removers(x) = {p}
      BY <1>1, <1>3
    <2> QED BY <2>1, FS_Singleton
  <1> QED BY <1>2, <1>3

\* Of those who are left one removes a player who has crashed, whoever else
\* crashes meanwhile, as long as nobody votes against a player who is there:
\* who is out is out for everybody, and the next router is one.
THEOREM OnePlayerRemoves == Spec /\ []VotesOnCrashed => []RemovedByOne
  <1>1. CrashedGo => RemovedByOne
    BY OneLeast
  <1> QED BY <1>1, AllTypes, InitCrashedGo, NextCrashedGo, PTL DEF Spec

-----------------------------------------------------------------------------
(* One player crashes: what is sent.                                        *)


\* Nobody is kept waiting but for who has crashed, and nobody votes against
\* anybody but c.
OneCrash(c) == Prompt /\ c \in Crashers /\ Votable \subseteq {c}

Rest(c) == Player \ {c}

\* Nobody has stopped before the crash.
Calm ==
  crashed = {} => \A p \in Player :
    /\ ~ screen[p] /\ wire[p] = {} /\ timedOut[p] = {}
    /\ \A x \in Player : removedAt[p][x] = 0 /\ ~ received[p][x]
    /\ \A x, v \in Player : votes[p][x][v] = 0

\* He who crashes says nothing and removes nobody; votes are against him.
Silent(c) ==
  /\ ~ screen[c] /\ \A x \in Player : removedAt[c][x] = 0
  /\ \A q \in Player : \A m \in wire[q] :
       /\ m.by # c /\ (m.type # "data" => m.from # c)
       /\ m.type = "vote" => m.slot \in Votable
  /\ \A p, x, v \in Player : votes[p][x][v] # 0 => x \in Votable

\* As long as c alone has crashed.
Base(c) == OneCrash(c) /\ crashed \subseteq {c} /\ Types /\ CrashedGo /\ Calm /\ Silent(c)

\* What p puts on a wire in a step.
SentBy(p, m) ==
  \/ m.type = "data" /\ m.by = p /\ Connected(p, m.from) /\ m.frame < frame[p]
  \/ Notify(p) /\ m = Note("frame", p, p, frame[p])
  \/ ExecuteFrame(p) /\ screen[p] /\ m = Note("off", p, p, frame[p])
  \/ m.type = "vote" /\ m.by = p /\ m.from = p /\ m.slot \in Votable
  \/ Disconnect(p) /\ m.type = "player" /\ m.by = p /\ m.from = p /\ m.slot \in Out(p)

LEMMA SentByAllWires ==
  ASSUME NEW p \in Player, NEW ms, NEW q \in Player
  PROVE  wire[q] \subseteq SentByAll(p, ms)[q] /\ SentByAll(p, ms)[q] \subseteq wire[q] \cup ms
  BY DEF SentByAll

LEMMA FrameDataSent ==
  ASSUME NEW s \in Player, NEW t \in Player, NEW start, NEW m \in FrameDataFor(s, t, start)
  PROVE  SentBy(s, m)
  <1>1. m.type = "data" /\ m.by = s /\ Connected(s, m.from) /\ m.frame < frame[s]
    BY DEF FrameDataFor
  <1> QED BY <1>1 DEF SentBy

LEMMA WireGrows ==
  ASSUME TypeOK, [Next]_vars, NEW q \in Player
  PROVE  /\ wire[q] \subseteq wire'[q]
         /\ \A m \in wire'[q] \ wire[q] :
              \E p \in Player : In(p) /\ (screen[p] \/ wire[p] # {}) /\ SentBy(p, m)
  <1>1. ASSUME NEW p \in Player, Notify(p)
        PROVE  wire[q] \subseteq wire'[q] /\ \A m \in wire'[q] \ wire[q] : SentBy(p, m)
    <2> DEFINE n == Note("frame", p, p, frame[p])
               data == FrameDataFor(p, q, dframe[p][q])
    <2>1. \/ wire'[q] = SentByAll(p, {n})[q]
          \/ wire'[q] = SentByAll(p, {n})[q] \cup data
      BY <1>1 DEF Notify
    <2>2. SentBy(p, n)
      BY <1>1 DEF SentBy
    <2>3. \A m \in data : SentBy(p, m)
      BY FrameDataSent
    <2> HIDE DEF n, data
    <2> QED BY <2>1, <2>2, <2>3, SentByAllWires
  <1>2. ASSUME NEW p \in Player, Disconnect(p)
        PROVE  wire[q] \subseteq wire'[q] /\ \A m \in wire'[q] \ wire[q] : SentBy(p, m)
    <2> DEFINE top == Max({dframe[p][x] : x \in Player})
               ms == {Note("player", p, x, top) : x \in Out(p)}
    <2>1. wire' = SentByAll(p, ms)
      BY <1>2 DEF Disconnect
    <2> HIDE DEF top
    <2>2. \A m \in ms : m.type = "player" /\ m.by = p /\ m.from = p /\ m.slot \in Out(p)
      BY DEF Note
    <2> HIDE DEF ms
    <2>3. \A m \in ms : SentBy(p, m)
      BY <1>2, <2>2 DEF SentBy
    <2> QED BY <2>1, <2>3, SentByAllWires
  <1>3. ASSUME NEW p \in Player, ExecuteFrame(p)
        PROVE  wire[q] \subseteq wire'[q] /\ \A m \in wire'[q] \ wire[q] : screen[p] /\ SentBy(p, m)
    <2> DEFINE n == Note("off", p, p, frame[p])
    <2>1. CASE ~ screen[p]
      BY <1>3, <2>1 DEF ExecuteFrame, ScreenOff
    <2>2. CASE screen[p]
      <3>1. wire' = SentByAll(p, {n})
        BY <1>3, <2>2 DEF ExecuteFrame, ScreenOff
      <3>2. SentBy(p, n)
        BY <1>3, <2>2 DEF SentBy
      <3> HIDE DEF n
      <3> QED BY <2>2, <3>1, <3>2, SentByAllWires
    <2> QED BY <2>1, <2>2
  <1>4. ASSUME NEW p \in Player, NEW x \in Player, VoteFor(p, x)
        PROVE  wire[q] \subseteq wire'[q] /\ \A m \in wire'[q] \ wire[q] : SentBy(p, m)
    <2> DEFINE n == Note("vote", p, x, frame[p])
    <2>1. wire' = SentByAll(p, {n}) /\ x \in Votable
      BY <1>4 DEF VoteFor
    <2>2. SentBy(p, n)
      BY <2>1 DEF SentBy, Note
    <2> HIDE DEF n
    <2> QED BY <2>1, <2>2, SentByAllWires
  <1>5. ASSUME NEW p \in Player, NEW n \in wire[p], ReceiveFrame(p, n)
        PROVE  wire[q] \subseteq wire'[q] /\ \A m \in wire'[q] \ wire[q] : SentBy(p, m)
    <2> DEFINE data == FrameDataFor(p, q, n.frame)
    <2>1. wire'[q] = wire[q] \/ wire'[q] = wire[q] \cup data
      BY <1>5 DEF ReceiveFrame, TypeOK
    <2>2. \A m \in data : SentBy(p, m)
      BY FrameDataSent
    <2> QED BY <2>1, <2>2
  <1>6. \A p \in Player : (Notify(p) \/ Disconnect(p) => In(p) /\ screen[p]) /\ (ExecuteFrame(p) => In(p))
    BY DEF Notify, Disconnect, ExecuteFrame, Stuck
  <1>7. \A p, x \in Player : VoteFor(p, x) => In(p) /\ screen[p]
    BY DEF VoteFor
  <1>8. \A p \in Player : \A n \in wire[p] : Receive(p, n) => In(p)
    BY DEF Receive, ReceiveData, ReceiveFrame, ReceiveScreenOff, ReceiveVote, ReceivePlayer,
           Pending, Accepted
  <1>9. CASE wire' = wire
    BY <1>9
  <1>10. \/ wire' = wire
         \/ \E p \in Player : Notify(p) \/ Disconnect(p) \/ ExecuteFrame(p)
         \/ \E p, x \in Player : VoteFor(p, x)
         \/ \E p \in Player : \E n \in wire[p] : ReceiveFrame(p, n)
    BY DEF Next, vars, Receive, TurnOnScreen, Crash, Arrive, TimeOut, ReceiveData, ReceiveScreenOff,
           ReceiveVote, ReceivePlayer
  <1>11. \A p \in Player : \A n \in wire[p] : ReceiveFrame(p, n) => In(p)
    BY <1>8 DEF Receive
  <1>12. ASSUME NEW p \in Player, Notify(p) \/ Disconnect(p) \/ ExecuteFrame(p)
         PROVE  /\ wire[q] \subseteq wire'[q]
                /\ \A m \in wire'[q] \ wire[q] : In(p) /\ screen[p] /\ SentBy(p, m)
    BY <1>1, <1>2, <1>3, <1>6, <1>12
  <1>13. ASSUME NEW p \in Player, NEW x \in Player, VoteFor(p, x)
         PROVE  /\ wire[q] \subseteq wire'[q]
                /\ \A m \in wire'[q] \ wire[q] : In(p) /\ screen[p] /\ SentBy(p, m)
    BY <1>4, <1>7, <1>13
  <1>14. ASSUME NEW p \in Player, NEW n \in wire[p], ReceiveFrame(p, n)
         PROVE  /\ wire[q] \subseteq wire'[q]
                /\ \A m \in wire'[q] \ wire[q] : In(p) /\ wire[p] # {} /\ SentBy(p, m)
    BY <1>5, <1>11, <1>14
  <1> QED BY <1>9, <1>10, <1>12, <1>13, <1>14

LEMMA BaseFacts ==
  ASSUME NEW c, Base(c)
  PROVE  /\ c \in Player /\ c \in Troubled /\ c \notin Rest(c)
         /\ crashed = {} \/ crashed = {c}
         /\ VotesOnCrashed
         /\ \A p \in Player : In(p) /\ crashed # {} => p \in Rest(c)
         /\ \A p \in Player : In(p) /\ (screen[p] \/ wire[p] # {}) => p \in Rest(c) /\ crashed = {c}
         /\ \A p \in Rest(c) : p \in Player /\ In(p) /\ \A q \in Rest(c) : Connected(p, q)
  <1> USE DEF Base, OneCrash
  <1>1. c \in Player /\ c \in Troubled /\ c \notin Rest(c)
    BY DisconnectionAssumption DEF Rest
  <1>2. crashed = {} \/ crashed = {c}
    OBVIOUS
  <1>3. VotesOnCrashed
    BY <1>2 DEF Calm, Silent, VotesOnCrashed
  <1>4. \A p \in Player : In(p) /\ crashed # {} => p \in Rest(c)
    BY <1>2 DEF In, Rest
  <1>5. \A p \in Player : In(p) /\ (screen[p] \/ wire[p] # {}) => p \in Rest(c) /\ crashed = {c}
    BY <1>2, <1>4 DEF Calm
  <1>6. \A p \in Rest(c) : p \in Player /\ In(p) /\ \A q \in Rest(c) : Connected(p, q)
    BY <1>2 DEF Rest, In, CrashedGo, LivesConnected
  <1> QED BY <1>1, <1>2, <1>3, <1>4, <1>5, <1>6

LEMMA AheadOfAnnounced ==
  ASSUME TypeOK, NEW q \in Player, NEW p \in Player, Connected(q, p)
  PROVE  Announced(q, p) = frame[q] + RunAhead - 1 /\ Announced(q, p) >= frame[q] /\ frame[q] \in Nat
  <1>1. frame[q] \in Nat /\ RunAhead \in Nat \ {0}
    BY DisconnectionAssumption DEF TypeOK, Frames
  <1>2. Announced(q, p) = frame[q] + RunAhead - 1
    BY DEF Announced
  <1> QED BY <1>1, <1>2

\* Where it is quiet nobody lacks commands of somebody who is there and is not
\* behind him.
LEMMA QuietUpTo ==
  ASSUME Types, CrashedGo, NEW p \in Player \ crashed, Quiet(p),
         NEW q \in Player \ crashed, NEW x \in Player \ crashed, x # q
  PROVE  UpTo(q, x) >= frame[x] /\ UpTo(q, x) \in Int
  <1>t. TypeOK
    BY DEF Types
  <1>1. Connected(x, q) /\ x \in Others(q) /\ (q = p \/ q \in Others(p))
    BY DEF CrashedGo, LivesConnected, Others
  <1>2. Announced(x, q) = frame[x] + RunAhead - 1 /\ Announced(x, q) >= frame[x] /\ frame[x] \in Nat
    BY <1>t, <1>1, AheadOfAnnounced
  <1>3. RunAhead \in Nat
    BY DisconnectionAssumption
  <1>4. x \in Troubled => upto[q][x] = Announced(x, q)
    BY <1>1 DEF Quiet
  <1> QED BY <1>2, <1>3, <1>4 DEF UpTo

LEMMA LastPlayer ==
  ASSUME TypeOK, NEW p \in Player
  PROVE  \E w \in Player : \A q \in Player : frame[w] <= frame[q]
  <1> DEFINE S == {MaxFrame + 1 - frame[q] : q \in Player}
  <1>1. \A q \in Player : frame[q] \in 1 .. MaxFrame + 1 /\ MaxFrame \in Nat /\ MaxFrame + 1 \in Nat
    BY DisconnectionAssumption DEF TypeOK, Frames
  <1>2. S \subseteq 0 .. MaxFrame + 1 /\ S # {}
    <2>1. \A q \in Player : MaxFrame + 1 - frame[q] \in 0 .. MaxFrame + 1
      BY <1>1
    <2>2. MaxFrame + 1 - frame[p] \in S
      OBVIOUS
    <2> QED BY <2>1, <2>2
  <1>3. Max(S) \in S /\ \A n \in S : n <= Max(S)
    <2> HIDE DEF S
    <2> QED BY <1>1, <1>2, LargestOfSet
  <1>4. PICK w \in Player : Max(S) = MaxFrame + 1 - frame[w]
    BY <1>3
  <1>5. \A q \in Player : frame[w] <= frame[q]
    <2> TAKE q \in Player
    <2>1. MaxFrame + 1 - frame[q] <= MaxFrame + 1 - frame[w]
      BY <1>3, <1>4
    <2> QED BY <1>1, <2>1
  <1> QED BY <1>5

\* While everybody is there nobody is stuck where it is quiet: who is last waits
\* for nobody.
LEMMA NoneStopsBeforeCrash ==
  ASSUME Types, CrashedGo, crashed = {}, NEW p \in Player, Stuck(p), Quiet(p)
  PROVE  FALSE
  <1>t. TypeOK
    BY DEF Types
  <1>0. \A q \in Player : frame[q] \in 1 .. MaxFrame + 1 /\ MaxFrame \in Nat
    BY <1>t, DisconnectionAssumption DEF TypeOK, Frames
  <1>1. PICK w \in Player : \A q \in Player : frame[w] <= frame[q]
    BY <1>t, LastPlayer
  <1>2. \A q, x \in Player : x # q => UpTo(q, x) >= frame[x] /\ UpTo(q, x) \in Int
    BY QuietUpTo
  <1>3. PICK x \in Player \ {p} : ~ (frame[p] <= UpTo(p, x))
    BY DEF Stuck, Ready, Others
  <1>4. frame[w] <= MaxFrame /\ w # p
    BY <1>0, <1>1, <1>2, <1>3
  <1>5. ~ Ready(w)
    <2>1. w \in Others(p)
      BY <1>4 DEF Others, CrashedGo, LivesConnected
    <2> QED BY <1>0, <1>4, <2>1 DEF Quiet
  <1>6. PICK y \in Player \ {w} : ~ (frame[w] <= UpTo(w, y))
    BY <1>5 DEF Ready, Others
  <1>7. UpTo(w, y) >= frame[y] /\ frame[w] <= frame[y] /\ UpTo(w, y) \in Int
    BY <1>1, <1>2
  <1> QED BY <1>0, <1>6, <1>7

LEMMA NextCalm ==
  ASSUME Prompt, Types, CrashedGo, Calm, [Next]_vars
  PROVE  Calm'
  <1> SUFFICES ASSUME crashed' = {}, ~ UNCHANGED vars PROVE Calm'
    BY DEF Calm, vars, screenVars
  <1>t. TypeOK /\ Types /\ CrashedGo /\ Prompt
    BY DEF Types
  <1>1. crashed = {}
    BY ZenonT(40) DEF Next, TurnOnScreen, Notify, Disconnect, ExecuteFrame, Crash, Arrive, TimeOut, VoteFor,
           Receive, ReceiveData, ReceiveFrame, ReceiveScreenOff, ReceiveVote, ReceivePlayer, vars
  <1>2. \A p \in Player : ~ screen[p] /\ wire[p] = {}
    BY <1>1 DEF Calm
  <1>3. \A p \in Player : ~ TurnOnScreen(p)
    BY <1>t, <1>1, NoneStopsBeforeCrash DEF TurnOnScreen
  <1>4. \A p \in Player : ~ Notify(p) /\ ~ Disconnect(p)
    BY <1>2 DEF Notify, Disconnect
  <1>5. \A p, x \in Player : ~ TimeOut(p, x) /\ ~ VoteFor(p, x)
    BY <1>2 DEF TimeOut, VoteFor
  <1>6. \/ \E p \in Player : ExecuteFrame(p) \/ Crash(p)
        \/ \E p, x \in Player : Arrive(p, x)
    BY <1>2, <1>3, <1>4, <1>5 DEF Next
  <1>7. ASSUME NEW p \in Player, ExecuteFrame(p) PROVE Calm'
    <2>1. UNCHANGED <<crashed, removedAt, dframe, received, votes, wire>>
      BY <1>2, <1>7 DEF ExecuteFrame, ScreenOff
    <2>2. /\ screen' = [screen EXCEPT ![p] = FALSE]
          /\ timedOut' = [timedOut EXCEPT ![p] = {}]
      BY <1>7 DEF ExecuteFrame
    <2> QED BY <1>t, <1>1, <2>1, <2>2 DEF Calm, TypeOK
  <1>8. ASSUME NEW p \in Player, Crash(p) PROVE Calm'
    BY <1>8 DEF Crash
  <1>9. ASSUME NEW p \in Player, NEW x \in Player, Arrive(p, x) PROVE Calm'
    BY <1>9 DEF Arrive, screenVars, Calm
  <1> QED BY <1>6, <1>7, <1>8, <1>9

LEMMA FrameGrows ==
  ASSUME TypeOK, [Next]_vars, NEW p \in Player
  PROVE  \/ frame'[p] = frame[p]
         \/ ExecuteFrame(p) /\ frame'[p] = frame[p] + 1
  <1>1. \/ frame' = frame
        \/ \E q \in Player : ExecuteFrame(q) /\ frame' = [frame EXCEPT ![q] = @ + 1]
    BY ZenonT(40) DEF Next, vars, Receive, TurnOnScreen, Notify, Disconnect, ExecuteFrame, Crash, Arrive, TimeOut,
           VoteFor, ReceiveData, ReceiveFrame, ReceiveScreenOff, ReceiveVote, ReceivePlayer
  <1> QED BY <1>1 DEF TypeOK

LEMMA CrashedGrows ==
  ASSUME [Next]_vars
  PROVE  crashed \subseteq crashed'
  BY ZenonT(40) DEF Next, vars, Receive, TurnOnScreen, Notify, Disconnect, ExecuteFrame, Crash, Arrive, TimeOut,
         VoteFor, ReceiveData, ReceiveFrame, ReceiveScreenOff, ReceiveVote, ReceivePlayer

\* A player is removed once, at the frame of who removes him.
LEMMA RemovedGrows ==
  ASSUME TypeOK, [Next]_vars, NEW p \in Player, NEW x \in Player
  PROVE  \/ removedAt'[p][x] = removedAt[p][x]
         \/ /\ removedAt[p][x] = 0 /\ removedAt'[p][x] = frame[p] /\ x \in Others(p)
            /\ \/ Disconnect(p) /\ x \in Out(p)
               \/ \E m \in wire[p] : ReceivePlayer(p, m) /\ m.slot = x
  <1>0. removedAt \in [Player -> [Player -> 0 .. MaxFrame + 1]]
    BY DEF TypeOK
  <1>1. \/ removedAt' = removedAt
        \/ \E q \in Player : Disconnect(q)
        \/ \E q \in Player : \E m \in wire[q] : ReceivePlayer(q, m)
    BY ZenonT(40) DEF Next, vars, Receive, TurnOnScreen, Notify, ExecuteFrame, Crash, Arrive, TimeOut,
           VoteFor, ReceiveData, ReceiveFrame, ReceiveScreenOff, ReceiveVote
  <1>2. ASSUME NEW q \in Player, Disconnect(q), removedAt'[p][x] # removedAt[p][x]
        PROVE  /\ removedAt[p][x] = 0 /\ removedAt'[p][x] = frame[p] /\ x \in Others(p)
               /\ Disconnect(p) /\ x \in Out(p)
    <2>1. removedAt' = [removedAt EXCEPT ![q] =
                          [y \in Player |-> IF y \in Out(q) THEN frame[q] ELSE @[y]]]
      BY <1>2 DEF Disconnect
    <2>2. p = q /\ x \in Out(p) /\ removedAt'[p][x] = frame[p]
      BY <1>0, <1>2, <2>1
    <2> QED BY <1>2, <2>2 DEF Out, Others, Connected
  <1>3. ASSUME NEW q \in Player, NEW m \in wire[q], ReceivePlayer(q, m), removedAt'[p][x] # removedAt[p][x]
        PROVE  /\ removedAt[p][x] = 0 /\ removedAt'[p][x] = frame[p] /\ x \in Others(p)
               /\ p = q /\ m.slot = x
    <2>1. removedAt' = [removedAt EXCEPT ![q][m.slot] = frame[q]] /\ m.slot \in Others(q)
      BY <1>3 DEF ReceivePlayer, Pending
    <2>2. p = q /\ m.slot = x /\ removedAt'[p][x] = frame[p]
      BY <1>0, <1>3, <2>1
    <2> QED BY <2>1, <2>2 DEF Others, Connected
  <1> QED BY <1>1, <1>2, <1>3

LEMMA VotesKept ==
  ASSUME TypeOK, [Next]_vars, NEW p \in Player, NEW x \in Player, NEW v \in Player
  PROVE  \/ votes'[p][x][v] \in {0, votes[p][x][v]}
         \/ x \in Votable
         \/ \E m \in wire[p] : m.type = "vote" /\ m.slot = x
  <1>0. votes \in [Player -> [Player -> [Player -> 0 .. MaxFrame + 1]]]
    BY DEF TypeOK
  <1>1. ASSUME NEW q \in Player, NEW w \in Player, NEW f, votes' = [votes EXCEPT ![q] = WithoutVotes(q, w, f)]
        PROVE  votes'[p][x][v] \in {0, votes[p][x][v]}
    BY <1>0, <1>1, WithoutVotesType
  <1>2. ASSUME NEW q \in Player, NEW y \in Player, VoteFor(q, y)
        PROVE  votes'[p][x][v] = votes[p][x][v] \/ x \in Votable
    BY <1>0, <1>2 DEF VoteFor
  <1>3. ASSUME NEW q \in Player, ExecuteFrame(q)
        PROVE  votes'[p][x][v] \in {0, votes[p][x][v]}
    <2> DEFINE w == [y \in Player |-> [votes[q][y] EXCEPT ![q] = 0]]
    <2>1. votes' = votes \/ votes' = [votes EXCEPT ![q] = w]
      BY <1>0, <1>3 DEF ExecuteFrame, ScreenOff
    <2>2. w[x][v] \in {0, votes[q][x][v]}
      BY <1>0
    <2> HIDE DEF w
    <2> QED BY <1>0, <2>1, <2>2
  <1>4. ASSUME NEW q \in Player, NEW m \in wire[q], ReceiveVote(q, m)
        PROVE  votes'[p][x][v] = votes[p][x][v] \/ (p = q /\ m.type = "vote" /\ m.slot = x)
    BY <1>0, <1>4 DEF ReceiveVote
  <1>5. ASSUME NEW q \in Player, NEW m \in wire[q], ReceiveFrame(q, m) \/ ReceiveScreenOff(q, m)
        PROVE  votes'[p][x][v] \in {0, votes[p][x][v]}
    <2>1. m.from \in Player
      BY DEF TypeOK, Messages
    <2>2. \E f : votes' = [votes EXCEPT ![q] = WithoutVotes(q, m.from, f)]
      BY <1>5 DEF ReceiveFrame, ReceiveScreenOff
    <2> QED BY <1>1, <2>1, <2>2
  <1>6. ASSUME NEW q \in Player, Notify(q)
        PROVE  votes'[p][x][v] \in {0, votes[p][x][v]}
    BY <1>1, <1>6 DEF Notify
  <1>7. \/ votes' = votes
        \/ \E q \in Player : ExecuteFrame(q) \/ Notify(q)
        \/ \E q, y \in Player : VoteFor(q, y)
        \/ \E q \in Player : \E m \in wire[q] :
              ReceiveVote(q, m) \/ ReceiveFrame(q, m) \/ ReceiveScreenOff(q, m)
    BY DEF Next, vars, screenVars, Receive, TurnOnScreen, Disconnect, Crash, Arrive, TimeOut,
           ReceiveData, ReceivePlayer
  <1> QED BY <1>2, <1>3, <1>4, <1>5, <1>6, <1>7

LEMMA NextSilent ==
  ASSUME NEW c, Base(c), [Next]_vars
  PROVE  Silent(c)'
  <1>t. TypeOK /\ Types /\ CrashedGo /\ Silent(c) /\ Prompt
    BY DEF Base, Types, OneCrash
  <1>b. /\ c \in Player /\ c \notin Rest(c)
        /\ \A p \in Player : In(p) /\ (screen[p] \/ wire[p] # {}) => p \in Rest(c)
        /\ In(c) => crashed = {}
    BY BaseFacts DEF In
  <1>1. ~ screen'[c]
    <2>1. ~ TurnOnScreen(c)
      BY <1>t, <1>b, NoneStopsBeforeCrash DEF TurnOnScreen, Stuck
    <2>2. \/ screen' = screen
          \/ \E p \in Player : ExecuteFrame(p) /\ screen' = [screen EXCEPT ![p] = FALSE]
          \/ \E p \in Player \ {c} : screen' = [screen EXCEPT ![p] = TRUE]
      BY <2>1, ZenonT(40) DEF Next, vars, screenVars, Receive, TurnOnScreen, Notify, Disconnect, ExecuteFrame, Crash,
             Arrive, TimeOut, VoteFor, ReceiveData, ReceiveFrame, ReceiveScreenOff, ReceiveVote, ReceivePlayer
    <2> QED BY <1>t, <1>b, <2>2 DEF Silent, TypeOK
  <1>2. ASSUME NEW x \in Player PROVE removedAt'[c][x] = 0
    <2>1. ~ Disconnect(c)
      BY <1>t DEF Silent, Disconnect
    <2>2. \A m \in wire[c] : ~ ReceivePlayer(c, m)
      BY <1>b DEF ReceivePlayer, Pending, Accepted
    <2> QED BY <1>t, <1>b, <2>1, <2>2, RemovedGrows DEF Silent
  <1>3. ASSUME NEW q \in Player, NEW m \in wire'[q]
        PROVE  /\ m.by # c /\ (m.type # "data" => m.from # c)
               /\ m.type = "vote" => m.slot \in Votable
    <2>1. CASE m \in wire[q]
      BY <1>t, <2>1 DEF Silent
    <2>2. CASE m \notin wire[q]
      <3>1. PICK p \in Player : In(p) /\ (screen[p] \/ wire[p] # {}) /\ SentBy(p, m)
        BY <1>t, <2>2, WireGrows
      <3>2. p # c
        BY <1>b, <3>1
      <3> QED BY <3>1, <3>2 DEF SentBy, Note
    <2> QED BY <2>1, <2>2
  <1>4. ASSUME NEW p \in Player, NEW x \in Player, NEW v \in Player, votes'[p][x][v] # 0
        PROVE  x \in Votable
    BY <1>t, <1>4, VotesKept DEF Silent
  <1> QED BY <1>1, <1>2, <1>3, <1>4 DEF Silent

LEMMA InitBase ==
  ASSUME NEW c
  PROVE  OneCrash(c) /\ Init => Base(c)
  <1> SUFFICES ASSUME OneCrash(c), Init PROVE Base(c)
    OBVIOUS
  <1>1. c \in Player
    BY DisconnectionAssumption DEF OneCrash
  <1>2. Calm
    BY DEF Init, Calm
  <1>3. Silent(c)
    BY <1>1 DEF Init, Silent
  <1>4. crashed = {}
    BY DEF Init
  <1> QED BY <1>2, <1>3, <1>4, InitTypes, InitCrashedGo DEF Base

LEMMA NextBase ==
  ASSUME NEW c, Base(c), [Next]_vars, crashed' \subseteq {c}
  PROVE  Base(c)'
  <1>1. VotesOnCrashed /\ Types /\ CrashedGo /\ OneCrash(c) /\ Prompt /\ Calm
    BY BaseFacts DEF Base, OneCrash
  <1>2. Types' /\ CrashedGo'
    BY <1>1, NextTypes, NextCrashedGo
  <1>3. Calm' /\ Silent(c)'
    BY <1>1, NextCalm, NextSilent
  <1> QED BY <1>1, <1>2, <1>3 DEF Base, OneCrash

-----------------------------------------------------------------------------
(* One player crashes: his commands, and the frames that are told.          *)

FromCrasher(c, m) == m.type = "data" /\ m.from = c

\* Who has not removed him has run the frames he has the commands of; nobody
\* has any that were not announced, or is sent any that nobody is past.
Commands(c) ==
  /\ \A q \in Rest(c) : removedAt[q][c] = 0 => frame[q] <= upto[q][c] + 1
  /\ \A q \in Rest(c) : upto[q][c] < frame[c] + RunAhead
  /\ c \in crashed => frame[c] + RunAhead <= MaxFrame
  /\ \A q \in Player : \A m \in wire[q] : FromCrasher(c, m) =>
       m.frame < frame[c] + RunAhead /\ \E y \in Rest(c) : m.frame < frame[y]

HasTold(q, x, f) == \E m \in wire[q] : m.type = "frame" /\ m.from = x /\ m.frame = f

\* Who has told his frame shows the screen, or has gone on and said so.
Told(c) ==
  /\ \A p \in Rest(c) : dframe[p][p] <= frame[p] /\ (screen[p] /\ notified[p] => dframe[p][p] = frame[p])
  /\ \A q, x \in Rest(c) : q # x /\ received[q][x] => HasTold(q, x, dframe[q][x])
  /\ \A q, x \in Rest(c) : \A f \in Frames : q # x /\ HasTold(q, x, f) =>
       \/ f = frame[x] /\ screen[x]
       \/ f < frame[x] /\ Note("off", x, x, f) \in wire[q]

LEMMA InitCommands ==
  ASSUME NEW c
  PROVE  OneCrash(c) /\ Init => Commands(c)
  <1> SUFFICES ASSUME OneCrash(c), Init PROVE Commands(c)
    OBVIOUS
  <1>1. c \in Troubled /\ c \in Player /\ RunAhead \in Nat \ {0} /\ Rest(c) \subseteq Player
    BY DisconnectionAssumption DEF OneCrash, Rest
  <1> QED BY <1>1 DEF Init, Commands

LEMMA InitTold ==
  ASSUME NEW c
  PROVE  Init => Told(c)
  BY DEF Init, Told, HasTold, Rest

LEMMA UptoKept ==
  ASSUME TypeOK, [Next]_vars, NEW q \in Player, NEW x \in Troubled
  PROVE  \/ upto'[q][x] = upto[q][x]
         \/ Arrive(q, x) /\ upto'[q][x] = upto[q][x] + 1
         \/ \E m \in wire[q] : /\ ReceiveData(q, m) /\ m.type = "data" /\ m.from = x
                              /\ m.frame = upto[q][x] + 1 /\ upto'[q][x] = m.frame
  <1>0. upto \in [Player -> [Troubled -> 0 .. MaxFrame + RunAhead]]
    BY DEF TypeOK
  <1>1. \/ upto' = upto
        \/ \E p, y \in Player : Arrive(p, y)
        \/ \E p \in Player : \E m \in wire[p] : ReceiveData(p, m)
    BY ZenonT(40) DEF Next, vars, Receive, TurnOnScreen, Notify, Disconnect, ExecuteFrame, Crash, TimeOut,
           VoteFor, ReceiveFrame, ReceiveScreenOff, ReceiveVote, ReceivePlayer
  <1>2. ASSUME NEW p \in Player, NEW y \in Player, Arrive(p, y), upto'[q][x] # upto[q][x]
        PROVE  Arrive(q, x) /\ upto'[q][x] = upto[q][x] + 1
    <2>1. y \in Troubled /\ upto' = [upto EXCEPT ![p][y] = upto[p][y] + 1]
      BY <1>0, <1>2 DEF Arrive
    <2>2. p = q /\ y = x
      BY <1>0, <1>2, <2>1
    <2> QED BY <1>0, <1>2, <2>1, <2>2
  <1>3. ASSUME NEW p \in Player, NEW m \in wire[p], ReceiveData(p, m), upto'[q][x] # upto[q][x]
        PROVE  /\ p = q /\ m.type = "data" /\ m.from = x
               /\ m.frame = upto[q][x] + 1 /\ upto'[q][x] = m.frame
    <2>1. /\ upto' = [upto EXCEPT ![p][m.from] = m.frame] /\ m.type = "data"
          /\ m.frame = upto[p][m.from] + 1
      BY <1>3 DEF ReceiveData, Pending
    <2>2. p = q /\ m.from = x /\ upto'[q][x] = m.frame
      BY <1>0, <1>3, <2>1
    <2> QED BY <2>1, <2>2
  <1> QED BY <1>1, <1>2, <1>3

LEMMA NextCommands ==
  ASSUME NEW c, Base(c), Commands(c), [Next]_vars
  PROVE  Commands(c)'
  <1>t. TypeOK /\ Silent(c) /\ Prompt /\ RunAhead \in Nat /\ MaxFrame \in Nat
    BY DisconnectionAssumption DEF Base, Types, OneCrash
  <1>b. /\ c \in Player /\ c \in Troubled /\ Rest(c) \subseteq Player
        /\ crashed = {} \/ crashed = {c}
        /\ \A p \in Player : In(p) /\ (screen[p] \/ wire[p] # {}) => p \in Rest(c)
        /\ \A p \in Rest(c) : p # c
    BY BaseFacts DEF Rest
  <1>0. /\ \A p \in Player : frame[p] \in Nat /\ frame'[p] \in Nat /\ frame[p] <= frame'[p]
        /\ \A q \in Player : upto[q][c] \in Nat
        /\ frame[c] \in Nat /\ frame'[c] \in Nat /\ frame[c] <= frame'[c]
    <2>1. \A p \in Player : frame[p] \in Nat
      BY <1>t DEF TypeOK, Frames
    <2>2. \A p \in Player : frame'[p] = frame[p] \/ frame'[p] = frame[p] + 1
      BY <1>t, FrameGrows
    <2>3. \A q \in Player : upto[q][c] \in Nat
      BY <1>t, <1>b DEF TypeOK
    <2>4. \A p \in Player : frame'[p] \in Nat /\ frame[p] <= frame'[p]
      BY <2>1, <2>2
    <2> QED BY <1>b, <2>1, <2>3, <2>4
  <1>m. \A q \in Player : \A m \in wire[q] : m.frame \in Nat
    BY <1>t DEF TypeOK, Messages, Frames
  <1>1. ASSUME NEW q \in Rest(c)
        PROVE  /\ upto'[q][c] \in Nat /\ upto[q][c] <= upto'[q][c]
               /\ upto'[q][c] < frame[c] + RunAhead
    <2>0. upto[q][c] \in Nat /\ upto[q][c] < frame[c] + RunAhead /\ q \in Player
      BY <1>b, <1>0 DEF Commands
    <2>1. CASE upto'[q][c] = upto[q][c]
      BY <2>0, <2>1
    <2>2. CASE Arrive(q, c) /\ upto'[q][c] = upto[q][c] + 1
      <3>1. upto[q][c] < frame[c] + RunAhead - 1
        <4>1. Connected(c, q)
          BY <1>t, <2>0 DEF Silent, Connected
        <4> QED BY <1>t, <1>b, <2>0, <2>2, <4>1, AheadOfAnnounced DEF Arrive
      <3> QED BY <1>t, <1>0, <2>0, <2>2, <3>1
    <2>3. ASSUME NEW m \in wire[q], m.type = "data", m.from = c,
                 m.frame = upto[q][c] + 1, upto'[q][c] = m.frame
          PROVE  /\ upto'[q][c] \in Nat /\ upto[q][c] <= upto'[q][c]
                 /\ upto'[q][c] < frame[c] + RunAhead
      BY <2>0, <2>3 DEF Commands, FromCrasher
    <2> QED BY <1>t, <1>b, <2>0, <2>1, <2>2, <2>3, UptoKept
  <1>2. ASSUME NEW q \in Rest(c), removedAt'[q][c] = 0
        PROVE  frame'[q] <= upto'[q][c] + 1
    <2>1. removedAt[q][c] = 0 /\ frame[q] \in Nat /\ frame[q] # 0 /\ q \in Player
      BY <1>t, <1>b, <1>2, RemovedGrows DEF TypeOK, Frames
    <2>2. frame[q] <= upto[q][c] + 1 /\ upto[q][c] <= upto'[q][c]
      BY <1>1, <2>1 DEF Commands
    <2>3. CASE frame'[q] = frame[q]
      BY <1>0, <1>1, <2>1, <2>2, <2>3
    <2>4. CASE ExecuteFrame(q) /\ frame'[q] = frame[q] + 1
      <3>1. frame[q] <= upto[q][c]
        BY <1>b, <2>1, <2>4 DEF ExecuteFrame, Ready, UpTo, Others, Connected
      <3> QED BY <1>0, <1>1, <2>1, <2>2, <2>4, <3>1
    <2> QED BY <1>t, <2>1, <2>3, <2>4, FrameGrows
  <1>3. ASSUME NEW q \in Rest(c) PROVE upto'[q][c] < frame'[c] + RunAhead
    BY <1>t, <1>0, <1>1
  <1>4. ASSUME c \in crashed' PROVE frame'[c] + RunAhead <= MaxFrame
    <2>1. CASE c \in crashed
      BY <1>t, <1>b, <2>1, FrameGrows DEF Commands, ExecuteFrame, In
    <2>2. CASE c \notin crashed
      <3>1. PICK p \in Player : Crash(p)
        BY <1>4, <2>2, ZenonT(40) DEF Next, vars, Receive, TurnOnScreen, Notify, Disconnect, ExecuteFrame, Arrive,
           TimeOut, VoteFor, ReceiveData, ReceiveFrame, ReceiveScreenOff, ReceiveVote, ReceivePlayer
      <3> QED BY <1>4, <2>2, <3>1 DEF Crash
    <2> QED BY <2>1, <2>2
  <1>5. ASSUME NEW q \in Player, NEW m \in wire'[q], FromCrasher(c, m)
        PROVE  m.frame < frame'[c] + RunAhead /\ \E y \in Rest(c) : m.frame < frame'[y]
    <2>1. CASE m \in wire[q]
      <3>1. m.frame \in Nat /\ m.frame < frame[c] + RunAhead
        BY <1>m, <1>5, <2>1 DEF Commands
      <3>2. PICK y \in Rest(c) : m.frame < frame[y]
        BY <1>5, <2>1 DEF Commands
      <3>3. m.frame < frame'[y]
        BY <1>b, <1>0, <3>1, <3>2
      <3> QED BY <1>t, <1>0, <3>1, <3>3
    <2>2. CASE m \notin wire[q]
      <3>1. PICK p \in Player : In(p) /\ (screen[p] \/ wire[p] # {}) /\ SentBy(p, m)
        BY <1>t, <2>2, WireGrows
      <3>2. p \in Rest(c) /\ removedAt[p][c] = 0 /\ m.frame < frame[p]
        BY <1>b, <1>5, <3>1 DEF SentBy, FromCrasher, Connected, Note
      <3>3. m.frame \in Nat
        BY <1>b, <1>5, NextTypes, SMTT(30) DEF Base, Types, TypeOK, Messages, Frames
      <3>4. frame[p] <= upto[p][c] + 1 /\ upto[p][c] < frame[c] + RunAhead
        BY <3>2 DEF Commands
      <3>5. m.frame < frame'[p] /\ m.frame < frame'[c] + RunAhead
        BY <1>t, <1>b, <1>0, <3>2, <3>3, <3>4
      <3> QED BY <3>2, <3>5
    <2> QED BY <2>1, <2>2
  <1> QED BY <1>2, <1>3, <1>4, <1>5 DEF Commands, FromCrasher

LEMMA ReceivedKept ==
  ASSUME TypeOK, [Next]_vars, NEW q \in Player, NEW x \in Player, q # x
  PROVE  \/ received'[q][x] = received[q][x] /\ dframe'[q][x] = dframe[q][x]
         \/ \E m \in wire[q] : /\ m.type = "frame" /\ m.from = x /\ dframe[q][x] < m.frame
                              /\ received'[q][x] = TRUE /\ dframe'[q][x] = m.frame
         \/ \E m \in wire[q] : /\ m.type = "off" /\ m.from = x /\ dframe[q][x] <= m.frame
                              /\ received'[q][x] = FALSE /\ dframe'[q][x] = m.frame
  <1>0. /\ received \in [Player -> [Player -> BOOLEAN]]
        /\ dframe \in [Player -> [Player -> 0 .. MaxFrame + 1]]
        /\ \A p \in Player : \A m \in wire[p] : m.from \in Player
    BY DEF TypeOK, Messages
  <1>1. \/ UNCHANGED <<received, dframe>>
        \/ \E p \in Player : Notify(p) \/ ExecuteFrame(p)
        \/ \E p \in Player : \E m \in wire[p] : ReceiveFrame(p, m) \/ ReceiveScreenOff(p, m)
    BY ZenonT(40) DEF Next, vars, screenVars, Receive, TurnOnScreen, Disconnect, Crash, Arrive, TimeOut,
           VoteFor, ReceiveData, ReceiveVote, ReceivePlayer
  <1>2. ASSUME NEW p \in Player, Notify(p) \/ ExecuteFrame(p)
        PROVE  received'[q][x] = received[q][x] /\ dframe'[q][x] = dframe[q][x]
    <2>1. \/ UNCHANGED <<received, dframe>>
          \/ \E b \in BOOLEAN : /\ received' = [received EXCEPT ![p][p] = b]
                             /\ dframe' = [dframe EXCEPT ![p][p] = frame[p]]
      BY <1>2 DEF Notify, ExecuteFrame, ScreenOff
    <2> QED BY <1>0, <2>1
  <1>3. ASSUME NEW p \in Player, NEW m \in wire[p], ReceiveFrame(p, m)
        PROVE  \/ received'[q][x] = received[q][x] /\ dframe'[q][x] = dframe[q][x]
               \/ /\ p = q /\ m.type = "frame" /\ m.from = x /\ dframe[q][x] < m.frame
                  /\ received'[q][x] = TRUE /\ dframe'[q][x] = m.frame
    <2>1. /\ received' = [received EXCEPT ![p][m.from] = TRUE]
          /\ dframe' = [dframe EXCEPT ![p][m.from] = m.frame]
          /\ m.type = "frame" /\ dframe[p][m.from] < m.frame
      BY <1>3 DEF ReceiveFrame, Pending
    <2> QED BY <1>0, <2>1
  <1>4. ASSUME NEW p \in Player, NEW m \in wire[p], ReceiveScreenOff(p, m)
        PROVE  \/ received'[q][x] = received[q][x] /\ dframe'[q][x] = dframe[q][x]
               \/ /\ p = q /\ m.type = "off" /\ m.from = x /\ dframe[q][x] <= m.frame
                  /\ received'[q][x] = FALSE /\ dframe'[q][x] = m.frame
    <2>1. /\ received' = [received EXCEPT ![p][m.from] = FALSE]
          /\ dframe' = [dframe EXCEPT ![p][m.from] = m.frame]
          /\ m.type = "off" /\ dframe[p][m.from] <= m.frame
      BY <1>4 DEF ReceiveScreenOff, Pending
    <2> QED BY <1>0, <2>1
  <1> QED BY <1>1, <1>2, <1>3, <1>4

\* A frame that is told now is that of a screen.
LEMMA ToldGrows ==
  ASSUME NEW c, Base(c), [Next]_vars, NEW q \in Rest(c), NEW x \in Rest(c), NEW f
  PROVE  /\ HasTold(q, x, f) => HasTold(q, x, f)'
         /\ HasTold(q, x, f)' => HasTold(q, x, f) \/ (f = frame[x] /\ Notify(x))
  <1>0. TypeOK /\ q \in Player
    BY DEF Base, Types, Rest
  <1>1. HasTold(q, x, f) => HasTold(q, x, f)'
    BY <1>0, WireGrows DEF HasTold
  <1>2. ASSUME HasTold(q, x, f)', ~ HasTold(q, x, f)
        PROVE  f = frame[x] /\ Notify(x)
    <2>1. PICK m \in wire'[q] \ wire[q] : m.type = "frame" /\ m.from = x /\ m.frame = f
      BY <1>2 DEF HasTold
    <2>2. PICK p \in Player : SentBy(p, m)
      BY <1>0, <2>1, WireGrows
    <2> QED BY <2>1, <2>2 DEF SentBy, Note
  <1> QED BY <1>1, <1>2

LEMMA ScreenKept ==
  ASSUME TypeOK, [Next]_vars, NEW p \in Player
  PROVE  \/ screen'[p] = screen[p] /\ (ExecuteFrame(p) => ~ screen[p])
         \/ ExecuteFrame(p) /\ screen[p] /\ ~ screen'[p]
         \/ TurnOnScreen(p) /\ ~ screen[p] /\ screen'[p]
  <1>1. \/ screen' = screen /\ ~ ExecuteFrame(p)
        \/ \E q \in Player : ExecuteFrame(q)
        \/ \E q \in Player : TurnOnScreen(q)
    BY ZenonT(40) DEF Next, vars, screenVars, Receive, Notify, Disconnect, Crash, Arrive, TimeOut, VoteFor,
           ReceiveData, ReceiveFrame, ReceiveScreenOff, ReceiveVote, ReceivePlayer
  <1>2. \A q, r \in Player : ExecuteFrame(q) /\ (ExecuteFrame(r) \/ TurnOnScreen(r)) => q = r /\ ExecuteFrame(r)
    <2>1. \A q \in Player : ExecuteFrame(q) => frame' = [frame EXCEPT ![q] = @ + 1]
      BY DEF ExecuteFrame
    <2>2. \A q \in Player : TurnOnScreen(q) => frame' = frame
      BY DEF TurnOnScreen
    <2>3. \A q \in Player : frame[q] \in Nat /\ frame[q] # frame[q] + 1
      BY DEF TypeOK, Frames
    <2> QED BY <2>1, <2>2, <2>3 DEF TypeOK
  <1>3. ASSUME NEW q \in Player, ExecuteFrame(q)
        PROVE  \/ p # q /\ screen'[p] = screen[p] /\ ~ ExecuteFrame(p)
               \/ p = q /\ screen'[p] = FALSE
    <2>1. screen' = [screen EXCEPT ![q] = FALSE]
      BY <1>3 DEF ExecuteFrame
    <2> QED BY <1>2, <1>3, <2>1 DEF TypeOK
  <1>4. ASSUME NEW q \in Player, TurnOnScreen(q)
        PROVE  /\ ~ ExecuteFrame(p)
               /\ \/ p # q /\ screen'[p] = screen[p]
                  \/ p = q /\ ~ screen[p] /\ screen'[p]
    <2>1. screen' = [screen EXCEPT ![q] = TRUE] /\ ~ screen[q]
      BY <1>4 DEF TurnOnScreen
    <2>2. ~ ExecuteFrame(p)
      <3>1. \A r \in Player : frame[r] \in Nat /\ frame[r] # frame[r] + 1
        BY DEF TypeOK, Frames
      <3> QED BY <1>4, <3>1 DEF TurnOnScreen, ExecuteFrame, TypeOK
    <2> QED BY <2>1, <2>2 DEF TypeOK
  <1>5. screen[p] = TRUE \/ screen[p] = FALSE
    BY DEF TypeOK
  <1>6. ASSUME NEW q \in Player, ExecuteFrame(q)
        PROVE  \/ screen'[p] = screen[p] /\ (ExecuteFrame(p) => ~ screen[p])
               \/ ExecuteFrame(p) /\ screen[p] /\ ~ screen'[p]
    BY <1>3, <1>5, <1>6
  <1>7. ASSUME NEW q \in Player, TurnOnScreen(q)
        PROVE  \/ screen'[p] = screen[p] /\ (ExecuteFrame(p) => ~ screen[p])
               \/ TurnOnScreen(p) /\ ~ screen[p] /\ screen'[p]
    BY <1>4, <1>7
  <1> QED BY <1>1, <1>6, <1>7

LEMMA OwnKept ==
  ASSUME TypeOK, [Next]_vars, NEW p \in Player
  PROVE  \/ /\ frame'[p] = frame[p] /\ dframe'[p][p] = dframe[p][p]
            /\ screen'[p] = screen[p] /\ notified'[p] = notified[p]
         \/ frame'[p] = frame[p] /\ dframe'[p][p] = dframe[p][p] /\ ~ notified'[p]
         \/ /\ frame'[p] = frame[p]
            /\ \/ dframe'[p][p] = frame[p]
               \/ dframe[p][p] >= frame[p] /\ dframe'[p][p] = dframe[p][p]
         \/ /\ frame'[p] = frame[p] + 1 /\ ~ screen'[p]
            /\ dframe'[p][p] = frame[p] \/ dframe'[p][p] = dframe[p][p]
  <1>0. /\ frame \in [Player -> Frames] /\ screen \in [Player -> BOOLEAN]
        /\ notified \in [Player -> BOOLEAN]
        /\ dframe \in [Player -> [Player -> 0 .. MaxFrame + 1]]
        /\ \A q \in Player : \A m \in wire[q] : m.from \in Player
    BY DEF TypeOK, Messages
  <1>1. ASSUME NEW q \in Player, TurnOnScreen(q)
        PROVE  /\ frame'[p] = frame[p] /\ dframe'[p][p] = dframe[p][p]
               /\ ~ notified'[p] \/ (screen'[p] = screen[p] /\ notified'[p] = notified[p])
    BY <1>0, <1>1 DEF TurnOnScreen
  <1>2. ASSUME NEW q \in Player, Notify(q)
        PROVE  /\ frame'[p] = frame[p]
               /\ \/ /\ dframe'[p][p] = dframe[p][p] /\ screen'[p] = screen[p]
                     /\ notified'[p] = notified[p]
                  \/ dframe'[p][p] = frame[p]
                  \/ dframe[p][p] >= frame[p] /\ dframe'[p][p] = dframe[p][p]
    <2>1. /\ frame' = frame /\ screen' = screen /\ notified' = [notified EXCEPT ![q] = TRUE]
          /\ \/ dframe' = [dframe EXCEPT ![q][q] = frame[q]]
             \/ dframe' = dframe /\ dframe[q][q] >= frame[q]
      BY <1>2 DEF Notify
    <2>2. CASE p = q
      <3>1. dframe'[p][p] = frame[p] \/ (dframe'[p][p] = dframe[p][p] /\ dframe[p][p] >= frame[p])
        BY <1>0, <2>1, <2>2
      <3> QED BY <2>1, <3>1
    <2>3. CASE p # q
      BY <1>0, <2>1, <2>3
    <2> QED BY <2>2, <2>3
  <1>3. ASSUME NEW q \in Player, ExecuteFrame(q)
        PROVE  \/ /\ frame'[p] = frame[p] /\ dframe'[p][p] = dframe[p][p]
                  /\ screen'[p] = screen[p] /\ notified'[p] = notified[p]
               \/ /\ frame'[p] = frame[p] + 1 /\ ~ screen'[p]
                  /\ dframe'[p][p] = frame[p] \/ dframe'[p][p] = dframe[p][p]
    <2>1. /\ frame' = [frame EXCEPT ![q] = @ + 1] /\ screen' = [screen EXCEPT ![q] = FALSE]
          /\ notified' = notified
          /\ dframe' = [dframe EXCEPT ![q][q] = frame[q]] \/ dframe' = dframe
      BY <1>3 DEF ExecuteFrame, ScreenOff
    <2>2. CASE p = q
      <3>1. dframe'[p][p] = frame[p] \/ dframe'[p][p] = dframe[p][p]
        BY <1>0, <2>1, <2>2
      <3>2. frame'[p] = frame[p] + 1 /\ ~ screen'[p]
        BY <1>0, <2>1, <2>2
      <3> QED BY <3>1, <3>2
    <2>3. CASE p # q
      BY <1>0, <2>1, <2>3
    <2> QED BY <2>2, <2>3
  <1>4. ASSUME NEW q \in Player, NEW m \in wire[q], ReceiveFrame(q, m) \/ ReceiveScreenOff(q, m)
        PROVE  /\ frame'[p] = frame[p] /\ dframe'[p][p] = dframe[p][p]
               /\ screen'[p] = screen[p] /\ notified'[p] = notified[p]
    <2>1. /\ frame' = frame /\ screen' = screen /\ notified' = notified
          /\ dframe' = [dframe EXCEPT ![q][m.from] = m.frame] /\ m.from # q
      BY <1>4 DEF ReceiveFrame, ReceiveScreenOff, Pending, Accepted, Others
    <2> QED BY <1>0, <2>1
  <1>5. \/ UNCHANGED <<frame, screen, notified, dframe>>
        \/ \E q \in Player : TurnOnScreen(q) \/ Notify(q) \/ ExecuteFrame(q)
        \/ \E q \in Player : \E m \in wire[q] : ReceiveFrame(q, m) \/ ReceiveScreenOff(q, m)
    BY ZenonT(40) DEF Next, vars, screenVars, Receive, Disconnect, Crash, Arrive, TimeOut, VoteFor,
           ReceiveData, ReceiveVote, ReceivePlayer
  <1>6. CASE UNCHANGED <<frame, screen, notified, dframe>>
    BY <1>6
  <1> QED BY <1>1, <1>2, <1>3, <1>4, <1>5, <1>6

LEMMA NextTold ==
  ASSUME NEW c, Base(c), Told(c), [Next]_vars
  PROVE  Told(c)'
  <1>t. TypeOK /\ Rest(c) \subseteq Player /\ \A p, q \in Rest(c) : Connected(p, q)
    BY BaseFacts DEF Base, Types
  <1>0. \A p \in Player : frame[p] \in Nat
    BY <1>t DEF TypeOK, Frames
  <1>1. ASSUME NEW p \in Rest(c)
        PROVE  /\ dframe'[p][p] <= frame'[p]
               /\ screen'[p] /\ notified'[p] => dframe'[p][p] = frame'[p]
    <2>1. /\ frame[p] \in Nat /\ dframe[p][p] \in Nat /\ dframe[p][p] <= frame[p]
          /\ screen[p] /\ notified[p] => dframe[p][p] = frame[p]
      BY <1>t, <1>0 DEF Told, TypeOK
    <2> QED BY <1>t, <2>1, OwnKept
  <1>2. ASSUME NEW q \in Rest(c), NEW x \in Rest(c), q # x, received'[q][x]
        PROVE  HasTold(q, x, dframe[q][x])'
    <2>1. CASE received'[q][x] = received[q][x] /\ dframe'[q][x] = dframe[q][x]
      <3>1. HasTold(q, x, dframe[q][x])
        BY <1>2, <2>1 DEF Told
      <3>2. HasTold(q, x, dframe[q][x]) => \E m \in wire'[q] : m.type = "frame" /\ m.from = x /\ m.frame = dframe[q][x]
        BY <1>t, WireGrows DEF HasTold
      <3> QED BY <2>1, <3>1, <3>2 DEF HasTold
    <2>2. ASSUME NEW m \in wire[q], m.type = "frame", m.from = x, dframe'[q][x] = m.frame
          PROVE  HasTold(q, x, dframe[q][x])'
      <3>1. m \in wire'[q]
        BY <1>t, WireGrows
      <3> QED BY <2>2, <3>1 DEF HasTold
    <2> QED BY <1>t, <1>2, <2>1, <2>2, ReceivedKept
  <1>3. ASSUME NEW q \in Rest(c), NEW x \in Rest(c), NEW f \in Frames, q # x, HasTold(q, x, f)'
        PROVE  \/ f = frame'[x] /\ screen'[x]
               \/ f < frame'[x] /\ Note("off", x, x, f) \in wire'[q]
    <2>1. x \in Player /\ q \in Player /\ frame[x] \in Nat /\ f \in Nat
      BY <1>t, <1>0 DEF Frames
    <2>2. CASE f = frame[x] /\ Notify(x)
      BY <2>1, <2>2 DEF Notify
    <2>3. CASE f = frame[x] /\ screen[x]
      <3>1. CASE ExecuteFrame(x)
        <4>1. wire' = SentByAll(x, {Note("off", x, x, f)})
          BY <2>3, <3>1 DEF ExecuteFrame, ScreenOff
        <4>2. q \in Others(x)
          BY <1>t, <1>3 DEF Others
        <4>3. Note("off", x, x, f) \in wire'[q]
          BY <2>1, <4>1, <4>2 DEF SentByAll
        <4>4. frame'[x] = frame[x] + 1
          BY <1>t, <2>1, <3>1 DEF ExecuteFrame, TypeOK
        <4> QED BY <2>1, <2>3, <4>3, <4>4
      <3>2. CASE ~ ExecuteFrame(x)
        <4>1. frame'[x] = frame[x] /\ screen'[x] = screen[x]
          BY <1>t, <2>1, <2>3, <3>2, FrameGrows, ScreenKept
        <4> QED BY <2>3, <4>1
      <3> QED BY <3>1, <3>2
    <2>4. CASE f < frame[x] /\ Note("off", x, x, f) \in wire[q]
      <3>1. Note("off", x, x, f) \in wire'[q]
        BY <1>t, <2>1, <2>4, WireGrows
      <3>2. f < frame'[x]
        BY <1>t, <2>1, <2>4, FrameGrows
      <3> QED BY <3>1, <3>2
    <2> QED BY <1>3, <2>2, <2>3, <2>4, ToldGrows DEF Told
  <1>4. \A q, x \in Rest(c) : \A f \in Frames : q # x /\ HasTold(q, x, f)' =>
          \/ f = frame'[x] /\ screen'[x]
          \/ f < frame'[x] /\ Note("off", x, x, f)' \in wire'[q]
    BY <1>3 DEF Note
  <1> QED BY <1>1, <1>2, <1>4 DEF Told

-----------------------------------------------------------------------------
(* One player crashes: where the others are when he is removed.             *)

NobodyRemoved(c) == \A p \in Rest(c) : removedAt[p][c] = 0

\* All have stopped where r has, for good.
Blocked(c, r) == \A q \in Rest(c) : frame[q] = frame[r] /\ upto[q][c] < frame[r]
\* Somebody is past r, and r will not take him to be where he is himself.
PassedBy(c, r, y) ==
  /\ y \in Rest(c) /\ frame[y] > frame[r] /\ ~ (received[r][y] /\ dframe[r][y] = frame[r])
  /\ HasTold(r, y, frame[r]) => dframe[r][y] >= frame[r]
\* Somebody has yet to come where r is, or to stop there.
Coming(c, r, w) == w \in Rest(c) /\ (frame[w] < frame[r] \/ (frame[w] = frame[r] /\ ~ screen[w]))

Settled(c, r) == Blocked(c, r) \/ \E y \in Rest(c) : PassedBy(c, r, y) \/ Coming(c, r, y)

OnScreen(c) == NobodyRemoved(c) => \A r \in Rest(c) : screen[r] => Settled(c, r)

\* Whoever has not removed him is stopped at the frame he is removed at.
RemovedAtFrame(c, f) ==
  /\ \A q \in Rest(c) :
       IF removedAt[q][c] = 0 THEN frame[q] = f /\ upto[q][c] < f
       ELSE removedAt[q][c] = f
  /\ \A q \in Player : \A m \in wire[q] : FromCrasher(c, m) => m.frame < f

RemovedAtOne(c) ==
  /\ \A q \in Player : \A m \in wire[q] : m.type = "player" => ~ NobodyRemoved(c)
  /\ ~ NobodyRemoved(c) => \E f \in Frames : RemovedAtFrame(c, f)

Moved(c) == Base(c) /\ Commands(c) /\ Told(c)

\* Where it is quiet, everybody knows who has gone on from where he is.
LEMMA QuietSettles ==
  ASSUME NEW c, Moved(c), NobodyRemoved(c), crashed # {},
         NEW p \in Rest(c), Quiet(p), NEW r \in Rest(c)
  PROVE  Blocked(c, r) \/ \E y \in Rest(c) : PassedBy(c, r, y) \/ frame[y] < frame[r]
  <1> USE DEF Moved
  <1>b. /\ Rest(c) \subseteq Player /\ c \in crashed /\ c \in Player /\ c \in Troubled
        /\ \A x \in Rest(c) : x \in Player \ crashed /\ In(x) /\ \A q \in Rest(c) : Connected(x, q)
        /\ \A x \in Player : x # c => x \in Rest(c)
    BY BaseFacts DEF Rest, In
  <1>t. Types /\ TypeOK /\ CrashedGo /\ RunAhead \in Nat /\ MaxFrame \in Nat
    BY DisconnectionAssumption DEF Base, Types
  <1>0. \A q \in Player : frame[q] \in Nat /\ upto[q][c] \in Nat /\ frame[q] \in Frames
    BY <1>t, <1>b DEF TypeOK, Frames
  <1>1. CASE \A y \in Rest(c) : frame[y] = frame[r]
    <2> SUFFICES ASSUME NEW q \in Rest(c) PROVE upto[q][c] < frame[r]
      BY <1>1 DEF Blocked
    <2>1. frame[q] <= upto[q][c] + 1 /\ upto[q][c] < frame[c] + RunAhead
          /\ frame[c] + RunAhead <= MaxFrame
      BY <1>b DEF Commands, NobodyRemoved
    <2>2. ~ (frame[q] > MaxFrame)
      BY <1>t, <1>b, <1>0, <2>1
    <2>3. q = p \/ q \in Others(p)
      BY <1>b DEF Others
    <2>4. ~ Ready(q)
      BY <1>b, <2>2, <2>3 DEF Quiet
    <2>5. PICK x \in Others(q) : ~ (frame[q] <= UpTo(q, x))
      BY <2>4 DEF Ready
    <2>6. CASE x = c
      BY <1>b, <1>0, <1>1, <2>5, <2>6 DEF UpTo
    <2>7. CASE x # c
      <3>1. x \in Rest(c) /\ x # q
        BY <1>b, <2>7 DEF Others
      <3>2. UpTo(q, x) >= frame[x] /\ UpTo(q, x) \in Int /\ frame[x] = frame[q]
        BY <1>t, <1>b, <1>1, <3>1, QuietUpTo
      <3> QED BY <1>b, <1>0, <2>5, <3>2
    <2> QED BY <2>6, <2>7
  <1>2. CASE \E y \in Rest(c) : frame[y] < frame[r]
    BY <1>2
  <1>3. ASSUME NEW y \in Rest(c), frame[y] > frame[r]
        PROVE  PassedBy(c, r, y)
    <2> DEFINE f == frame[r]
               off == Note("off", y, y, f)
    <2>1. f \in Nat /\ f \in Frames /\ frame[y] \in Nat /\ y # r /\ dframe[r][y] \in Nat
      BY <1>t, <1>b, <1>0, <1>3 DEF TypeOK
    <2>2. CASE ~ HasTold(r, y, f)
      BY <1>3, <2>1, <2>2 DEF PassedBy, Told
    <2>3. CASE HasTold(r, y, f)
      <3>1. off \in wire[r]
        BY <1>3, <2>1, <2>3 DEF Told
      <3>2. off.type = "off" /\ off.by = y /\ off.from = y /\ off.frame = f
        BY DEF Note
      <3> HIDE DEF off, f
      <3>3. ~ Pending(r, off) \/ KnownOff(r, off)
        <4>1. r = p \/ r \in Others(p)
          BY <1>b DEF Others
        <4> QED BY <1>b, <3>1, <3>2, <4>1 DEF Quiet
      <3>4. Accepted(r, off)
        BY <1>b, <2>1, <3>1, <3>2 DEF Accepted, Others
      <3>5. dframe[r][y] > f \/ (dframe[r][y] = f /\ ~ received[r][y])
        BY <2>1, <3>2, <3>3, <3>4 DEF Pending, KnownOff
      <3> QED BY <1>3, <2>1, <3>5 DEF PassedBy, f
    <2> QED BY <2>2, <2>3
  <1>4. \/ \A y \in Rest(c) : frame[y] = frame[r]
        \/ \E y \in Rest(c) : frame[y] < frame[r]
        \/ \E y \in Rest(c) : frame[y] > frame[r]
    BY <1>b, <1>0
  <1> QED BY <1>1, <1>2, <1>3, <1>4

LEMMA NobodyRemovedBefore ==
  ASSUME NEW c, Base(c), [Next]_vars, NobodyRemoved(c)'
  PROVE  NobodyRemoved(c)
  <1> SUFFICES ASSUME NEW p \in Rest(c) PROVE removedAt[p][c] = 0
    BY DEF NobodyRemoved
  <1>1. TypeOK /\ p \in Player /\ c \in Player /\ removedAt'[p][c] = 0
    BY BaseFacts DEF Base, Types, NobodyRemoved
  <1>2. frame[p] # 0
    BY <1>1 DEF TypeOK, Frames
  <1> QED BY <1>1, <1>2, RemovedGrows

LEMMA BlockedStays ==
  ASSUME NEW c, Moved(c), NobodyRemoved(c), crashed # {}, [Next]_vars,
         NEW r \in Rest(c), Blocked(c, r)
  PROVE  Blocked(c, r)'
  <1> SUFFICES ASSUME NEW q \in Rest(c)
               PROVE  frame'[q] = frame[q] /\ upto'[q][c] < frame[r]
    BY DEF Blocked, Rest
  <1> USE DEF Moved
  <1>b. /\ q \in Player /\ c \in Player /\ c \in Troubled /\ c \in crashed /\ q # c
    BY BaseFacts DEF Rest
  <1>t. /\ TypeOK /\ Prompt /\ frame[q] = frame[r] /\ upto[q][c] < frame[r]
        /\ frame[q] \in Nat /\ upto[q][c] \in Nat
    BY <1>b DEF Base, OneCrash, Types, TypeOK, Frames, Blocked
  <1>1. ~ ExecuteFrame(q)
    <2>1. c \in Others(q) /\ UpTo(q, c) = upto[q][c]
      BY <1>b DEF Others, Connected, NobodyRemoved, UpTo
    <2> QED BY <1>t, <2>1 DEF ExecuteFrame, Ready
  <1>2. ~ Arrive(q, c)
    BY <1>t, <1>b DEF Arrive, In
  <1>3. ASSUME NEW m \in wire[q], m.type = "data", m.from = c PROVE m.frame < frame[r]
    <2>1. PICK y \in Rest(c) : m.frame < frame[y]
      BY <1>b, <1>3 DEF Commands, FromCrasher
    <2> QED BY <2>1 DEF Blocked
  <1> QED BY <1>b, <1>t, <1>1, <1>2, <1>3, FrameGrows, UptoKept

LEMMA PassedStays ==
  ASSUME NEW c, Moved(c), [Next]_vars, NEW r \in Rest(c), NEW y \in Rest(c),
         PassedBy(c, r, y), frame'[r] = frame[r]
  PROVE  PassedBy(c, r, y)'
  <1> DEFINE f == frame[r]
  <1> USE DEF Moved
  <1>t. /\ TypeOK /\ r \in Player /\ y \in Player /\ frame[y] \in Nat /\ f \in Nat /\ dframe[r][y] \in Nat
        /\ \A m \in wire[r] : m.frame \in Nat
    <2>1. Types /\ TypeOK /\ r \in Player /\ y \in Player
      BY BaseFacts DEF Base, Types
    <2>2. /\ frame[y] \in Nat /\ f \in Nat /\ dframe[r][y] \in Nat
          /\ \A m \in wire[r] : m.frame \in Nat
      BY <2>1 DEF TypeOK, Frames, Messages
    <2> QED BY <2>1, <2>2
  <1>1. frame[y] > f /\ y # r /\ frame'[y] > f
    <2>1. frame[y] > f
      BY DEF PassedBy
    <2> QED BY <1>t, <2>1, FrameGrows
  <1>2. HasTold(r, y, f)' => HasTold(r, y, f)
    <2>1. (\E m \in wire'[r] : m.type = "frame" /\ m.from = y /\ m.frame = f) => HasTold(r, y, f)
      <3> SUFFICES ASSUME NEW m \in wire'[r] \ wire[r], m.type = "frame", m.from = y, m.frame = f PROVE FALSE
        BY DEF HasTold
      <3>1. PICK p \in Player : SentBy(p, m)
        BY <1>t, WireGrows
      <3>2. m = Note("frame", p, p, frame[p])
        BY <3>1 DEF SentBy, Note
      <3>3. f = frame[y]
        BY <3>2 DEF Note
      <3> QED BY <1>t, <1>1, <3>3
    <2> QED BY <2>1 DEF HasTold
  <1>3. /\ ~ (received'[r][y] /\ dframe'[r][y] = f)
        /\ HasTold(r, y, f) => dframe'[r][y] >= f
    <2>1. ~ (received[r][y] /\ dframe[r][y] = f) /\ (HasTold(r, y, f) => dframe[r][y] >= f)
      BY DEF PassedBy
    <2>2. CASE received'[r][y] = received[r][y] /\ dframe'[r][y] = dframe[r][y]
      BY <2>1, <2>2
    <2>3. ASSUME NEW m \in wire[r], m.type = "frame", m.from = y, dframe[r][y] < m.frame,
                 dframe'[r][y] = m.frame
          PROVE  dframe'[r][y] # f /\ (HasTold(r, y, f) => dframe'[r][y] >= f)
      <3>1. m.frame = f => HasTold(r, y, f)
        BY <2>3 DEF HasTold
      <3> QED BY <1>t, <2>1, <2>3, <3>1
    <2>4. ASSUME NEW m \in wire[r], dframe[r][y] <= m.frame, received'[r][y] = FALSE,
                 dframe'[r][y] = m.frame
          PROVE  ~ received'[r][y] /\ (HasTold(r, y, f) => dframe'[r][y] >= f)
      BY <1>t, <2>1, <2>4
    <2> QED BY <1>t, <1>1, <2>2, <2>3, <2>4, ReceivedKept
  <1> QED BY <1>1, <1>2, <1>3 DEF PassedBy, Rest

LEMMA ComingStays ==
  ASSUME NEW c, Moved(c), Told(c)', [Next]_vars, NEW r \in Rest(c), NEW w \in Rest(c),
         Coming(c, r, w), screen[r], frame'[r] = frame[r], ~ TurnOnScreen(w)
  PROVE  PassedBy(c, r, w)' \/ Coming(c, r, w)'
  <1> DEFINE f == frame[r]
  <1> USE DEF Moved
  <1>t. TypeOK /\ r \in Player /\ w \in Player /\ frame[w] \in Nat /\ f \in Nat /\ f \in Frames /\ w \in Rest(c)'
    <2>1. TypeOK /\ r \in Player /\ w \in Player
      BY BaseFacts DEF Base, Types
    <2>2. w \in Rest(c)'
      BY DEF Rest
    <2> QED BY <2>1, <2>2 DEF TypeOK, Frames
  <1>1. CASE frame'[w] = frame[w] /\ ~ ExecuteFrame(w)
    <2>1. screen'[w] = screen[w]
      BY <1>t, <1>1, ScreenKept
    <2> QED BY <1>t, <1>1, <2>1 DEF Coming
  <1>2. CASE ExecuteFrame(w) /\ frame[w] < f
    <2>1. ~ screen'[w] /\ frame'[w] = frame[w] + 1
      BY <1>t, <1>2 DEF ExecuteFrame, TypeOK
    <2>2. frame'[w] < f \/ frame'[w] = f
      BY <1>t, <1>2, <2>1
    <2> QED BY <1>t, <2>1, <2>2 DEF Coming
  <1>3. CASE ExecuteFrame(w) /\ frame[w] = f /\ ~ screen[w]
    <2>1. w # r /\ frame'[w] = f + 1
      BY <1>t, <1>3 DEF ExecuteFrame, TypeOK
    <2>2. ~ HasTold(r, w, f)
      BY <1>t, <1>3, <2>1 DEF Told
    <2>3. ~ \E m \in wire'[r] : m.type = "frame" /\ m.from = w /\ m.frame = f
      <3>1. f # frame'[w] /\ ~ Notify(w)
        BY <1>t, <1>3, <2>1 DEF Notify
      <3> SUFFICES ASSUME NEW m \in wire'[r] \ wire[r], m.type = "frame", m.from = w PROVE FALSE
        BY <2>2 DEF HasTold
      <3>2. PICK p \in Player : SentBy(p, m)
        BY <1>t, WireGrows
      <3> QED BY <3>1, <3>2 DEF SentBy, Note
    <2>4. ~ (received'[r][w] /\ dframe'[r][w] = f)
      <3>1. received'[r][w] => HasTold(r, w, dframe[r][w])'
        BY <2>1 DEF Told, Rest
      <3> QED BY <2>3, <3>1 DEF HasTold
    <2>5. frame'[w] > f
      BY <1>t, <2>1
    <2> QED BY <1>t, <2>3, <2>4, <2>5 DEF PassedBy, HasTold
  <1>4. frame[w] < f \/ (frame[w] = f /\ ~ screen[w])
    BY DEF Coming
  <1>5. ExecuteFrame(w) => frame'[w] # frame[w]
    BY <1>t DEF ExecuteFrame, TypeOK
  <1> QED BY <1>t, <1>1, <1>2, <1>3, <1>4, <1>5, FrameGrows

LEMMA NextOnScreen ==
  ASSUME NEW c, Moved(c), OnScreen(c), Told(c)', [Next]_vars
  PROVE  OnScreen(c)'
  <1> SUFFICES ASSUME NobodyRemoved(c)', NEW r \in Rest(c), screen'[r] PROVE Settled(c, r)'
    BY DEF OnScreen, Rest
  <1> USE DEF Moved
  <1>b. TypeOK /\ Types /\ CrashedGo /\ Prompt /\ r \in Player /\ NobodyRemoved(c)
    BY BaseFacts, NobodyRemovedBefore DEF Base, Types, OneCrash
  <1>1. ASSUME NEW p \in Player, TurnOnScreen(p)
        PROVE  Settled(c, r)'
    <2>1. Stuck(p) /\ Quiet(p) /\ UNCHANGED <<frame, upto, dframe, received, wire>>
      BY <1>b, <1>1 DEF TurnOnScreen
    <2>2. crashed # {} /\ In(p)
      BY <1>b, <2>1, NoneStopsBeforeCrash DEF Stuck
    <2>3. p \in Rest(c)
      BY <2>2, BaseFacts
    <2>4. Blocked(c, r) \/ \E y \in Rest(c) : PassedBy(c, r, y) \/ frame[y] < frame[r]
      BY <1>b, <2>1, <2>2, <2>3, QuietSettles
    <2>5. Blocked(c, r) => Blocked(c, r)'
      BY <2>1 DEF Blocked, Rest
    <2>6. \A y \in Rest(c) : PassedBy(c, r, y) => PassedBy(c, r, y)'
      BY <2>1 DEF PassedBy, HasTold, Rest
    <2>7. \A y \in Rest(c) : frame[y] < frame[r] => Coming(c, r, y)'
      BY <2>1 DEF Coming, Rest
    <2>8. Blocked(c, r)' \/ \E y \in Rest(c) : PassedBy(c, r, y)' \/ Coming(c, r, y)'
      BY <2>4, <2>5, <2>6, <2>7
    <2> QED BY <2>8 DEF Settled, Rest
  <1>2. ASSUME \A p \in Player : ~ TurnOnScreen(p)
        PROVE  Settled(c, r)'
    <2>1. screen[r] /\ ~ ExecuteFrame(r)
      BY <1>b, <1>2, ScreenKept
    <2>2. frame'[r] = frame[r] /\ crashed # {}
      BY <1>b, <2>1, FrameGrows DEF Base, Calm
    <2>3. Settled(c, r)
      BY <1>b, <2>1 DEF OnScreen
    <2>4. Blocked(c, r) => Blocked(c, r)'
      BY <1>b, <2>2, BlockedStays
    <2>5. \A y \in Rest(c) : PassedBy(c, r, y) => PassedBy(c, r, y)'
      BY <2>2, PassedStays
    <2>6. \A y \in Rest(c) : Coming(c, r, y) => PassedBy(c, r, y)' \/ Coming(c, r, y)'
      BY <1>2, <2>1, <2>2, ComingStays DEF Rest
    <2>7. Blocked(c, r)' \/ \E y \in Rest(c) : PassedBy(c, r, y)' \/ Coming(c, r, y)'
      BY <2>3, <2>4, <2>5, <2>6 DEF Settled
    <2> QED BY <2>7 DEF Settled, Rest
  <1> QED BY <1>1, <1>2

\* He who removes him has heard that all are where he is: they are, for good.
LEMMA RemoverIsBlocked ==
  ASSUME NEW c, Moved(c), OnScreen(c), NobodyRemoved(c), NEW p \in Player, Disconnect(p)
  PROVE  p \in Rest(c) /\ Out(p) = {c} /\ Blocked(c, p)
  <1> USE DEF Moved
  <1>1. /\ Stuck(p) /\ screen[p] /\ notified[p] /\ Out(p) # {} /\ AllOnSameFrame(p)
        /\ In(p)
    BY DEF Disconnect, Stuck
  <1>2. /\ p \in Rest(c) /\ crashed = {c} /\ VotesOnCrashed /\ Types /\ CrashedGo
        /\ \A q \in Rest(c) : q \in Player /\ Connected(p, q)
    BY <1>1, BaseFacts DEF Base
  <1>3. Out(p) = {c}
    BY <1>1, <1>2, OutCrashed DEF In
  <1>4. \A q \in Rest(c) \ {p} : received[p][q] /\ dframe[p][q] = frame[p]
    <2>1. dframe[p][p] = frame[p]
      BY <1>1, <1>2 DEF Told
    <2> QED BY <1>1, <1>2, <1>3, <2>1 DEF AllOnSameFrame, Others, Rest
  <1>5. frame[p] \in Frames /\ \A q \in Rest(c) : frame[q] \in Nat
    BY <1>2 DEF Types, TypeOK, Frames
  <1>6. ASSUME NEW y \in Rest(c), PassedBy(c, p, y) PROVE FALSE
    BY <1>4, <1>5, <1>6 DEF PassedBy
  <1>7. ASSUME NEW w \in Rest(c), Coming(c, p, w) PROVE FALSE
    <2>1. w # p
      BY <1>1, <1>5, <1>7 DEF Coming
    <2>2. HasTold(p, w, frame[p])
      BY <1>2, <1>4, <2>1 DEF Told
    <2>3. (frame[p] = frame[w] /\ screen[w]) \/ frame[p] < frame[w]
      BY <1>2, <1>5, <2>1, <2>2 DEF Told
    <2> QED BY <1>2, <1>5, <1>7, <2>3 DEF Coming
  <1>8. Settled(c, p)
    BY <1>1, <1>2 DEF OnScreen
  <1> QED BY <1>2, <1>3, <1>6, <1>7, <1>8 DEF Settled

LEMMA NextRemovedAtOne ==
  ASSUME NEW c, Moved(c), OnScreen(c), RemovedAtOne(c), [Next]_vars
  PROVE  RemovedAtOne(c)'
  <1> USE DEF Moved
  <1>b. /\ TypeOK /\ Prompt /\ c \in Player /\ c \in Troubled /\ c \notin Rest(c)
        /\ \A q \in Rest(c) : q \in Player
        /\ \A p \in Player : In(p) /\ (screen[p] \/ wire[p] # {}) => p \in Rest(c) /\ crashed = {c}
    BY BaseFacts DEF Base, Types, OneCrash
  <1>0. /\ \A q \in Player : frame[q] \in Nat /\ frame[q] # 0 /\ frame[q] \in Frames
        /\ \A q \in Player : upto[q][c] \in Nat
    BY <1>b DEF TypeOK, Frames
  <1>m. \A q \in Player : \A m \in wire'[q] : m.frame \in Nat
    BY NextTypes DEF Base, Types, TypeOK, Messages, Frames
  \* Commands of him that are put on a wire are of frames their sender is past.
  <1>1. ASSUME NEW q \in Player, NEW m \in wire'[q], FromCrasher(c, m), m \notin wire[q]
        PROVE  \E p \in Rest(c) : removedAt[p][c] = 0 /\ m.frame < frame[p]
    <2>1. PICK p \in Player : In(p) /\ (screen[p] \/ wire[p] # {}) /\ SentBy(p, m)
      BY <1>b, <1>1, WireGrows
    <2> QED BY <1>b, <1>1, <2>1 DEF SentBy, FromCrasher, Connected, Note
  <1>2. ASSUME NEW p \in Rest(c), removedAt[p][c] # 0
        PROVE  removedAt'[p][c] = removedAt[p][c]
    BY <1>b, <1>2, RemovedGrows
  <1>3. CASE ~ NobodyRemoved(c)
    <2>1. PICK f \in Frames : RemovedAtFrame(c, f)
      BY <1>3 DEF RemovedAtOne
    <2>2. ~ NobodyRemoved(c)'
      BY <1>2, <1>3 DEF NobodyRemoved, Rest
    <2>3. c \in crashed
      BY <1>3, BaseFacts DEF NobodyRemoved, Base, Calm, Rest
    <2>4. ASSUME NEW q \in Rest(c), removedAt'[q][c] # 0 PROVE removedAt'[q][c] = f
      <3>1. CASE removedAt[q][c] # 0
        BY <1>2, <2>1, <3>1 DEF RemovedAtFrame
      <3>2. CASE removedAt[q][c] = 0
        <4>1. frame[q] = f
          BY <2>1, <3>2 DEF RemovedAtFrame
        <4> QED BY <1>b, <2>4, <3>2, <4>1, RemovedGrows
      <3> QED BY <3>1, <3>2
    <2>5. ASSUME NEW q \in Rest(c), removedAt'[q][c] = 0
          PROVE  frame'[q] = f /\ upto'[q][c] < f
      <3>1. removedAt[q][c] = 0
        BY <1>2, <2>5
      <3>2. frame[q] = f /\ upto[q][c] < f
        BY <2>1, <3>1 DEF RemovedAtFrame
      <3>3. ~ ExecuteFrame(q)
        <4>1. c \in Others(q) /\ UpTo(q, c) = upto[q][c]
          BY <1>b, <3>1 DEF Others, Connected, UpTo
        <4> QED BY <1>b, <1>0, <3>2, <4>1 DEF ExecuteFrame, Ready
      <3>4. ~ Arrive(q, c)
        BY <1>b, <2>3 DEF Arrive, In
      <3>5. \A m \in wire[q] : m.type = "data" /\ m.from = c => m.frame < f
        BY <1>b, <2>1 DEF RemovedAtFrame, FromCrasher
      <3> QED BY <1>b, <3>2, <3>3, <3>4, <3>5, FrameGrows, UptoKept
    <2>6. ASSUME NEW q \in Player, NEW m \in wire'[q], FromCrasher(c, m) PROVE m.frame < f
      <3>1. CASE m \in wire[q]
        BY <2>1, <2>6, <3>1 DEF RemovedAtFrame
      <3>2. CASE m \notin wire[q]
        <4>1. PICK p \in Rest(c) : removedAt[p][c] = 0 /\ m.frame < frame[p]
          BY <1>1, <2>6, <3>2
        <4> QED BY <2>1, <4>1 DEF RemovedAtFrame
      <3> QED BY <3>1, <3>2
    <2>7. RemovedAtFrame(c, f)'
      BY <2>4, <2>5, <2>6 DEF RemovedAtFrame, FromCrasher, Rest
    <2> QED BY <2>1, <2>2, <2>7 DEF RemovedAtOne, Frames
  <1>4. CASE NobodyRemoved(c)
    <2>1. \A p \in Player : \A m \in wire[p] : ~ ReceivePlayer(p, m)
      BY <1>4 DEF RemovedAtOne, ReceivePlayer
    <2>2. CASE \A p \in Player : ~ Disconnect(p)
      <3>1. \A q \in Rest(c) : removedAt'[q][c] = removedAt[q][c]
        BY <1>b, <2>1, <2>2, RemovedGrows
      <3>2. NobodyRemoved(c)'
        BY <1>4, <3>1 DEF NobodyRemoved, Rest
      <3>3. ASSUME NEW q \in Player, NEW m \in wire'[q], m.type = "player" PROVE FALSE
        <4>1. m \notin wire[q]
          BY <1>4, <3>3 DEF RemovedAtOne
        <4>2. PICK p \in Player : SentBy(p, m)
          BY <1>b, <4>1, WireGrows
        <4> QED BY <2>2, <3>3, <4>2 DEF SentBy, Note
      <3> QED BY <3>2, <3>3 DEF RemovedAtOne
    <2>3. ASSUME NEW p \in Player, Disconnect(p) PROVE RemovedAtOne(c)'
      <3> DEFINE f == frame[p]
      <3>1. p \in Rest(c) /\ Out(p) = {c} /\ Blocked(c, p)
        BY <1>4, <2>3, RemoverIsBlocked
      <3>2. /\ removedAt' = [removedAt EXCEPT ![p] =
                               [x \in Player |-> IF x \in Out(p) THEN f ELSE @[x]]]
            /\ UNCHANGED <<frame, upto>>
        BY <2>3 DEF Disconnect
      <3>3. /\ removedAt'[p][c] = f /\ f # 0 /\ f \in Frames
            /\ \A q \in Rest(c) \ {p} : removedAt'[q][c] = 0
        BY <1>b, <1>0, <1>4, <3>1, <3>2 DEF TypeOK, NobodyRemoved
      <3>4. ~ NobodyRemoved(c)'
        BY <3>1, <3>3 DEF NobodyRemoved, Rest
      <3>5. \A q \in Rest(c) : frame'[q] = f /\ upto'[q][c] < f
        BY <3>1, <3>2 DEF Blocked
      <3>6. ASSUME NEW q \in Player, NEW m \in wire'[q], FromCrasher(c, m) PROVE m.frame < f
        <4>1. \E y \in Rest(c) : m.frame < frame[y]
          BY <1>1, <3>6 DEF Commands
        <4> QED BY <3>1, <4>1 DEF Blocked
      <3>7. RemovedAtFrame(c, frame[p])'
        <4>1. frame'[p] = f
          BY <3>2
        <4> HIDE DEF f
        <4> QED BY <3>3, <3>5, <3>6, <4>1 DEF RemovedAtFrame, FromCrasher, Rest
      <3>8. frame'[p] \in Frames
        BY <3>2, <3>3
      <3> QED BY <3>4, <3>7, <3>8 DEF RemovedAtOne, Frames
    <2> QED BY <2>2, <2>3
  <1> QED BY <1>3, <1>4

OneCrashInv(c) == Moved(c) /\ OnScreen(c) /\ RemovedAtOne(c)

LEMMA InitOneCrash ==
  ASSUME NEW c
  PROVE  OneCrash(c) /\ Init => OneCrashInv(c)
  <1> SUFFICES ASSUME OneCrash(c), Init PROVE OneCrashInv(c)
    OBVIOUS
  <1>1. Moved(c)
    BY InitBase, InitCommands, InitTold DEF Moved
  <1>2. NobodyRemoved(c)
    BY <1>1, BaseFacts DEF Init, NobodyRemoved, Moved
  <1>3. OnScreen(c)
    BY DEF Init, OnScreen, Rest
  <1>4. RemovedAtOne(c)
    BY <1>2 DEF Init, RemovedAtOne
  <1> QED BY <1>1, <1>3, <1>4 DEF OneCrashInv

LEMMA NextOneCrash ==
  ASSUME NEW c, OneCrashInv(c), [Next]_vars, crashed' \subseteq {c}
  PROVE  OneCrashInv(c)'
  <1>1. Base(c)' /\ Commands(c)' /\ Told(c)'
    BY NextBase, NextCommands, NextTold DEF OneCrashInv, Moved
  <1> QED BY <1>1, NextOnScreen, NextRemovedAtOne DEF OneCrashInv, Moved

LEMMA OneFrame ==
  ASSUME NEW c, OneCrashInv(c)
  PROVE  RemovedTogether
  <1> USE DEF OneCrashInv, Moved
  <1> SUFFICES ASSUME NEW p \in Player, NEW q \in Player, NEW x \in Player,
                      Together(p, q), removedAt[p][x] # 0, q # x
               PROVE  IF removedAt[q][x] = 0 THEN frame[q] <= removedAt[p][x]
                      ELSE removedAt[q][x] = removedAt[p][x]
    BY DEF RemovedTogether
  <1>1. crashed # {} /\ In(p) /\ In(q)
    BY DEF Base, Calm, Together
  <1>2. p \in Rest(c) /\ q \in Rest(c)
    BY <1>1, BaseFacts
  <1>3. x = c
    BY <1>2, BaseFacts DEF Rest, Connected
  <1>4. PICK f \in Frames : RemovedAtFrame(c, f)
    BY <1>2, <1>3 DEF RemovedAtOne, NobodyRemoved
  <1>5. removedAt[p][x] = f /\ f \in Nat
    BY <1>2, <1>3, <1>4 DEF RemovedAtFrame, Frames
  <1> QED BY <1>2, <1>3, <1>4, <1>5 DEF RemovedAtFrame

\* Votes, if any, are against the only one who may crash.
OnlyTheCrashed == Prompt /\ \A c \in Crashers : Votable \subseteq {c}

\* Whoever crashes first, and as long as nobody else has.
FirstCrashInv ==
  /\ Types
  /\ crashed = {} => CrashedGo /\ Calm
  /\ \A c \in Crashers : crashed \subseteq {c} => OneCrashInv(c)

LEMMA InitFirstCrash == OnlyTheCrashed /\ Init => FirstCrashInv
  <1> SUFFICES ASSUME OnlyTheCrashed, Init PROVE FirstCrashInv
    OBVIOUS
  <1>1. \A c \in Crashers : OneCrash(c)
    BY DEF OnlyTheCrashed, OneCrash
  <1>2. \A c \in Crashers : OneCrashInv(c)
    BY <1>1, InitOneCrash
  <1>3. Calm
    BY DEF Init, Calm
  <1> QED BY <1>2, <1>3, InitTypes, InitCrashedGo DEF FirstCrashInv

LEMMA NextFirstCrash == OnlyTheCrashed /\ FirstCrashInv /\ [Next]_vars => FirstCrashInv'
  <1> SUFFICES ASSUME OnlyTheCrashed, FirstCrashInv, [Next]_vars PROVE FirstCrashInv'
    OBVIOUS
  <1>1. Types /\ Types' /\ crashed \subseteq crashed' /\ Prompt
    BY NextTypes, CrashedGrows DEF FirstCrashInv, OnlyTheCrashed
  <1>2. ASSUME crashed' = {} PROVE CrashedGo' /\ Calm'
    <2>1. crashed = {} /\ CrashedGo /\ Calm
      BY <1>1, <1>2 DEF FirstCrashInv
    <2>2. VotesOnCrashed
      BY <2>1 DEF Calm, VotesOnCrashed
    <2> QED BY <1>1, <2>1, <2>2, NextCrashedGo, NextCalm
  <1>3. ASSUME NEW c \in Crashers, crashed' \subseteq {c} PROVE OneCrashInv(c)'
    <2>1. OneCrashInv(c)
      BY <1>1, <1>3 DEF FirstCrashInv
    <2> QED BY <1>3, <2>1, NextOneCrash
  <1> QED BY <1>1, <1>2, <1>3 DEF FirstCrashInv

LEMMA FirstCrashInvariance == OnlyTheCrashed => (Spec => []FirstCrashInv)
  <1> SUFFICES ASSUME OnlyTheCrashed PROVE Spec => []FirstCrashInv
    OBVIOUS
  <1>1. (Init => FirstCrashInv) /\ (FirstCrashInv /\ [Next]_vars => FirstCrashInv')
    BY InitFirstCrash, NextFirstCrash
  <1> QED BY <1>1, PTL DEF Spec

LEMMA FirstRemovedTogether ==
  ASSUME FirstCrashInv, NEW x, crashed \subseteq {x}
  PROVE  RemovedTogether
  <1>1. CASE crashed = {}
    BY <1>1 DEF FirstCrashInv, Calm, RemovedTogether
  <1>2. CASE crashed # {}
    <2>1. x \in Crashers /\ OneCrashInv(x)
      BY <1>2 DEF FirstCrashInv, Types, TypeOK
    <2> QED BY <2>1, OneFrame
  <1> QED BY <1>1, <1>2

LEMMA AtMostOne ==
  ASSUME NEW S, IsFiniteSet(S), Cardinality(S) <= 1, NEW x \in S, NEW y \in S
  PROVE  x = y
  <1> SUFFICES ASSUME x # y PROVE FALSE
    OBVIOUS
  <1>1. IsFiniteSet({x, y}) /\ Cardinality({x, y}) <= Cardinality(S)
    BY FS_Subset
  <1>2. Cardinality({x, y}) = 2
    <2>1. Cardinality({x}) = 1 /\ IsFiniteSet({x}) /\ y \notin {x}
      BY FS_Singleton
    <2>2. Cardinality({x} \cup {y}) = 2
      BY <2>1, FS_AddElement
    <2>3. {x} \cup {y} = {x, y}
      OBVIOUS
    <2> QED BY <2>2, <2>3
  <1> QED BY <1>1, <1>2, FS_CardinalityType

LEMMA OneElementMore ==
  ASSUME NEW S, IsFiniteSet(S), NEW n \in Nat, Cardinality(S) = n, NEW x, x \notin S
  PROVE  IsFiniteSet(S \cup {x}) /\ Cardinality(S \cup {x}) = n + 1
  BY FS_AddElement

LEMMA NoFour ==
  ASSUME NEW S, IsFiniteSet(S), Cardinality(S) <= 3,
         NEW p \in S, NEW q \in S, NEW x \in S, NEW y \in S,
         p # q, p # x, q # x, y # p, y # q
  PROVE  y = x
  <1> SUFFICES ASSUME y # x PROVE FALSE
    OBVIOUS
  <1> DEFINE one   == {p}
             two   == one \cup {q}
             three == two \cup {x}
             four  == three \cup {y}
  <1>1. q \notin one /\ x \notin two /\ y \notin three /\ four \in SUBSET S
    OBVIOUS
  <1>2. IsFiniteSet(one) /\ Cardinality(one) = 1
    BY FS_Singleton
  <1> HIDE DEF one
  <1>3. IsFiniteSet(two) /\ Cardinality(two) = 2
    <2>1. IsFiniteSet(two) /\ Cardinality(two) = 1 + 1
      BY <1>1, <1>2, OneElementMore
    <2> QED BY <2>1
  <1> HIDE DEF two
  <1>4. IsFiniteSet(three) /\ Cardinality(three) = 3
    <2>1. IsFiniteSet(three) /\ Cardinality(three) = 2 + 1
      BY <1>1, <1>3, OneElementMore
    <2> QED BY <2>1
  <1> HIDE DEF three
  <1>5. Cardinality(four) = 4
    <2>1. Cardinality(four) = 3 + 1
      BY <1>1, <1>4, OneElementMore
    <2> QED BY <2>1
  <1> HIDE DEF four
  <1>6. Cardinality(four) <= Cardinality(S) /\ Cardinality(S) \in Nat
    BY <1>1, FS_Subset, FS_CardinalityType
  <1> QED BY <1>5, <1>6

\* Players who play on together remove one who has crashed at one frame, which
\* none of them has run, however many there are and until another crashes: who tells
\* the others to has heard from each of them where he is, and the one who came last
\* saw that nobody had gone on.
THEOREM FirstCrashedIsRemovedTogether ==
  OnlyTheCrashed => (Spec => [](Cardinality(crashed) <= 1 => RemovedTogether))
  <1>1. FirstCrashInv /\ Cardinality(crashed) <= 1 => RemovedTogether
    <2> SUFFICES ASSUME FirstCrashInv, Cardinality(crashed) <= 1 PROVE RemovedTogether
      OBVIOUS
    <2>1. IsFiniteSet(crashed)
      BY FS_Subset, DisconnectionAssumption DEF FirstCrashInv, Types, TypeOK
    <2>2. PICK x : crashed \subseteq {x}
      <3>1. CASE crashed = {}
        BY <3>1
      <3>2. CASE crashed # {}
        <4>1. PICK y : y \in crashed
          BY <3>2
        <4> QED BY <2>1, <4>1, AtMostOne
      <3> QED BY <3>1, <3>2
    <2> QED BY <2>2, FirstRemovedTogether
  <1> QED BY <1>1, FirstCrashInvariance, PTL

-----------------------------------------------------------------------------
(* Whoever crashes: who removes them, and three players.                    *)

NoVotes ==
  /\ \A p, x, v \in Player : votes[p][x][v] = 0
  /\ \A q \in Player : \A m \in wire[q] : m.type # "vote"

LEMMA NextNoVotes ==
  ASSUME Votable = {}, TypeOK, NoVotes, [Next]_vars
  PROVE  NoVotes'
  <1>1. ASSUME NEW p \in Player, NEW x \in Player, NEW v \in Player PROVE votes'[p][x][v] = 0
    BY VotesKept DEF NoVotes
  <1>2. ASSUME NEW q \in Player, NEW m \in wire'[q], m.type = "vote" PROVE FALSE
    <2>1. m \notin wire[q]
      BY <1>2 DEF NoVotes
    <2>2. PICK p \in Player : SentBy(p, m)
      BY <2>1, WireGrows
    <2> QED BY <1>2, <2>2 DEF SentBy, Note
  <1> QED BY <1>1, <1>2 DEF NoVotes

FairVotesInv == FirstCrashInv /\ CrashedGo /\ (Votable = {} => NoVotes)

LEMMA FairVotes ==
  ASSUME OnlyTheCrashed, FairVotesInv
  PROVE  VotesOnCrashed
  <1>1. CASE Votable = {}
    BY <1>1 DEF FairVotesInv, NoVotes, VotesOnCrashed
  <1>2. CASE crashed = {}
    BY <1>2 DEF FairVotesInv, FirstCrashInv, Calm, VotesOnCrashed
  <1>3. CASE Votable # {} /\ crashed # {}
    <2>1. PICK c \in crashed : TRUE
      BY <1>3
    <2>2. crashed \subseteq Crashers
      BY DEF FairVotesInv, FirstCrashInv, Types, TypeOK
    <2>3. Crashers \subseteq {c}
      BY <1>3, <2>1, <2>2 DEF OnlyTheCrashed
    <2>4. OneCrashInv(c)
      BY <2>1, <2>2, <2>3 DEF FairVotesInv, FirstCrashInv
    <2> QED BY <2>4, BaseFacts DEF OneCrashInv, Moved
  <1> QED BY <1>1, <1>2, <1>3

LEMMA FairVotesInvariance == OnlyTheCrashed => (Spec => []FairVotesInv)
  <1> SUFFICES ASSUME OnlyTheCrashed PROVE Spec => []FairVotesInv
    OBVIOUS
  <1>1. Init => FairVotesInv
    BY InitFirstCrash, InitCrashedGo DEF FairVotesInv, NoVotes, Init
  <1>2. FairVotesInv /\ [Next]_vars => FairVotesInv'
    <2> SUFFICES ASSUME FairVotesInv, [Next]_vars PROVE FairVotesInv'
      OBVIOUS
    <2>1. Types /\ TypeOK
      BY DEF FairVotesInv, FirstCrashInv, Types
    <2>2. FirstCrashInv'
      BY NextFirstCrash DEF FairVotesInv
    <2>3. CrashedGo'
      BY <2>1, FairVotes, NextCrashedGo DEF FairVotesInv
    <2>4. Votable = {} => NoVotes'
      BY <2>1, NextNoVotes DEF FairVotesInv
    <2> QED BY <2>2, <2>3, <2>4 DEF FairVotesInv
  <1> QED BY <1>1, <1>2, PTL DEF Spec

\* Of those who are left one removes the crashed, whoever crashes and when, if votes
\* can only be against who has: none is cast before the first crash.
THEOREM OneRemovesTheCrashed == OnlyTheCrashed => (Spec => []RemovedByOne)
  <1>1. FairVotesInv => RemovedByOne
    BY OneLeast DEF FairVotesInv
  <1> QED BY <1>1, FairVotesInvariance, PTL

\* Three have no second crash to fear: two who play on together and the one who is
\* out of the game of either are all there are.
THEOREM PlayersRemoveTogether ==
  OnlyTheCrashed /\ (Cardinality(Player) <= 3 \/ Cardinality(Crashers) <= 1) =>
    (Spec => []RemovedTogether)
  <1> SUFFICES ASSUME OnlyTheCrashed, Cardinality(Player) <= 3 \/ Cardinality(Crashers) <= 1
               PROVE  Spec => []RemovedTogether
    OBVIOUS
  <1>1. FairVotesInv => RemovedTogether
    <2> SUFFICES ASSUME FairVotesInv PROVE RemovedTogether
      OBVIOUS
    <2> SUFFICES ASSUME NEW p \in Player, NEW q \in Player, NEW x \in Player,
                        Together(p, q), removedAt[p][x] # 0, q # x
                 PROVE  IF removedAt[q][x] = 0 THEN frame[q] <= removedAt[p][x]
                        ELSE removedAt[q][x] = removedAt[p][x]
      BY DEF RemovedTogether
    <2>0. crashed \subseteq Crashers /\ Crashers \subseteq Player /\ IsFiniteSet(Player)
      BY DisconnectionAssumption DEF FairVotesInv, FirstCrashInv, Types, TypeOK
    <2>1. x \in crashed /\ p \notin crashed /\ q \notin crashed
      BY DEF Together, Connected, In, FairVotesInv, CrashedGo, LivesConnected
    <2>f. FirstCrashInv
      BY DEF FairVotesInv
    <2>2. CASE Cardinality(Crashers) <= 1
      <3>1. IsFiniteSet(Crashers)
        BY <2>0, FS_Subset
      <3>2. PICK y : crashed \subseteq {y}
        BY <2>0, <2>2, <3>1, AtMostOne
      <3> QED BY <3>2, <2>f, FirstRemovedTogether DEF RemovedTogether
    <2>3. CASE Cardinality(Player) <= 3 /\ p # q
      <3>1. ASSUME NEW y \in crashed PROVE y = x
        BY <2>0, <2>1, <2>3, <3>1, NoFour
      <3> QED BY <3>1, <2>f, FirstRemovedTogether DEF RemovedTogether
    <2>4. CASE p = q
      BY <2>4
    <2> QED BY <2>2, <2>3, <2>4
  <1> QED BY <1>1, FairVotesInvariance, PTL

=============================================================================
