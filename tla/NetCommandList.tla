---------------------------- MODULE NetCommandList ----------------------------
(***************************************************************************)
(* The sorted list of NetCommandList.cpp.  A frame's commands, a packet's   *)
(* commands and a connection's queue are such lists: each machine builds    *)
(* its own from messages that arrive in any order, any number of times, and *)
(* all of them must end up with the same order.  A list is a sequence and   *)
(* m_lastMessageInserted an index of it, 0 for the null pointer.            *)
(***************************************************************************)
EXTENDS Integers, Sequences, SequencesExt

CONSTANTS
  IDSpace,     \* 65536, the values of an UnsignedShort
  AckTypes     \* the types that carry no command ID (ACKBOTH, ACKSTAGE1, ACKSTAGE2)

ASSUME ListAssumption == IDSpace \in Nat \ {0} /\ AckTypes \subseteq Nat

\* A command: id is m_id (0 for an ack), number is getSortNumber, original the
\* player whose command an ack is about.
Commands(types, players) ==
  [type : types, player : players, id : 0 .. (IDSpace - 1),
   number : 0 .. (IDSpace - 1), original : players]

\* isCommandIdNewer, on 16 bits that wrap.
RetailNewer(new, old) == new > old   \* mutant: RETAIL_COMPATIBLE_NETWORKING
isCommandIdNewer(new, old) ==
  LET diff == (new - old) % IDSpace IN diff # 0 /\ diff < IDSpace \div 2

DoesCommandRequireACommandID(type) == type \notin AckTypes

isEqualCommandMsg(a, b) ==
  IF DoesCommandRequireACommandID(a.type)
    THEN DoesCommandRequireACommandID(b.type) /\ a.player = b.player /\ a.id = b.id
    ELSE /\ a.type = b.type /\ a.player = b.player
         /\ a.original = b.original /\ a.number = b.number

\* The general search of addMessage walks over l[i] in three loops: by type,
\* then by player, then by sort number.
Passes(l, i, c) ==
  \/ c.type > l[i].type
  \/ c.type = l[i].type /\ c.player > l[i].player
  \/ /\ c.type = l[i].type /\ c.player = l[i].player
     /\ isCommandIdNewer(c.number, l[i].number)

\* Where the walk stops; Len(l) + 1 is the end of the list.
Position(l, c) ==
  CHOOSE i \in 1 .. (Len(l) + 1) :
    /\ i <= Len(l) => ~ Passes(l, i, c)
    /\ \A j \in 1 .. (i - 1) : Passes(l, j, c)

\* The shortcut of addMessage: c goes right behind the last one inserted.  Its
\* test for a duplicate never succeeds, the IDs being different.
BehindAny(l, last, c) ==   \* mutant: the next one is not looked at
  /\ last # 0
  /\ l[last].type = c.type /\ l[last].player = c.player
  /\ isCommandIdNewer(c.id, l[last].id)
FollowsLast(l, last, c) ==
  /\ last # 0
  /\ l[last].type = c.type /\ l[last].player = c.player
  /\ isCommandIdNewer(c.id, l[last].id)
  /\ \/ last = Len(l)
     \/ l[last + 1].type > c.type
     \/ l[last + 1].player > c.player
     \/ isCommandIdNewer(l[last + 1].id, c.id)

\* The list and last insertion after addMessage.  The general search compares
\* c only with the command at the place it found (the last one at the end).
addMessage(l, last, c) ==
  LET i         == Position(l, c)
      neighbour == IF i > Len(l) THEN Len(l) ELSE i
  IN  IF l = << >> THEN [list |-> <<c>>, last |-> 1]
      ELSE IF FollowsLast(l, last, c)
        THEN [list |-> InsertAt(l, last + 1, c), last |-> last + 1]
      ELSE IF isEqualCommandMsg(l[neighbour], c) THEN [list |-> l, last |-> last]
      ELSE [list |-> InsertAt(l, i, c), last |-> i]

\* removeMessage of l[i]: the last insertion moves on to the next one, if any.
DanglingLast(l, last, i) ==   \* mutant: the last insertion is not moved
  [list |-> RemoveAt(l, i), last |-> last]
removeMessage(l, last, i) ==
  [list |-> RemoveAt(l, i),
   last |-> IF last = i THEN IF i = Len(l) THEN 0 ELSE i
            ELSE IF last > i THEN last - 1 ELSE last]

\* appendList adds the other list's commands one by one.  Bound: there are two.
appendList(l, last, first, second) ==
  LET added == addMessage(l, last, first)
  IN  addMessage(added.list, added.last, second)

=============================================================================
