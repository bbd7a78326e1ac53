----------------------------- MODULE CommandLists -----------------------------
(***************************************************************************)
(* A NetCommandList in use: the commands players number one after another   *)
(* (GenerateNextCommandID wraps) are added in any order and repeatedly, and *)
(* removed.  The list has to be a function of the commands in it, or two    *)
(* machines run the same frame differently.                                 *)
(*                                                                          *)
(* Bound: MaxIssued commands of each player.                                *)
(* Assumption on the surroundings: the commands of one player that are in   *)
(* the list, or on their way to it, are less than half of the IDs apart.    *)
(***************************************************************************)
EXTENDS NetCommandList, FiniteSets

CONSTANTS
  Players,        \* numbers, the slots
  Types,          \* numbers, the command types
  TypeOf,         \* TypeOf[p][n]: the type of p's command number n
  MaxIssued,
  Acks            \* acks that may be added too (a connection's queue)

ASSUME IssueAssumption ==
  /\ Players \subseteq Nat /\ Types \subseteq Nat /\ Types \cap AckTypes = {}
  /\ Acks \subseteq {a \in Commands(AckTypes, Players) : a.id = 0}
  /\ MaxIssued \in Nat
  /\ TypeOf \in [Players -> [1 .. MaxIssued -> Types]]

VARIABLES
  issued,                 \* issued[p]: how many commands p has numbered
  list,                   \* the list, m_first to m_last
  lastMessageInserted,
  held                    \* history: <<p, n>> for the commands put in and not removed

vars == <<issued, list, lastMessageInserted, held>>

\* GenerateNextCommandID on p's machine.
CommandOf(p, n) ==
  [type |-> TypeOf[p][n], player |-> p, id |-> n % IDSpace,
   number |-> n % IDSpace, original |-> p]

TypeOK ==
  /\ issued \in [Players -> 0 .. MaxIssued]
  /\ list \in Seq(Commands(Types \cup AckTypes, Players))
  /\ lastMessageInserted \in 0 .. Len(list)
  /\ held \subseteq Players \X (1 .. MaxIssued)

Init ==
  /\ issued = [p \in Players |-> 0]
  /\ list = << >>
  /\ lastMessageInserted = 0
  /\ held = {}

\* What may still arrive: nothing older than half of the IDs, nothing that
\* would be that far from what is in the list.
Window == IDSpace \div 2
Arrivable ==
  {pn \in Players \X (1 .. MaxIssued) :
     /\ pn[2] \in (issued[pn[1]] - Window + 1) .. issued[pn[1]]
     /\ \A h \in held : h[1] = pn[1] => h[2] \in (pn[2] - Window + 1) .. (pn[2] + Window - 1)}

Generate(p) ==
  /\ issued[p] < MaxIssued
  /\ issued' = [issued EXCEPT ![p] = @ + 1]
  /\ UNCHANGED <<list, lastMessageInserted, held>>

Becomes(r) == list' = r.list /\ lastMessageInserted' = r.last

Add(p, n) ==
  /\ <<p, n>> \in Arrivable
  /\ Becomes(addMessage(list, lastMessageInserted, CommandOf(p, n)))
  /\ held' = held \cup {<<p, n>>}
  /\ UNCHANGED issued

\* An ack has no ID of its own: the shortcut never takes it.
AddAck(a) ==
  /\ Becomes(addMessage(list, lastMessageInserted, a))
  /\ UNCHANGED <<issued, held>>

\* getFrameCommandList appends the sorted list of one player's commands.
AppendOf(p, n, k) ==
  /\ {<<p, n>>, <<p, k>>} \subseteq Arrivable
  /\ n < k /\ TypeOf[p][n] <= TypeOf[p][k] /\ k - n < Window
  /\ Becomes(appendList(list, lastMessageInserted, CommandOf(p, n), CommandOf(p, k)))
  /\ held' = held \cup {<<p, n>>, <<p, k>>}
  /\ UNCHANGED issued

RemoveMessage(p, n) ==
  /\ <<p, n>> \in held
  /\ \E i \in 1 .. Len(list) :
       /\ list[i] = CommandOf(p, n)
       /\ Becomes(removeMessage(list, lastMessageInserted, i))
  /\ held' = held \ {<<p, n>>}
  /\ UNCHANGED issued

Reset ==
  /\ list # << >>
  /\ list' = << >> /\ lastMessageInserted' = 0 /\ held' = {}
  /\ UNCHANGED issued

Next ==
  \/ \E p \in Players : Generate(p)
  \/ \E p \in Players, n \in 1 .. MaxIssued : Add(p, n) \/ RemoveMessage(p, n)
  \/ \E p \in Players, n, k \in 1 .. MaxIssued : AppendOf(p, n, k)
  \/ \E a \in Acks : AddAck(a)
  \/ Reset

Spec == Init /\ [][Next]_vars

-----------------------------------------------------------------------------
\* The order a frame is run in: by type, then player, then age.
Before(g, h) ==
  LET s == TypeOf[g[1]][g[2]]
      t == TypeOf[h[1]][h[2]]
  IN  \/ s < t
      \/ s = t /\ g[1] < h[1]
      \/ s = t /\ g[1] = h[1] /\ g[2] < h[2]

\* However its commands arrived, the list is the one enumeration of them by
\* type, player and age, each once, through the wrap of the IDs: two machines
\* that hold the same commands run them in the same order (addMessage).
Places == {i \in 1 .. Len(list) : DoesCommandRequireACommandID(list[i].type)}
OrderIsCanonical ==
  /\ {list[i] : i \in Places} = {CommandOf(h[1], h[2]) : h \in held}
  /\ \A i, j \in Places : i < j =>
       \E g, h \in held : /\ list[i] = CommandOf(g[1], g[2])
                          /\ list[j] = CommandOf(h[1], h[2])
                          /\ Before(g, h)

\* No command is in the list twice ("Make sure this command isn't already in the
\* list", addMessage).
NoDuplicates ==
  \A i, j \in 1 .. Len(list) : i # j => ~ isEqualCommandMsg(list[i], list[j])

=============================================================================
