--------------------------- MODULE ReliableDelivery ---------------------------
(***************************************************************************)
(* What a pair of connections promises the layers above: a command given to *)
(* an open connection stays outstanding until the other side has it.  Only  *)
(* a closing connection may drop what has not arrived.                      *)
(***************************************************************************)
CONSTANTS
  Endpoint,   \* the two ends of each connection
  Sends       \* Sends[e]: sets of commands e may be asked to deliver

VARIABLES
  submitted,     \* submitted[e]: what e was asked to deliver
  outstanding,   \* outstanding[e]: what e still tries to deliver
  arrived,       \* arrived[e]: what of submitted[e] reached the other end
  closing        \* closing[e]: e accepts no more commands

vars == <<submitted, outstanding, arrived, closing>>

Init ==
  /\ submitted   = [e \in Endpoint |-> {}]
  /\ outstanding = [e \in Endpoint |-> {}]
  /\ arrived     = [e \in Endpoint |-> {}]
  /\ closing     = [e \in Endpoint |-> FALSE]

Submit(e) ==
  /\ ~ closing[e]
  /\ \E cs \in Sends[e] :
       /\ submitted' = [submitted EXCEPT ![e] = @ \cup cs]
       /\ outstanding' = [outstanding EXCEPT ![e] = @ \cup cs]
  /\ UNCHANGED <<arrived, closing>>

\* It may arrive again, or late, when it is not outstanding any more.
Arrive(e) ==
  /\ \E c \in submitted[e] : arrived' = [arrived EXCEPT ![e] = @ \cup {c}]
  /\ UNCHANGED <<submitted, outstanding, closing>>

Settle(e) ==
  /\ \E c \in outstanding[e] \cap arrived[e] :
       outstanding' = [outstanding EXCEPT ![e] = @ \ {c}]
  /\ UNCHANGED <<submitted, arrived, closing>>

\* Closing may drop commands at once, or later.
Close(e) ==
  /\ closing' = [closing EXCEPT ![e] = TRUE]
  /\ \E cs \in SUBSET outstanding[e] : outstanding' = [outstanding EXCEPT ![e] = cs]
  /\ UNCHANGED <<submitted, arrived>>

Next == \E e \in Endpoint : Submit(e) \/ Arrive(e) \/ Settle(e) \/ Close(e)

Spec == Init /\ [][Next]_vars

-----------------------------------------------------------------------------
\* An open connection has not forgotten what did not arrive (Connection::processAck).
NothingForgotten ==
  \A e \in Endpoint : ~ closing[e] => submitted[e] \subseteq outstanding[e] \cup arrived[e]

=============================================================================
