------------------------------- MODULE Supply -------------------------------
(***************************************************************************)
(* What the graph of sensors, chains and adaptors promises, without the    *)
(* graph: a source is on exactly while a consumer that needs it is wanted. *)
(* What a consumer needs is settled before it is first wanted.             *)
(***************************************************************************)
CONSTANTS Consumers, Sources

VARIABLES needs, wanted, on

vars == <<needs, wanted, on>>

Needed(consumers, need) == UNION {need[c] : c \in consumers}

Init ==
  /\ needs = [c \in Consumers |-> {}]
  /\ wanted = {} /\ on = {}

\* A consumer becomes wanted or is not wanted any more.
Want(c) ==
  /\ wanted' \in {wanted \cup {c}, wanted \ {c}}
  /\ on' = Needed(wanted', needs)
  /\ UNCHANGED needs

\* Consumers that are not wanted find out what they need.
Settle ==
  /\ needs' \in [Consumers -> SUBSET Sources]
  /\ \A c \in wanted : needs'[c] = needs[c]
  /\ UNCHANGED <<wanted, on>>

Next == Settle \/ \E c \in Consumers : Want(c)

Spec == Init /\ [][Next]_vars

=============================================================================
