-------------------------- MODULE SessionRegistry ---------------------------
(***************************************************************************)
(* What the session service promises: session ids are handed out in        *)
(* increasing order, each to one client, and a closed session never comes  *)
(* back.  Which sensor a session is for, sockets and timers do not show.   *)
(***************************************************************************)
EXTENDS Integers

CONSTANT Clients

VARIABLES granted,  \* ids handed out or used up so far
          owner     \* the open sessions and the client of each

Init == granted = 0 /\ owner = << >>

Open(c) ==
  /\ granted' = granted + 1
  /\ owner' = [s \in DOMAIN owner \cup {granted} |->
                 IF s = granted THEN c ELSE owner[s]]

\* A failed request uses up an id.
Refuse == granted' = granted + 1 /\ UNCHANGED owner

Close(S) ==
  /\ S # {} /\ S \subseteq DOMAIN owner
  /\ owner' = [s \in DOMAIN owner \ S |-> owner[s]]
  /\ UNCHANGED granted

Next ==
  \/ \E c \in Clients : Open(c)
  \/ Refuse
  \/ \E S \in SUBSET DOMAIN owner : Close(S)

Spec == Init /\ [][Next]_<<granted, owner>>
=============================================================================
