------------------------------ MODULE PeerSets ------------------------------
(***************************************************************************)
(* What a routing table promises to the code that uses it, without lists,  *)
(* positions and maps. Contacts fall in groups. A few contacts of a group  *)
(* are live, the others known of it are spares, there in case a live one   *)
(* fails. What is known of a contact is what was heard of it last.         *)
(***************************************************************************)
EXTENDS Naturals, FiniteSets

CONSTANTS
  Contact,   \* whom one may hear of
  Value,     \* what may be heard of a contact
  None,      \* nothing is known of a contact
  Group,     \* the groups
  GroupOf,   \* the group of each contact
  Room       \* the live contacts of a group, and its spares, at most

VARIABLES
  known,     \* contact to what was heard of it last, or None
  live       \* the contacts that are handed out

vars == <<known, live>>

Live(g)  == {c \in live : GroupOf[c] = g}
Spare(g) == {c \in Contact \ live : GroupOf[c] = g /\ known[c] # None}

Init == known = [c \in Contact |-> None] /\ live = {}

\* A contact is heard of that is live, or is made live since there is room.
HearLive(c, v) ==
  /\ c \in live \/ Cardinality(Live(GroupOf[c])) < Room
  /\ live' = live \cup {c}
  /\ known' = [known EXCEPT ![c] = v]

\* A contact is heard of that has to wait; it may cost a spare its place when
\* the group has all the spares it may have.
HearSpare(c, v) ==
  LET others == Spare(GroupOf[c]) \ {c}
  IN /\ c \notin live
     /\ Cardinality(Live(GroupOf[c])) = Room
     /\ UNCHANGED live
     /\ IF Cardinality(others) < Room
        THEN known' = [known EXCEPT ![c] = v]
        ELSE \E d \in others :
               known' = [known EXCEPT ![c] = v, ![d] = None]

\* A live contact fails: it is forgotten, and a spare takes its place.
Fail(c) ==
  /\ c \in live
  /\ known' = [known EXCEPT ![c] = None]
  /\ IF Spare(GroupOf[c]) = {}
     THEN live' = live \ {c}
     ELSE \E d \in Spare(GroupOf[c]) : live' = (live \ {c}) \cup {d}

Next ==
  \E c \in Contact :
    \/ \E v \in Value : HearLive(c, v) \/ HearSpare(c, v)
    \/ Fail(c)

Spec == Init /\ [][Next]_vars

=============================================================================
