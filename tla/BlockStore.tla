----------------------------- MODULE BlockStore -----------------------------
(***************************************************************************)
(* What the blocks of a peer are to those who ask it to store some: a set  *)
(* that loses no block but one that has come into doubt. A transfer is     *)
(* told which block it has stored, or FALSE whatever became of it.         *)
(***************************************************************************)
CONSTANTS Transfer, Key, None

VARIABLES
  stored,    \* the blocks that are there, whole
  doubtful,  \* the blocks of which nothing is promised any more
  answer     \* what was answered to each transfer

vars == <<stored, doubtful, answer>>

Init ==
  /\ stored = {} /\ doubtful = {}
  /\ answer = [t \in Transfer |-> None]

Told(T) == [t \in Transfer |-> IF t \in T THEN FALSE ELSE answer[t]]

Keep(t, k) ==
  /\ answer[t] = None
  /\ stored' = stored \cup ({k} \ doubtful)
  /\ answer' = [answer EXCEPT ![t] = k]
  /\ UNCHANGED doubtful

\* A raw value can be stored after its answer was false (its write stream ends
\* nonetheless).
KeepUntold(t, k) ==
  /\ answer[t] = FALSE
  /\ stored' = stored \cup ({k} \ doubtful)
  /\ UNCHANGED <<doubtful, answer>>

Refuse(T) ==
  /\ \A t \in T : answer[t] = None
  /\ answer' = Told(T)
  /\ UNCHANGED <<stored, doubtful>>

\* Transfers of k get in each other's way; some of them may be refused.
Doubt(k, T) ==
  /\ \A t \in T : answer[t] = None
  /\ stored' = stored \ {k}
  /\ doubtful' = doubtful \cup {k}
  /\ answer' = Told(T)

Next ==
  \/ \E t \in Transfer, k \in Key : Keep(t, k) \/ KeepUntold(t, k)
  \/ \E T \in SUBSET Transfer :
       Refuse(T) \/ \E k \in Key : Doubt(k, T)   \* many at once when it dies

Spec == Init /\ [][Next]_vars
=============================================================================
