------------------------ MODULE PartialTransferProofs ------------------------
(***************************************************************************)
(* Theorems about PartialTransfer, for any transfers, chunks and order of  *)
(* the sort. Each is an induction on the steps; what the nesting of the    *)
(* attempts amounts to is said of the innermost one alone, so that no      *)
(* induction over the nesting is needed.                                   *)
(* At the end a theorem about Values: chunks are cut wherever reads end.   *)
(***************************************************************************)
EXTENDS MCPartialTransfer, FlattenProofs

\* What TypeOK says of the peer that fetches; whatever comes over the network,
\* only an answer that is waited for counts.
Typed ==
  /\ attempts \in [Transfer -> Seq(Attempt)]
  /\ memory = None \/ memory \in SUBSET Chunk
  /\ answer \in [Transfer -> BOOLEAN \cup {None}]

Innermost(t) == attempts[t][Len(attempts[t])]

Begun(t) == attempts[t] # << >>

\* The innermost attempt waits for nothing it did not ask for; whatever it
\* does not miss any more has come to it or to one it is nested in; and it is
\* the end of the transfer that it misses nothing.
Progress(t) ==
  /\ answer[t] = TRUE => Begun(t)
  /\ Begun(t) =>
       /\ Innermost(t).asked \subseteq Innermost(t).missing
       /\ Innermost(t).missing \subseteq Asks(Innermost(t).only)
       /\ Chunk \ Innermost(t).missing \subseteq Got(t)
       /\ answer[t] = None => Innermost(t).missing # {}
       /\ answer[t] = TRUE => Innermost(t).missing = {}

ProgressInv == Typed /\ \A t \in Transfer : Progress(t)

\* Each attempt but the first is asked for less than the one it is nested in,
\* the second for at most all the chunks.
Shrinks(t) ==
  Len(attempts[t]) > 1 =>
    /\ Innermost(t).only # {}
    /\ Len(attempts[t]) + Cardinality(Innermost(t).only) <= Cardinality(Chunk) + 2

ShrinksInv == ProgressInv /\ \A t \in Transfer : Shrinks(t)

\* The only attempt of a transfer holds what it does not miss.
FirstHolds(t) ==
  Len(attempts[t]) = 1 =>
    Chunk \ attempts[t][1].missing \subseteq attempts[t][1].value

WholeInv ==
  ProgressInv /\ WholeUnlessRetried /\ \A t \in Transfer : FirstHolds(t)

-----------------------------------------------------------------------------
(* What the steps do, in terms of the innermost attempt.                   *)

\* The innermost attempt is an attempt.
LEMMA LastTyped ==
  ASSUME Typed, NEW t \in Transfer, Begun(t)
  PROVE  /\ Innermost(t) \in Attempt
         /\ Len(attempts[t]) \in Nat \ {0}
<1>1. attempts[t] \in Seq(Attempt) /\ attempts[t] # << >>
  BY DEF Typed, Begun
<1>2. Len(attempts[t]) \in Nat \ {0} /\ DOMAIN attempts[t] = 1 .. Len(attempts[t])
  BY <1>1, LenProperties, EmptySeq
<1> QED
  BY <1>1, <1>2, ElementOfSeq DEF Innermost

\* A new attempt for the chunks of only, or for all.
LEMMA BeginFacts ==
  ASSUME Typed, NEW t \in Transfer, NEW only \in SUBSET Chunk, Begin(t, only)
  PROVE  /\ Typed'
         /\ Len(attempts'[t]) = Len(attempts[t]) + 1
         /\ Innermost(t)'.only = only
         /\ Innermost(t)'.asked = Asks(only)
         /\ Innermost(t)'.missing = Asks(only)
         /\ \A i \in DOMAIN attempts[t] :
              i \in DOMAIN attempts'[t] /\ attempts'[t][i] = attempts[t][i]
         /\ \A u \in Transfer \ {t} : attempts'[u] = attempts[u]
         /\ net \subseteq net'
         /\ answer' = answer
         /\ memory' = memory
<1> DEFINE n == Len(attempts[t]) + 1
           new == [only |-> only, asked |-> Asks(only), missing |-> Asks(only),
                   value |-> IF memory = None THEN {} ELSE memory]
<1>1. attempts[t] \in Seq(Attempt) /\ n \in Nat
  BY LenProperties DEF Typed
<1>2. new \in Attempt
  BY DEF Typed, Attempt, Asks
<1>3. /\ attempts' = [attempts EXCEPT ![t] = Append(@, new)]
      /\ net' = net \cup {[type |-> "PARTIAL_VALUE", of |-> t, n |-> n,
                           only |-> only]}
      /\ UNCHANGED <<memory, answer>>
  BY DEF Begin
<1> HIDE DEF new
<1>4. /\ Append(attempts[t], new) \in Seq(Attempt)
      /\ Len(Append(attempts[t], new)) = n
      /\ \A i \in 1 .. Len(attempts[t]) :
           Append(attempts[t], new)[i] = attempts[t][i]
      /\ Append(attempts[t], new)[n] = new
  BY <1>1, <1>2, AppendProperties
<1>5. attempts'[t] = Append(attempts[t], new)
  BY <1>3 DEF Typed
<1>6. \A u \in Transfer \ {t} : attempts'[u] = attempts[u]
  BY <1>3 DEF Typed
<1>7. attempts' \in [Transfer -> Seq(Attempt)]
  BY <1>3, <1>4 DEF Typed
<1>9. Typed'
  BY <1>3, <1>7 DEF Typed
<1>10. Innermost(t)' = new
  BY <1>4, <1>5 DEF Innermost
<1>11. \A i \in DOMAIN attempts[t] :
         i \in DOMAIN attempts'[t] /\ attempts'[t][i] = attempts[t][i]
  BY <1>1, <1>4, <1>5, LenProperties
<1> QED
  BY <1>3, <1>4, <1>5, <1>6, <1>9, <1>10, <1>11 DEF new

\* A chunk that the innermost attempt gets.
LEMMA ReceiveFacts ==
  ASSUME Typed, NEW t \in Transfer, NEW c \in Chunk, Awaits(t, c), Receive(t, c)
  PROVE  /\ Typed'
         /\ Len(attempts[t]) \in DOMAIN attempts[t]
         /\ Len(attempts'[t]) = Len(attempts[t])
         /\ Innermost(t)' \in Attempt
         /\ Innermost(t)'.only = Innermost(t).only
         /\ Innermost(t)'.asked = Innermost(t).asked \ {c}
         /\ Innermost(t)'.missing = Innermost(t).missing \ {c}
         /\ Innermost(t)'.value = Innermost(t).value \cup {c}
         /\ \A i \in DOMAIN attempts[t] \ {Len(attempts[t])} :
              attempts'[t][i] = attempts[t][i]
         /\ \A u \in Transfer \ {t} :
              attempts'[u] = attempts[u] /\ answer'[u] = answer[u]
         /\ IF Innermost(t)'.missing = {}
              THEN memory' = attempts'[t][1].value /\ answer'[t] = TRUE
              ELSE memory' = memory /\ answer'[t] = answer[t]
         /\ net' = net
<1> DEFINE n == Len(attempts[t])
           a == [attempts[t][n] EXCEPT !.asked = @ \ {c}, !.missing = @ \ {c},
                                       !.value = @ \cup {c}]
<1>1. attempts[t] \in Seq(Attempt) /\ attempts[t] # << >> /\ n \in Nat
  BY LenProperties DEF Typed, Awaits, Running
<1>2. n \in 1 .. n /\ DOMAIN attempts[t] = 1 .. n
  BY <1>1, LenProperties, EmptySeq
<1>3. attempts[t][n] \in Attempt
  BY <1>1, <1>2, ElementOfSeq
<1>4. /\ a \in Attempt
      /\ a.only = Innermost(t).only
      /\ a.asked = Innermost(t).asked \ {c}
      /\ a.missing = Innermost(t).missing \ {c}
      /\ a.value = Innermost(t).value \cup {c}
  BY <1>3 DEF Attempt, Innermost
<1>5. /\ attempts' = [attempts EXCEPT ![t][n] = a]
      /\ IF a.missing = {}
           THEN /\ memory' = Saved(attempts'[t])
                /\ answer' = [answer EXCEPT ![t] = TRUE]
           ELSE UNCHANGED <<memory, answer>>
      /\ UNCHANGED net
  BY DEF Receive
<1> HIDE DEF a
<1>6. attempts'[t] = [attempts[t] EXCEPT ![n] = a]
  BY <1>5 DEF Typed
<1>7. /\ [attempts[t] EXCEPT ![n] = a] \in Seq(Attempt)
      /\ Len([attempts[t] EXCEPT ![n] = a]) = n
      /\ [attempts[t] EXCEPT ![n] = a][n] = a
      /\ \A i \in DOMAIN attempts[t] \ {n} :
           [attempts[t] EXCEPT ![n] = a][i] = attempts[t][i]
  BY <1>1, <1>2, <1>4, ExceptSeq
<1>8. \A u \in Transfer \ {t} : attempts'[u] = attempts[u]
  BY <1>5 DEF Typed
<1>9. attempts' \in [Transfer -> Seq(Attempt)]
  BY <1>5, <1>6, <1>7 DEF Typed
<1>10. Innermost(t)' = a
  BY <1>6, <1>7 DEF Innermost
<1>11. Saved(attempts'[t]) = attempts'[t][1].value
  BY DEF Saved
<1>12. attempts'[t][1] \in Attempt
  BY <1>2, <1>6, <1>7, ElementOfSeq
<1>13. Saved(attempts'[t]) \in SUBSET Chunk
  BY <1>11, <1>12 DEF Attempt
<1>14. /\ memory' = None \/ memory' \in SUBSET Chunk
       /\ answer' \in [Transfer -> BOOLEAN \cup {None}]
  BY <1>5, <1>13 DEF Typed
<1>15. Typed'
  BY <1>5, <1>9, <1>14 DEF Typed
<1>16. /\ \A u \in Transfer \ {t} : answer'[u] = answer[u]
       /\ IF a.missing = {}
            THEN memory' = attempts'[t][1].value /\ answer'[t] = TRUE
            ELSE memory' = memory /\ answer'[t] = answer[t]
  BY <1>5, <1>11 DEF Typed
<1> QED
  BY <1>2, <1>4, <1>5, <1>6, <1>7, <1>8, <1>10, <1>15, <1>16

\* What fails changes nothing but its answer.
LEMMA FailFacts ==
  ASSUME Typed, NEW t \in Transfer, Fail(t)
  PROVE  /\ Typed'
         /\ answer'[t] = FALSE
         /\ \A u \in Transfer \ {t} : answer'[u] = answer[u]
         /\ UNCHANGED <<attempts, memory, net>>
BY DEF Fail, Typed

\* Serving only adds messages.
LEMMA ServeFacts ==
  ASSUME Typed, Serve
  PROVE  Typed' /\ net \subseteq net' /\ UNCHANGED <<attempts, memory, answer>>
BY DEF Serve, Typed

\* Where a transfer stands does not change with more messages.
LEMMA GotKept ==
  ASSUME NEW t \in Transfer, net \subseteq net',
         \A i \in DOMAIN attempts[t] :
           /\ i \in DOMAIN attempts'[t]
           /\ attempts'[t][i].only = attempts[t][i].only
           /\ attempts[t][i].value \subseteq attempts'[t][i].value
  PROVE  Got(t) \subseteq Got(t)'
BY DEF Got

\* A transfer is where it was when it does not move, or fails.
LEMMA UnchangedProgress ==
  ASSUME NEW t \in Transfer, Progress(t), net \subseteq net',
         attempts'[t] = attempts[t],
         answer'[t] = answer[t] \/ answer'[t] = FALSE
  PROVE  Progress(t)'
<1>1. Got(t) \subseteq Got(t)'
  BY GotKept
<1>2. None # FALSE
  BY TransferAssumption
<1> QED
  BY <1>1, <1>2 DEF Progress, Begun, Innermost

\* The chunks that a new attempt asks for are those that did not come yet.
LEMMA BeginProgress ==
  ASSUME Typed, NEW t \in Transfer, NEW only \in SUBSET Chunk, Begin(t, only),
         answer[t] = None,
         Begun(t) => Progress(t) /\ only = Innermost(t).missing,
         ~Begun(t) => only = {}
  PROVE  Progress(t)'
<1>1. None # TRUE /\ Chunk # {}
  BY TransferAssumption
<1>2. /\ Len(attempts'[t]) = Len(attempts[t]) + 1
      /\ Innermost(t)'.only = only
      /\ Innermost(t)'.asked = Asks(only)
      /\ Innermost(t)'.missing = Asks(only)
      /\ \A i \in DOMAIN attempts[t] :
           i \in DOMAIN attempts'[t] /\ attempts'[t][i] = attempts[t][i]
      /\ net \subseteq net'
      /\ answer' = answer
  BY BeginFacts
<1>3. Got(t) \subseteq Got(t)'
  BY <1>2, GotKept
<1>4. Chunk \ Asks(only) \subseteq Got(t)'
  <2>1. CASE ~Begun(t)
    BY <2>1 DEF Asks
  <2>2. CASE Begun(t)
    <3>1. only # {} /\ Chunk \ only \subseteq Got(t)
      BY <2>2 DEF Progress
    <3> QED BY <1>3, <3>1 DEF Asks
  <2> QED BY <2>1, <2>2
<1>5. Asks(only) # {}
  BY <1>1 DEF Asks
<1> QED
  BY <1>1, <1>2, <1>4, <1>5 DEF Progress

\* The chunk that arrives is one more that has come.
LEMMA ArriveProgress ==
  ASSUME Typed, NEW t \in Transfer, NEW c \in Chunk, Progress(t), Arrive(t, c)
  PROVE  Progress(t)'
<1> DEFINE n == Len(attempts[t])
           m == [type |-> "PARTIAL_VALUE_REPLY", of |-> t, n |-> n, chunk |-> c]
<1>1. Awaits(t, c) /\ Receive(t, c) /\ m \in net
  BY DEF Arrive
<1>2. Begun(t) /\ answer[t] = None /\ c \in Innermost(t).asked
  BY <1>1 DEF Awaits, Running, Begun, Innermost
<1>3. /\ n \in DOMAIN attempts[t]
      /\ Typed'
      /\ Len(attempts'[t]) = n
      /\ Innermost(t)'.only = Innermost(t).only
      /\ Innermost(t)'.asked = Innermost(t).asked \ {c}
      /\ Innermost(t)'.missing = Innermost(t).missing \ {c}
      /\ Innermost(t)'.value = Innermost(t).value \cup {c}
      /\ \A i \in DOMAIN attempts[t] \ {n} : attempts'[t][i] = attempts[t][i]
      /\ IF Innermost(t)'.missing = {} THEN answer'[t] = TRUE
                                  ELSE answer'[t] = answer[t]
      /\ net' = net
  BY <1>1, ReceiveFacts
<1>4. DOMAIN attempts'[t] = DOMAIN attempts[t]
  BY <1>3, LenProperties DEF Typed
<1>5. Got(t) \subseteq Got(t)'
  <2>1. \A i \in DOMAIN attempts[t] :
          /\ i \in DOMAIN attempts'[t]
          /\ attempts'[t][i].only = attempts[t][i].only
          /\ attempts[t][i].value \subseteq attempts'[t][i].value
    BY <1>3, <1>4 DEF Innermost
  <2> QED BY <1>3, <2>1, GotKept
<1>6. c \in Got(t)'
  <2>1. c \in Asks(attempts'[t][n].only) /\ c \in attempts'[t][n].value
    BY <1>2, <1>3 DEF Progress, Innermost
  <2> QED BY <1>1, <1>3, <1>4, <2>1 DEF Got
<1>7. Chunk \ Innermost(t)'.missing \subseteq Got(t)'
  BY <1>2, <1>3, <1>5, <1>6 DEF Progress
<1>8. Begun(t)'
  <2>1. n \in 1 .. n
    BY <1>3, LenProperties DEF Typed
  <2> QED BY <1>3, <2>1, EmptySeq DEF Begun
<1>9. None # TRUE
  BY TransferAssumption
<1> QED
  BY <1>2, <1>3, <1>7, <1>8, <1>9 DEF Progress

-----------------------------------------------------------------------------
(* AllChunksCame.                                                          *)

\* At first no transfer has begun.
LEMMA ProgressInit ==
  Init => ProgressInv
<1>1. None # TRUE
  BY TransferAssumption
<1>2. << >> \in Seq(Attempt)
  BY EmptySeq
<1> QED
  BY <1>1, <1>2 DEF Init, ProgressInv, Typed, Progress, Begun

\* Every step keeps where the transfers stand.
LEMMA ProgressNext ==
  ProgressInv /\ [Next]_vars => ProgressInv'
<1> SUFFICES ASSUME ProgressInv, [Next]_vars
             PROVE  ProgressInv'
  OBVIOUS
<1> USE DEF ProgressInv
<1>1. CASE UNCHANGED vars
  BY <1>1 DEF vars, Typed, Progress, Begun, Innermost, Got
<1>2. CASE Serve
  <2>1. Typed' /\ net \subseteq net' /\ UNCHANGED <<attempts, memory, answer>>
    BY <1>2, ServeFacts
  <2>2. ASSUME NEW u \in Transfer PROVE Progress(u)'
    BY <2>1, UnchangedProgress
  <2> QED BY <2>1, <2>2
<1>3. ASSUME NEW t \in Transfer, Fail(t) PROVE ProgressInv'
  <2>1. /\ Typed'
        /\ answer'[t] = FALSE
        /\ \A u \in Transfer \ {t} : answer'[u] = answer[u]
        /\ UNCHANGED <<attempts, memory, net>>
    BY <1>3, FailFacts
  <2>2. ASSUME NEW u \in Transfer PROVE Progress(u)'
    BY <2>1, UnchangedProgress
  <2> QED BY <2>1, <2>2
<1>4. ASSUME NEW t \in Transfer, NEW only \in SUBSET Chunk, Begin(t, only),
             Progress(t)'
      PROVE  ProgressInv'
  <2>1. /\ Typed'
        /\ \A u \in Transfer \ {t} : attempts'[u] = attempts[u]
        /\ net \subseteq net'
        /\ answer' = answer
    BY <1>4, BeginFacts
  <2>2. ASSUME NEW u \in Transfer \ {t} PROVE Progress(u)'
    BY <2>1, UnchangedProgress
  <2> QED BY <1>4, <2>1, <2>2
<1>5. ASSUME NEW t \in Transfer, Start(t) PROVE ProgressInv'
  <2>1. CASE Begin(t, {})
    <3>1. answer[t] = None /\ ~Begun(t)
      BY <1>5 DEF Start, Begun
    <3>2. Progress(t)'
      BY <2>1, <3>1, BeginProgress
    <3> QED BY <1>4, <2>1, <3>2
  <2>2. CASE Fail(t)
    BY <1>3, <2>2
  <2> QED BY <1>5, <2>1, <2>2 DEF Start
<1>6. ASSUME NEW t \in Transfer, Timeout(t) PROVE ProgressInv'
  <2>1. CASE Begin(t, Innermost(t).missing)
    <3>1. answer[t] = None /\ Begun(t)
      BY <1>6 DEF Timeout, Running, Begun
    <3>2. Innermost(t).missing \in SUBSET Chunk
      BY LastTyped, <3>1 DEF Attempt
    <3>3. Progress(t)'
      BY <2>1, <3>1, <3>2, BeginProgress
    <3> QED BY <1>4, <2>1, <3>2, <3>3
  <2>2. CASE Fail(t)
    BY <1>3, <2>2
  <2> QED BY <1>6, <2>1, <2>2 DEF Timeout, Innermost
<1>7. ASSUME NEW t \in Transfer, NEW c \in Chunk, Arrive(t, c) PROVE ProgressInv'
  <2>1. /\ Typed'
        /\ \A u \in Transfer \ {t} :
             attempts'[u] = attempts[u] /\ answer'[u] = answer[u]
        /\ net' = net
    BY <1>7, ReceiveFacts DEF Arrive
  <2>2. ASSUME NEW u \in Transfer \ {t} PROVE Progress(u)'
    BY <2>1, UnchangedProgress
  <2>3. Progress(t)'
    BY <1>7, ArriveProgress
  <2> QED BY <2>1, <2>2, <2>3
<1> QED
  BY <1>1, <1>2, <1>5, <1>6, <1>7 DEF Next

\* A transfer that succeeds (true is answered to a STORE, or a download
\* resolves) has been sent every chunk, in answer to an attempt that had asked
\* for it, however many attempts it took and whatever came too late.
THEOREM AllCame == Spec => []AllChunksCame
<1>1. ProgressInv => AllChunksCame
  BY DEF ProgressInv, AllChunksCame, Progress, Got
<1> QED
  BY <1>1, ProgressInit, ProgressNext, PTL DEF Spec

-----------------------------------------------------------------------------
(* TypeOK.                                                                 *)

\* Attempts, the value in memory, messages and answers have their types,
\* whatever chunks were asked for, in whatever order the sort puts them.
THEOREM TypeCorrect == Spec => []TypeOK
<1> DEFINE Inv == ProgressInv /\ net \subseteq Message
<1>1. Init => Inv
  BY ProgressInit DEF Init
<1>2. Inv /\ [Next]_vars => Inv'
  <2> SUFFICES ASSUME Inv, [Next]_vars
               PROVE  (net \subseteq Message)'
    BY ProgressNext
  <2>1. Typed /\ \A t \in Transfer : Progress(t)
    BY DEF ProgressInv
  <2>2. ASSUME NEW t \in Transfer, NEW only \in SUBSET Chunk, Begin(t, only)
        PROVE  net' \subseteq Message
    <3>1. Len(attempts[t]) + 1 \in Nat
      BY <2>1, LenProperties DEF Typed
    <3> QED BY <2>2, <3>1 DEF Begin, Message
  <2>3. CASE UNCHANGED net
    BY <2>3
  <2>4. CASE Serve
    <3>1. PICK m \in net :
            /\ m.type = "PARTIAL_VALUE"
            /\ net' = net \cup {[type |-> "PARTIAL_VALUE_REPLY", of |-> m.of,
                                n |-> m.n, chunk |-> c] : c \in Sent(m.only)}
      BY <2>4 DEF Serve
    <3>2. m.of \in Transfer /\ m.n \in Nat /\ m.only \in SUBSET Chunk
      BY <3>1 DEF Message
    <3>3. Sent(m.only) \subseteq Chunk
      BY <3>2 DEF Sent
    <3> QED BY <3>1, <3>2, <3>3 DEF Message
  <2>5. ASSUME NEW t \in Transfer, Start(t) PROVE net' \subseteq Message
    BY <2>2, <2>5 DEF Start, Fail
  <2>6. ASSUME NEW t \in Transfer, Timeout(t) PROVE net' \subseteq Message
    <3>1. Innermost(t).missing \in SUBSET Chunk
      BY <2>1, <2>6, LastTyped DEF Timeout, Running, Begun, Attempt
    <3> QED BY <2>2, <2>6, <3>1 DEF Timeout, Fail, Innermost
  <2>7. ASSUME NEW t \in Transfer, NEW c \in Chunk, Arrive(t, c)
        PROVE  net' \subseteq Message
    BY <2>7 DEF Arrive, Receive
  <2> QED
    BY <2>3, <2>4, <2>5, <2>6, <2>7 DEF Next, vars
<1>3. Inv => TypeOK
  BY DEF ProgressInv, Typed, TypeOK
<1> QED
  BY <1>1, <1>2, <1>3, PTL DEF Spec

-----------------------------------------------------------------------------
(* AttemptsBounded.                                                        *)

\* A second attempt asks for all chunks at most, a later one for fewer than
\* the one before.
LEMMA BeginShrinks ==
  ASSUME Typed, NEW t \in Transfer, Progress(t), Shrinks(t), Timeout(t),
         Begin(t, Innermost(t).missing), Worthwhile(Innermost(t))
  PROVE  Shrinks(t)'
<1> DEFINE n == Len(attempts[t])
           only == Innermost(t).missing
<1>1. Begun(t) /\ answer[t] = None
  BY DEF Timeout, Running, Begun
<1>2. n \in Nat \ {0} /\ only \in SUBSET Chunk /\ Innermost(t).only \in SUBSET Chunk
  BY <1>1, LastTyped DEF Attempt
<1>3. only # {}
  BY <1>1 DEF Progress
<1>4. Len(attempts'[t]) = n + 1 /\ Innermost(t)'.only = only
  BY <1>2, BeginFacts
<1>5. /\ Cardinality(Chunk) \in Nat
      /\ Cardinality(only) \in Nat
      /\ Cardinality(only) <= Cardinality(Chunk)
      /\ Cardinality(Innermost(t).only) \in Nat
  BY <1>2, TransferAssumption, FS_Subset, FS_CardinalityType
<1>6. n + 1 + Cardinality(only) <= Cardinality(Chunk) + 2
  <2>1. CASE n = 1
    BY <1>5, <2>1
  <2>2. CASE n > 1
    <3>1. /\ Innermost(t).only # {}
          /\ n + Cardinality(Innermost(t).only) <= Cardinality(Chunk) + 2
      BY <2>2 DEF Shrinks
    <3>2. Cardinality(only) < Cardinality(Innermost(t).only)
      BY <3>1 DEF Worthwhile
    <3> HIDE DEF n, only
    <3> QED BY <1>2, <1>5, <3>1, <3>2
  <2> HIDE DEF n
  <2>3. n = 1 \/ n > 1
    BY <1>2
  <2> QED BY <2>1, <2>2, <2>3
<1> QED
  BY <1>3, <1>4, <1>6 DEF Shrinks

\* Every step keeps the bound on the attempts.
LEMMA ShrinksNext ==
  ShrinksInv /\ [Next]_vars => ShrinksInv'
<1> SUFFICES ASSUME ShrinksInv, [Next]_vars
             PROVE  ShrinksInv'
  OBVIOUS
<1>1. ProgressInv'
  BY ProgressNext DEF ShrinksInv
<1>2. Typed /\ \A t \in Transfer : Progress(t) /\ Shrinks(t)
  BY DEF ShrinksInv, ProgressInv
<1>3. ASSUME NEW t \in Transfer, attempts'[t] = attempts[t]
      PROVE  Shrinks(t)'
  BY <1>2, <1>3 DEF Shrinks, Innermost
<1>4. CASE UNCHANGED attempts
  BY <1>1, <1>3, <1>4 DEF ShrinksInv
<1>5. ASSUME NEW t \in Transfer, Start(t) PROVE ShrinksInv'
  <2>1. CASE Fail(t)
    BY <1>4, <2>1 DEF Fail
  <2>2. CASE Begin(t, {})
    <3>1. Len(attempts[t]) = 0
      BY <1>5, EmptySeq DEF Start
    <3>2. /\ Len(attempts'[t]) = Len(attempts[t]) + 1
          /\ \A u \in Transfer \ {t} : attempts'[u] = attempts[u]
      <4>1. {} \in SUBSET Chunk
        OBVIOUS
      <4> QED BY <1>2, <2>2, <4>1, BeginFacts
    <3>3. Shrinks(t)'
      BY <3>1, <3>2 DEF Shrinks
    <3> QED BY <1>1, <1>3, <3>2, <3>3 DEF ShrinksInv
  <2> QED BY <1>5, <2>1, <2>2 DEF Start
<1>6. ASSUME NEW t \in Transfer, Timeout(t) PROVE ShrinksInv'
  <2>1. CASE Fail(t)
    BY <1>4, <2>1 DEF Fail
  <2>2. CASE Worthwhile(Innermost(t)) /\ Begin(t, Innermost(t).missing)
    <3>1. Shrinks(t)'
      BY <1>2, <1>6, <2>2, BeginShrinks
    <3>2. Innermost(t).missing \in SUBSET Chunk
      BY <1>2, <1>6, LastTyped DEF Timeout, Running, Begun, Attempt
    <3>3. \A u \in Transfer \ {t} : attempts'[u] = attempts[u]
      BY <1>2, <2>2, <3>2, BeginFacts
    <3> QED BY <1>1, <1>3, <3>1, <3>3 DEF ShrinksInv
  <2> QED BY <1>6, <2>1, <2>2 DEF Timeout, Innermost
<1>7. ASSUME NEW t \in Transfer, NEW c \in Chunk, Arrive(t, c) PROVE ShrinksInv'
  <2>1. /\ Len(attempts'[t]) = Len(attempts[t])
        /\ Innermost(t)'.only = Innermost(t).only
        /\ \A u \in Transfer \ {t} : attempts'[u] = attempts[u]
    BY <1>2, <1>7, ReceiveFacts DEF Arrive
  <2>2. Shrinks(t)'
    BY <1>2, <2>1 DEF Shrinks
  <2> QED BY <1>1, <1>3, <2>1, <2>2 DEF ShrinksInv
<1>8. CASE Serve
  BY <1>4, <1>8 DEF Serve
<1> QED
  BY <1>4, <1>5, <1>6, <1>7, <1>8 DEF Next, vars

\* A transfer begins at most one attempt more than the value has chunks,
\* whatever is lost (the condition on chunksArray.length in the catch of
\* issuePartialValueRequest).
THEOREM Bounded == Spec => []AttemptsBounded
<1>1. Init => ShrinksInv
  <2>1. ASSUME Init, NEW t \in Transfer PROVE Shrinks(t)
    BY <2>1, EmptySeq DEF Init, Shrinks
  <2> QED BY <2>1, ProgressInit DEF ShrinksInv
<1>2. ShrinksInv => AttemptsBounded
  <2> SUFFICES ASSUME ShrinksInv, NEW t \in Transfer
               PROVE  Len(attempts[t]) <= Cardinality(Chunk) + 1
    BY DEF AttemptsBounded
  <2>1. Len(attempts[t]) \in Nat
    BY LenProperties DEF ShrinksInv, ProgressInv, Typed
  <2>2. Cardinality(Chunk) \in Nat
    BY TransferAssumption, FS_CardinalityType
  <2>3. CASE Len(attempts[t]) <= 1
    BY <2>1, <2>2, <2>3
  <2>4. CASE Len(attempts[t]) > 1
    <3>1. /\ Innermost(t).only # {}
          /\ Len(attempts[t]) + Cardinality(Innermost(t).only)
               <= Cardinality(Chunk) + 2
      BY <2>4 DEF ShrinksInv, Shrinks
    <3>2. Innermost(t).only \in SUBSET Chunk
      BY <2>1, <2>4, LastTyped, EmptySeq
         DEF ShrinksInv, ProgressInv, Begun, Attempt
    <3>3. Cardinality(Innermost(t).only) \in Nat /\ Cardinality(Innermost(t).only) # 0
      BY <3>1, <3>2, TransferAssumption, FS_Subset, FS_CardinalityType, FS_EmptySet
    <3> QED BY <2>1, <2>2, <3>1, <3>3
  <2> QED BY <2>1, <2>3, <2>4
<1> QED
  BY <1>1, <1>2, ShrinksNext, PTL DEF Spec

-----------------------------------------------------------------------------
(* WholeUnlessRetried.                                                     *)

\* A first attempt begins with all the chunks missing, a later one ends what
\* can be said.
LEMMA BeginWhole ==
  ASSUME WholeInv, ProgressInv', NEW t \in Transfer, NEW only \in SUBSET Chunk,
         Begin(t, only), ~Begun(t) => only = {}
  PROVE  WholeInv'
<1>1. Typed
  BY DEF WholeInv, ProgressInv
<1>2. /\ Len(attempts'[t]) = Len(attempts[t]) + 1
      /\ Innermost(t)'.missing = Asks(only)
      /\ \A u \in Transfer \ {t} : attempts'[u] = attempts[u]
      /\ memory' = memory
  BY <1>1, BeginFacts
<1>3. \A u \in Transfer : Len(attempts[u]) \in Nat
  BY <1>1, LenProperties DEF Typed
<1>4. CASE Begun(t)
  <2>1. Len(attempts'[t]) > 1
    BY <1>1, <1>2, <1>4, LastTyped
  <2>2. ASSUME NEW u \in Transfer PROVE FirstHolds(u)'
    <3>1. CASE u = t
      BY <2>1, <3>1 DEF FirstHolds
    <3>2. CASE u # t
      BY <1>2, <3>2 DEF WholeInv, FirstHolds
    <3> QED BY <3>1, <3>2
  <2>3. WholeUnlessRetried'
    BY <2>1 DEF WholeUnlessRetried
  <2> QED BY <2>2, <2>3 DEF WholeInv
<1>5. CASE ~Begun(t)
  <2>1. Len(attempts[t]) = 0
    BY <1>5, EmptySeq DEF Begun
  <2>2. Len(attempts'[t]) = 1
    BY <1>2, <2>1
  <2>3. Chunk \ attempts'[t][1].missing = {}
    BY <1>2, <1>5, <2>2 DEF Innermost, Asks
  <2>4. \A u \in Transfer : FirstHolds(u)'
    BY <1>2, <2>3 DEF WholeInv, FirstHolds
  <2>5. WholeUnlessRetried'
    BY <1>2, <2>1 DEF WholeInv, WholeUnlessRetried
  <2> QED BY <2>4, <2>5 DEF WholeInv
<1> QED BY <1>4, <1>5

\* The last chunk makes the value whole, if the attempt is the first one.
LEMMA ArriveWhole ==
  ASSUME WholeInv, ProgressInv', NEW t \in Transfer, NEW c \in Chunk, Arrive(t, c)
  PROVE  WholeInv'
<1>1. Typed /\ Begun(t)
  BY DEF WholeInv, ProgressInv, Arrive, Awaits, Running, Begun
<1>2. /\ Innermost(t)' \in Attempt
      /\ Len(attempts'[t]) = Len(attempts[t])
      /\ Innermost(t)'.missing = Innermost(t).missing \ {c}
      /\ Innermost(t)'.value = Innermost(t).value \cup {c}
      /\ \A u \in Transfer \ {t} : attempts'[u] = attempts[u]
      /\ IF Innermost(t)'.missing = {} THEN memory' = attempts'[t][1].value
                                  ELSE memory' = memory
  BY <1>1, ReceiveFacts DEF Arrive
<1>3. FirstHolds(t)'
  BY <1>2 DEF WholeInv, FirstHolds, Innermost
<1>4. \A u \in Transfer : FirstHolds(u)'
  BY <1>2, <1>3 DEF WholeInv, FirstHolds
<1>5. WholeUnlessRetried'
  <2> SUFFICES ASSUME \A u \in Transfer : Len(attempts'[u]) <= 1
               PROVE  memory' \in {None, Chunk}
    BY DEF WholeUnlessRetried
  <2>1. memory \in {None, Chunk}
    BY <1>2 DEF WholeInv, WholeUnlessRetried
  <2>2. CASE Innermost(t)'.missing = {}
    <3>1. Len(attempts'[t]) = 1
      <4>1. Len(attempts[t]) \in Nat \ {0}
        BY <1>1, LastTyped
      <4>2. Len(attempts'[t]) = Len(attempts[t])
        BY <1>2
      <4>3. Len(attempts'[t]) <= 1
        OBVIOUS
      <4> DEFINE before == Len(attempts[t])
                 after  == Len(attempts'[t])
      <4>4. before \in Nat \ {0} /\ after = before /\ after <= 1
        BY <4>1, <4>2, <4>3
      <4> HIDE DEF before, after
      <4>5. after = 1
        BY <4>4
      <4> QED BY <4>5 DEF after
    <3>2. Innermost(t)'.value \in SUBSET Chunk
      BY <1>2 DEF Attempt
    <3> QED BY <1>2, <1>3, <2>2, <3>1, <3>2 DEF FirstHolds, Innermost
  <2>3. CASE Innermost(t)'.missing # {}
    BY <1>2, <2>1, <2>3
  <2> QED BY <2>2, <2>3
<1> QED BY <1>4, <1>5 DEF WholeInv

\* As long as no transfer needed a second attempt, what is in memory is the
\* whole value (MemoryPartialValue.start, add and save), also when several
\* transfers save it.
THEOREM Whole == Spec => []WholeUnlessRetried
<1>1. Init => WholeInv
  <2>1. ASSUME Init, NEW t \in Transfer PROVE FirstHolds(t)
    BY <2>1, EmptySeq DEF Init, FirstHolds
  <2> QED BY <2>1, ProgressInit DEF Init, WholeInv, WholeUnlessRetried
<1>2. WholeInv /\ [Next]_vars => WholeInv'
  <2> SUFFICES ASSUME WholeInv, [Next]_vars
               PROVE  WholeInv'
    OBVIOUS
  <2>1. ProgressInv /\ ProgressInv'
    BY ProgressNext DEF WholeInv
  <2>2. CASE UNCHANGED <<attempts, memory>>
    BY <2>1, <2>2 DEF WholeInv, WholeUnlessRetried, FirstHolds
  <2>3. ASSUME NEW t \in Transfer, Start(t) PROVE WholeInv'
    <3>1. CASE Begin(t, {})
      <4>1. {} \in SUBSET Chunk
        OBVIOUS
      <4> QED BY <2>1, <3>1, <4>1, BeginWhole
    <3>2. CASE Fail(t)
      BY <2>2, <3>2 DEF Fail
    <3> QED BY <2>3, <3>1, <3>2 DEF Start
  <2>4. ASSUME NEW t \in Transfer, Timeout(t) PROVE WholeInv'
    <3>1. Begun(t) /\ Innermost(t).missing \in SUBSET Chunk
      BY <2>1, <2>4, LastTyped
         DEF ProgressInv, Timeout, Running, Begun, Attempt
    <3>2. CASE Begin(t, Innermost(t).missing)
      BY <2>1, <3>1, <3>2, BeginWhole
    <3>3. CASE Fail(t)
      BY <2>2, <3>3 DEF Fail
    <3> QED BY <2>4, <3>2, <3>3 DEF Timeout, Innermost
  <2>5. ASSUME NEW t \in Transfer, NEW c \in Chunk, Arrive(t, c) PROVE WholeInv'
    BY <2>1, <2>5, ArriveWhole
  <2>6. CASE Serve
    BY <2>2, <2>6 DEF Serve
  <2> QED
    BY <2>2, <2>3, <2>4, <2>5, <2>6 DEF Next, vars
<1>3. WholeInv => WholeUnlessRetried
  BY DEF WholeInv
<1> QED
  BY <1>1, <1>2, <1>3, PTL DEF Spec

-----------------------------------------------------------------------------
(* How a value is cut into chunks. Nothing is lost where a read ends, as   *)
(* what remains of it comes before the next one.                           *)

Pieces(sent) == \A i \in 1 .. Len(sent) : Len(sent[i]) = ChunkSize

LEMMA Division ==
  ASSUME NEW a \in Nat, NEW b \in Nat, b > 0
  PROVE  a \div b \in Nat /\ (a \div b) * b <= a /\ a - (a \div b) * b < b
<1>1. a \div b \in Nat
  OBVIOUS
<1>2. a % b \in 0 .. b - 1
  OBVIOUS
<1>3. a = b * (a \div b) + (a % b)
  OBVIOUS
<1>4. PICK n \in Nat : n = a \div b
  BY <1>1
<1>5. a = b * n + (a % b) /\ n * b = b * n /\ n * b \in Nat
  BY <1>3, <1>4
<1>6. n * b <= a /\ a - n * b < b
  BY <1>2, <1>5
<1>7. QED BY <1>4, <1>6

\* The chunks that are sent of data, and what remains.
LEMMA CutIs ==
  ASSUME NEW T, NEW sent \in Seq(Seq(T)), Pieces(sent), NEW data \in Seq(T)
  PROVE  /\ Cut(sent, data).remaining \in Seq(T)
         /\ Len(Cut(sent, data).remaining) < ChunkSize
         /\ Cut(sent, data).sent \in Seq(Seq(T)) /\ Pieces(Cut(sent, data).sent)
         /\ FlattenSeq(Cut(sent, data).sent) \o Cut(sent, data).remaining
              = FlattenSeq(sent) \o data
<1>1. ChunkSize \in Nat /\ ChunkSize > 0 /\ Len(data) \in Nat
  BY ValuesAssumption, LenProperties
<1>2. PICK n \in Nat : n = Len(data) \div ChunkSize /\ n * ChunkSize <= Len(data)
                       /\ Len(data) - n * ChunkSize < ChunkSize
  BY <1>1, Division
<1>3. PICK m \in Nat : m = n * ChunkSize /\ m <= Len(data) /\ Len(data) - m < ChunkSize
  BY <1>1, <1>2
<1> DEFINE cut == [i \in 0 .. n |-> i * ChunkSize]
           pieces == [i \in 1 .. n |-> SubSeq(data, cut[i - 1] + 1, cut[i])]
           rest == SubSeq(data, m + 1, Len(data))
<1>4. /\ \A i \in 1 .. n : cut[i - 1] = (i - 1) * ChunkSize /\ cut[i] = i * ChunkSize
                           /\ cut[i] = cut[i - 1] + ChunkSize
      /\ cut[0] = 0 /\ cut[n] = m
  <2>1. \A i \in 1 .. n : i - 1 \in 0 .. n /\ i \in 0 .. n
    OBVIOUS
  <2>2. \A i \in 0 .. n : cut[i] = i * ChunkSize
    OBVIOUS
  <2>3. \A i \in 1 .. n : i * ChunkSize = (i - 1) * ChunkSize + ChunkSize
    BY <1>1
  <2>4. 0 \in 0 .. n /\ n \in 0 .. n /\ 0 * ChunkSize = 0
    BY <1>1
  <2> HIDE DEF cut
  <2>5. QED BY <1>3, <2>1, <2>2, <2>3, <2>4
<1>5. \A i \in 0 .. n : cut[i] \in 0 .. Len(data)
  <2>1. ASSUME NEW i \in 0 .. n PROVE cut[i] \in 0 .. Len(data)
    <3>1. i * ChunkSize <= n * ChunkSize /\ i * ChunkSize \in Nat
      <4>1. i \in Nat /\ i <= n
        OBVIOUS
      <4>2. QED BY <1>1, <4>1, TimesMonotone
    <3>2. PICK x \in Nat : x = i * ChunkSize /\ x <= m
      BY <1>3, <3>1
    <3>3. cut[i] = x
      BY <3>2
    <3> HIDE DEF cut
    <3>4. x <= m /\ m <= Len(data)
      BY <1>3, <3>2
    <3>5. x \in Nat /\ m \in Nat /\ Len(data) \in Nat
      BY <1>1
    <3>6. x \in 0 .. Len(data)
      BY <3>4, <3>5
    <3>7. QED BY <3>3, <3>6
  <2>2. QED BY <2>1
<1>6. Cut(sent, data) = [remaining |-> rest, sent |-> sent \o pieces]
  <2>1. pieces = [i \in 1 .. n |-> SubSeq(data, (i - 1) * ChunkSize + 1, i * ChunkSize)]
    <3> HIDE DEF cut
    <3>1. QED BY <1>4
  <2> HIDE DEF pieces
  <2>2. QED BY <1>2, <1>3, <2>1 DEF Cut
<1> HIDE DEF cut
<1>7. rest \in Seq(T) /\ Len(rest) < ChunkSize
  <2>1. PICK z \in Nat : z = Len(data)
    BY <1>1
  <2>2. m \in Nat /\ m <= z /\ z <= Len(data)
    BY <1>3, <2>1
  <2>3. SubSeq(data, m + 1, z) \in Seq(T) /\ Len(SubSeq(data, m + 1, z)) = z - m
    BY <2>2, SubSeqType
  <2>4. QED BY <1>3, <2>1, <2>3
<1>8. pieces \in Seq(Seq(T)) /\ Len(pieces) = n
      /\ \A i \in 1 .. n : Len(pieces[i]) = ChunkSize
  <2>1. ASSUME NEW i \in 1 .. n
        PROVE  SubSeq(data, cut[i - 1] + 1, cut[i]) \in Seq(T)
               /\ Len(SubSeq(data, cut[i - 1] + 1, cut[i])) = ChunkSize
    <3>1. PICK x \in Nat, y \in Nat : x = cut[i - 1] /\ y = cut[i] /\ y <= Len(data)
                                      /\ x <= y /\ y = x + ChunkSize
      <4>1. cut[i - 1] \in 0 .. Len(data) /\ cut[i] \in 0 .. Len(data)
        BY <1>5
      <4>2. QED BY <1>1, <1>4, <4>1
    <3>2. SubSeq(data, x + 1, y) \in Seq(T) /\ Len(SubSeq(data, x + 1, y)) = y - x
      BY <3>1, SubSeqType
    <3>3. y - x = ChunkSize
      BY <1>1, <3>1
    <3>4. QED BY <3>1, <3>2, <3>3
  <2>2. QED BY <2>1
<1>9. FlattenSeq(pieces) = SubSeq(data, 1, m)
  <2>1. \A i \in 1 .. n : cut[i - 1] <= cut[i]
    <3>1. \A i \in 1 .. n : cut[i - 1] \in Nat
      BY <1>5
    <3>2. QED BY <1>1, <1>4, <3>1
  <2>2. FlattenSeq(pieces) = SubSeq(data, cut[0] + 1, cut[n])
    BY <1>5, <2>1, FlattenPieces
  <2> HIDE DEF pieces
  <2>3. 0 + 1 = 1
    OBVIOUS
  <2>4. QED BY <1>4, <2>2, <2>3
<1> HIDE DEF pieces, rest
<1>10. SubSeq(data, 1, m) \o rest = data /\ SubSeq(data, 1, m) \in Seq(T)
  <2>1. SubSeq(data, 0 + 1, m) \o SubSeq(data, m + 1, Len(data))
          = SubSeq(data, 0 + 1, Len(data))
    <3>1. PICK o \in Nat, z \in Nat : o = 0 /\ z = Len(data)
      BY <1>1
    <3>2. o \in Nat /\ m \in Nat /\ z \in Nat /\ o <= m /\ m <= z /\ z <= Len(data)
      BY <1>3, <3>1
    <3>3. SubSeq(data, o + 1, m) \o SubSeq(data, m + 1, z) = SubSeq(data, o + 1, z)
      BY <3>2, SubSeqConcat
    <3>4. QED BY <3>1, <3>3
  <2>2. SubSeq(data, 1, Len(data)) = data
    BY SubSeqFull
  <2>3. SubSeq(data, 0 + 1, m) \in Seq(T)
    BY <1>1, <1>3, SubSeqType
  <2>4. 0 + 1 = 1
    OBVIOUS
  <2>5. QED BY <2>1, <2>2, <2>3, <2>4 DEF rest
<1>11. PICK all : all = sent \o pieces
  OBVIOUS
<1>12. all \in Seq(Seq(T)) /\ FlattenSeq(all) = FlattenSeq(sent) \o FlattenSeq(pieces)
       /\ FlattenSeq(sent) \in Seq(T)
  BY <1>8, <1>11, FlattenConcat, FlattenType, ConcatProperties
<1>13. Pieces(all)
  <2>1. /\ Len(all) = Len(sent) + n /\ Len(sent) \in Nat
        /\ \A i \in 1 .. Len(sent) + n :
             all[i] = IF i <= Len(sent) THEN sent[i] ELSE pieces[i - Len(sent)]
    BY <1>8, <1>11, ConcatProperties, LenProperties
  <2>2. ASSUME NEW i \in 1 .. Len(sent) + n PROVE Len(all[i]) = ChunkSize
    <3>1. CASE i <= Len(sent)
      <4>1. i \in 1 .. Len(sent) /\ all[i] = sent[i]
        BY <2>1, <3>1
      <4>2. QED BY <4>1 DEF Pieces
    <3>2. CASE ~(i <= Len(sent))
      <4>0. PICK len \in Nat : len = Len(sent)
        BY <2>1
      <4>1. i \in Nat /\ i <= len + n /\ ~(i <= len)
        BY <3>2, <4>0
      <4>2. i - len \in 1 .. n
        BY <4>1
      <4>3. PICK k \in 1 .. n : k = i - len
        BY <4>2
      <4>4. all[i] = pieces[k]
        BY <2>1, <3>2, <4>0, <4>3
      <4>5. QED BY <1>8, <4>4
    <3>3. QED BY <3>1, <3>2
  <2>3. QED BY <2>1, <2>2 DEF Pieces
<1>14. FlattenSeq(all) \o rest = FlattenSeq(sent) \o data
  <2>1. PICK x \in Seq(T) : x = FlattenSeq(sent)
    BY <1>12
  <2>2. PICK y \in Seq(T) : y = SubSeq(data, 1, m)
    BY <1>10
  <2>3. (x \o y) \o rest = x \o (y \o rest)
    BY <1>7, ConcatAssociative
  <2>4. QED BY <1>9, <1>10, <1>12, <2>1, <2>2, <2>3
<1>15. Cut(sent, data).remaining = rest /\ Cut(sent, data).sent = all
  BY <1>6, <1>11
<1>16. QED BY <1>7, <1>12, <1>13, <1>14, <1>15

\* The reads give all of the text.
LEMMA ReadsAre ==
  ASSUME NEW T, NEW text \in Seq(T)
  PROVE  Reads(text) \in Seq(Seq(T)) /\ FlattenSeq(Reads(text)) = text
<1>1. ReadSize \in Nat /\ ReadSize > 0 /\ Len(text) \in Nat
  BY ValuesAssumption, LenProperties
<1> DEFINE l == Len(text)
<1>2. PICK n \in Nat : n = (l + ReadSize - 1) \div ReadSize /\ l <= n * ReadSize
                       /\ n * ReadSize \in Nat
  <2>1. PICK a \in Nat : a = l + ReadSize - 1
    BY <1>1
  <2>2. a \div ReadSize \in Nat /\ (a \div ReadSize) * ReadSize <= a
        /\ a - (a \div ReadSize) * ReadSize < ReadSize
    BY <1>1, <2>1, Division
  <2>3. PICK n \in Nat : n = a \div ReadSize
    BY <2>2
  <2>4. PICK k \in Nat : k = n * ReadSize
    BY <1>1
  <2>5. l <= k
    BY <1>1, <2>1, <2>2, <2>3, <2>4
  <2>6. QED BY <2>1, <2>3, <2>4, <2>5
<1> DEFINE cut == [i \in 0 .. n |-> IF i * ReadSize < l THEN i * ReadSize ELSE l]
           reads == [i \in 1 .. n |-> SubSeq(text, cut[i - 1] + 1, cut[i])]
<1>3. \A i \in 0 .. n : cut[i] = IF i * ReadSize < l THEN i * ReadSize ELSE l
  OBVIOUS
<1>4. Reads(text) = reads
  <2>1. \A i \in 1 .. n : i - 1 \in 0 .. n /\ i \in 0 .. n
    OBVIOUS
  <2>2. reads = [i \in 1 .. n |->
                   SubSeq(text, (IF (i - 1) * ReadSize < l THEN (i - 1) * ReadSize ELSE l) + 1,
                          IF i * ReadSize < l THEN i * ReadSize ELSE l)]
    <3> HIDE DEF cut
    <3>1. QED BY <1>3, <2>1
  <2> HIDE DEF reads
  <2>3. QED BY <1>2, <2>2 DEF Reads
<1> HIDE DEF cut
<1>5. /\ \A i \in 0 .. n : cut[i] \in 0 .. l
      /\ \A i \in 1 .. n : cut[i - 1] <= cut[i]
      /\ cut[0] = 0 /\ cut[n] = l
  <2>1. ASSUME NEW i \in 0 .. n PROVE cut[i] \in 0 .. l /\ i * ReadSize \in Nat
    <3>1. i * ReadSize \in Nat
      BY <1>1
    <3>2. QED BY <1>1, <1>3, <3>1
  <2>2. ASSUME NEW i \in 1 .. n PROVE cut[i - 1] <= cut[i]
    <3>1. PICK x \in Nat, y \in Nat : x = (i - 1) * ReadSize /\ y = i * ReadSize /\ x <= y
      <4>1. i - 1 \in Nat /\ i \in Nat /\ i - 1 <= i
        OBVIOUS
      <4>2. QED BY <1>1, <4>1, TimesMonotone
    <3>2. i - 1 \in 0 .. n /\ i \in 0 .. n
      OBVIOUS
    <3>3. cut[i - 1] = (IF x < l THEN x ELSE l) /\ cut[i] = IF y < l THEN y ELSE l
      BY <1>3, <3>1, <3>2
    <3>4. QED BY <1>1, <3>1, <3>3
  <2>3. cut[0] = 0
    <3>1. 0 * ReadSize = 0 /\ 0 \in 0 .. n
      BY <1>1
    <3>2. QED BY <1>1, <1>3, <3>1
  <2>4. cut[n] = l
    <3>1. n \in 0 .. n
      OBVIOUS
    <3>2. QED BY <1>1, <1>2, <1>3, <3>1
  <2>5. QED BY <2>1, <2>2, <2>3, <2>4
<1>6. FlattenSeq(reads) = text
  <2>1. FlattenSeq(reads) = SubSeq(text, cut[0] + 1, cut[n])
    BY <1>5, FlattenPieces
  <2> HIDE DEF reads
  <2>2. SubSeq(text, 1, l) = text
    BY SubSeqFull
  <2>3. 0 + 1 = 1
    OBVIOUS
  <2>4. QED BY <1>5, <2>1, <2>2, <2>3
<1>7. reads \in Seq(Seq(T))
  <2>1. ASSUME NEW i \in 1 .. n
        PROVE  SubSeq(text, cut[i - 1] + 1, cut[i]) \in Seq(T)
    <3>1. PICK x \in Nat, y \in Nat : x = cut[i - 1] /\ y = cut[i] /\ y <= Len(text) /\ x <= y
      <4>1. i - 1 \in 0 .. n /\ i \in 0 .. n
        OBVIOUS
      <4>2. QED BY <1>1, <1>5, <4>1
    <3>2. SubSeq(text, x + 1, y) \in Seq(T)
      BY <3>1, SubSeqType
    <3>3. QED BY <3>1, <3>2
  <2>2. QED BY <2>1
<1> HIDE DEF reads
<1>8. QED BY <1>4, <1>6, <1>7

\* The stream after each of the reads.
Streaming(reads, n, f) ==
  f = [i \in 0 .. n |-> IF i = 0 THEN [remaining |-> <<>>, sent |-> <<>>]
                        ELSE Write(f[i - 1], reads[i])]

LEMMA StreamingExists ==
  ASSUME NEW reads, NEW n \in Nat
  PROVE  \E f : Streaming(reads, n, f)
<1> DEFINE start == [remaining |-> <<>>, sent |-> <<>>]
           Good == {m \in Nat : \E f : Streaming(reads, m, f)}
<1>1. 0 \in Good
  <2> DEFINE f == [i \in 0 .. 0 |-> start]
  <2>1. f = [i \in 0 .. 0 |-> IF i = 0 THEN start ELSE Write(f[i - 1], reads[i])]
    OBVIOUS
  <2>2. Streaming(reads, 0, f)
    BY <2>1 DEF Streaming
  <2>3. QED BY <2>2
<1>2. ASSUME NEW m \in Nat, m \in Good PROVE m + 1 \in Good
  <2>1. PICK f : f = [i \in 0 .. m |-> IF i = 0 THEN start ELSE Write(f[i - 1], reads[i])]
    BY <1>2 DEF Streaming
  <2> DEFINE g == [i \in 0 .. m + 1 |-> IF i = m + 1 THEN Write(f[m], reads[i]) ELSE f[i]]
  <2> HIDE DEF start
  <2>2. ASSUME NEW i \in 0 .. m
        PROVE  f[i] = IF i = 0 THEN start ELSE Write(f[i - 1], reads[i])
    BY <2>1
  <2>3. \A i \in 0 .. m : g[i] = f[i]
    OBVIOUS
  <2>4. g[m + 1] = Write(f[m], reads[m + 1])
    OBVIOUS
  <2>5. g = [i \in 0 .. m + 1 |-> g[i]]
    OBVIOUS
  <2> HIDE DEF g
  <2>6. ASSUME NEW i \in 0 .. m + 1
        PROVE  g[i] = IF i = 0 THEN start ELSE Write(g[i - 1], reads[i])
    <3>1. CASE i = m + 1
      <4>1. i # 0 /\ i - 1 = m /\ m \in 0 .. m
        BY <3>1
      <4>2. QED BY <3>1, <4>1, <2>3, <2>4
    <3>2. CASE i # m + 1 /\ i # 0
      <4>1. i \in 0 .. m /\ i - 1 \in 0 .. m
        BY <3>2
      <4>2. QED BY <3>2, <4>1, <2>2, <2>3
    <3>3. CASE i = 0
      <4>1. i \in 0 .. m
        BY <3>3
      <4>2. QED BY <3>3, <4>1, <2>2, <2>3
    <3>4. QED BY <3>1, <3>2, <3>3
  <2>7. g = [i \in 0 .. m + 1 |-> IF i = 0 THEN start ELSE Write(g[i - 1], reads[i])]
    BY <2>5, <2>6
  <2>8. Streaming(reads, m + 1, g)
    BY <2>7 DEF Streaming, start
  <2>9. QED BY <2>8
<1> HIDE DEF Good
<1>3. \A m \in 0 .. n - 1 : m \in Good => m + 1 \in Good
  BY <1>2
<1>4. \A m \in 0 .. n : m \in Good
  BY <1>1, <1>3, Induction
<1>5. n \in Good
  BY <1>4
<1>6. QED BY <1>5 DEF Good

\* The first reads.
First(reads, n) == [i \in 1 .. n |-> reads[i]]

LEMMA FirstIs ==
  ASSUME NEW T, NEW reads \in Seq(Seq(T))
  PROVE  /\ FlattenSeq(First(reads, 0)) = <<>>
         /\ First(reads, Len(reads)) = reads
         /\ \A n \in 0 .. Len(reads) - 1 :
              FlattenSeq(First(reads, n + 1)) = FlattenSeq(First(reads, n)) \o reads[n + 1]
<1>1. First(reads, 0) = <<>>
  BY DEF First
<1>2. First(reads, Len(reads)) = reads
  BY DEF First
<1>3. Len(reads) \in Nat /\ \A i \in 1 .. Len(reads) : reads[i] \in Seq(T)
  BY LenProperties, ElementOfSeq
<1>4. ASSUME NEW n \in 0 .. Len(reads) - 1
      PROVE  FlattenSeq(First(reads, n + 1)) = FlattenSeq(First(reads, n)) \o reads[n + 1]
  <2>1. /\ n \in Nat /\ n + 1 \in 1 .. Len(reads)
        /\ \A i \in 1 .. n : i \in 1 .. Len(reads) /\ i \in 1 .. n + 1 /\ i # n + 1
        /\ \A i \in 1 .. n + 1 : i \in 1 .. n \/ i = n + 1
    BY <1>3
  <2>2. First(reads, n) \in Seq(Seq(T)) /\ Len(First(reads, n)) = n
    BY <1>3, <2>1 DEF First
  <2>3. First(reads, n + 1) = Append(First(reads, n), reads[n + 1])
    <3>1. PICK p \in Seq(Seq(T)) : p = First(reads, n) /\ Len(p) = n
                                   /\ \A i \in 1 .. n : p[i] = reads[i]
      BY <2>2 DEF First
    <3>2. PICK x \in Seq(T) : x = reads[n + 1]
      BY <1>3, <2>1
    <3>3. /\ Append(p, x) \in Seq(Seq(T)) /\ Len(Append(p, x)) = n + 1
          /\ \A i \in 1 .. n : Append(p, x)[i] = p[i]
          /\ Append(p, x)[n + 1] = x
      BY <3>1, AppendProperties
    <3>4. First(reads, n + 1) \in Seq(Seq(T)) /\ Len(First(reads, n + 1)) = n + 1
          /\ \A i \in 1 .. n + 1 : First(reads, n + 1)[i] = reads[i]
      <4>1. n + 1 \in Nat /\ \A i \in 1 .. n + 1 : i \in 1 .. Len(reads)
        BY <1>3, <2>1
      <4>2. QED BY <1>3, <4>1 DEF First
    <3>5. \A i \in 1 .. n + 1 : First(reads, n + 1)[i] = Append(p, x)[i]
      BY <2>1, <3>1, <3>2, <3>3, <3>4
    <3>6. First(reads, n + 1) = Append(p, x)
      BY <3>3, <3>4, <3>5, SeqEqual
    <3>7. QED BY <3>1, <3>2, <3>6
  <2>4. reads[n + 1] \in Seq(T)
    BY <1>3, <2>1
  <2>5. QED BY <2>2, <2>3, <2>4, FlattenAppend
<1>5. QED BY <1>1, <1>2, <1>4, FlattenEmpty

\* What has been sent, and what remains, are the first reads.
StreamInv(T, s, reads, n) ==
  /\ s.remaining \in Seq(T) /\ Len(s.remaining) < ChunkSize
  /\ s.sent \in Seq(Seq(T)) /\ Pieces(s.sent)
  /\ FlattenSeq(s.sent) \o s.remaining = FlattenSeq(First(reads, n))

LEMMA WriteKeeps ==
  ASSUME NEW T, NEW reads \in Seq(Seq(T)), NEW n \in 0 .. Len(reads) - 1, NEW s,
         StreamInv(T, s, reads, n)
  PROVE  StreamInv(T, Write(s, reads[n + 1]), reads, n + 1)
<1>1. Len(reads) \in Nat /\ n + 1 \in 1 .. Len(reads)
  BY LenProperties
<1>2. PICK x \in Seq(T) : x = reads[n + 1]
  BY <1>1, ElementOfSeq
<1>3. PICK r \in Seq(T), sent \in Seq(Seq(T)) :
        /\ r = s.remaining /\ sent = s.sent /\ Pieces(sent)
        /\ FlattenSeq(sent) \o r = FlattenSeq(First(reads, n))
  BY DEF StreamInv
<1>4. PICK data \in Seq(T) : data = r \o x
  BY ConcatProperties
<1>5. PICK c : c = Cut(sent, data)
  OBVIOUS
<1>6. /\ c.remaining \in Seq(T) /\ Len(c.remaining) < ChunkSize
      /\ c.sent \in Seq(Seq(T)) /\ Pieces(c.sent)
      /\ FlattenSeq(c.sent) \o c.remaining = FlattenSeq(sent) \o data
  BY <1>3, <1>5, CutIs
<1>7. Write(s, reads[n + 1]) = c
  BY <1>2, <1>3, <1>4, <1>5 DEF Write
<1>8. FlattenSeq(sent) \o data = FlattenSeq(First(reads, n + 1))
  <2>1. FlattenSeq(sent) \in Seq(T)
    BY FlattenType
  <2>2. (FlattenSeq(sent) \o r) \o x = FlattenSeq(sent) \o (r \o x)
    BY <2>1, ConcatAssociative
  <2>3. FlattenSeq(First(reads, n + 1)) = FlattenSeq(First(reads, n)) \o reads[n + 1]
    BY FirstIs
  <2>4. QED BY <1>2, <1>3, <1>4, <2>2, <2>3
<1>9. QED BY <1>6, <1>7, <1>8 DEF StreamInv

\* However the value comes, together the chunks are all of it, and each but the
\* last is a whole one.
LEMMA ChunksAreAll ==
  ASSUME NEW T, NEW reads \in Seq(Seq(T))
  PROVE  /\ FlattenSeq(Chunks(reads)) = FlattenSeq(reads)
         /\ \A i \in 1 .. Len(Chunks(reads)) - 1 : Len(Chunks(reads)[i]) = ChunkSize
<1> DEFINE n == Len(reads)
           start == [remaining |-> <<>>, sent |-> <<>>]
           stream[i \in 0 .. n] == IF i = 0 THEN start ELSE Write(stream[i - 1], reads[i])
           end == stream[n]
<1>1. n \in Nat
  BY LenProperties
<1>2. PICK f : f = [i \in 0 .. n |-> IF i = 0 THEN start ELSE Write(f[i - 1], reads[i])]
  BY <1>1, StreamingExists DEF Streaming
<1>3. stream = [i \in 0 .. n |-> IF i = 0 THEN start ELSE Write(stream[i - 1], reads[i])]
  BY <1>2
<1>4. Chunks(reads) = IF end.remaining = <<>> THEN end.sent
                      ELSE Append(end.sent, end.remaining)
  BY DEF Chunks
<1> HIDE DEF stream
<1>5. stream[0] = start
  <2>1. 0 \in 0 .. n
    BY <1>1
  <2> HIDE DEF n, start
  <2>2. QED BY <1>3, <2>1
<1>6. ASSUME NEW i \in 0 .. n - 1 PROVE stream[i + 1] = Write(stream[i], reads[i + 1])
  <2>1. i + 1 \in 0 .. n /\ i + 1 # 0 /\ i + 1 - 1 = i
    BY <1>1
  <2>2. stream[i + 1] = IF i + 1 = 0 THEN start ELSE Write(stream[i + 1 - 1], reads[i + 1])
    BY <1>3, <2>1
  <2>3. QED BY <2>1, <2>2
<1> DEFINE Good == {m \in 0 .. n : StreamInv(T, stream[m], reads, m)}
<1>7. 0 \in Good
  <2>1. start.remaining = <<>> /\ start.sent = <<>>
    OBVIOUS
  <2>2. <<>> \in Seq(T) /\ <<>> \in Seq(Seq(T)) /\ Len(<<>>) = 0
    BY EmptySeq
  <2>3. FlattenSeq(<<>>) \o <<>> = FlattenSeq(First(reads, 0))
    BY <2>2, FlattenEmpty, FirstIs, ConcatEmptySeq
  <2>4. 0 < ChunkSize /\ Pieces(<<>>)
    BY <2>2, ValuesAssumption DEF Pieces
  <2> HIDE DEF start
  <2>5. StreamInv(T, start, reads, 0)
    BY <2>1, <2>2, <2>3, <2>4 DEF StreamInv
  <2>6. QED BY <1>1, <1>5, <2>5
<1>8. ASSUME NEW m \in 0 .. n - 1, m \in Good PROVE m + 1 \in Good
  <2>1. StreamInv(T, stream[m], reads, m)
    BY <1>8
  <2>2. StreamInv(T, Write(stream[m], reads[m + 1]), reads, m + 1)
    BY <2>1, WriteKeeps
  <2>3. m + 1 \in 0 .. n
    BY <1>1
  <2>4. QED BY <1>6, <2>2, <2>3
<1>9. StreamInv(T, end, reads, n)
  <2>1. n \in Good
    <3> HIDE DEF Good, n
    <3>1. \A m \in 0 .. n : m \in Good
      BY <1>1, <1>7, <1>8, Induction
    <3>2. QED BY <1>1, <3>1
  <2>2. QED BY <2>1
<1>10. PICK r \in Seq(T), sent \in Seq(Seq(T)) :
         /\ r = end.remaining /\ sent = end.sent /\ Pieces(sent)
         /\ FlattenSeq(sent) \o r = FlattenSeq(reads)
  BY <1>9, FirstIs DEF StreamInv
<1>11. Chunks(reads) = IF r = <<>> THEN sent ELSE Append(sent, r)
  BY <1>4, <1>10
<1> HIDE DEF end
<1>12. Len(sent) \in Nat /\ FlattenSeq(sent) \in Seq(T)
  BY LenProperties, FlattenType
<1>13. CASE r = <<>>
  <2>1. FlattenSeq(sent) \o <<>> = FlattenSeq(sent)
    BY <1>12, ConcatEmptySeq
  <2>2. \A i \in 1 .. Len(sent) - 1 : i \in 1 .. Len(sent)
    BY <1>12
  <2>3. QED BY <1>10, <1>11, <1>13, <2>1, <2>2 DEF Pieces
<1>14. CASE r # <<>>
  <2>1. FlattenSeq(Append(sent, r)) = FlattenSeq(sent) \o r
    BY FlattenAppend
  <2>2. Len(Append(sent, r)) = Len(sent) + 1
        /\ \A i \in 1 .. Len(sent) : Append(sent, r)[i] = sent[i]
    BY AppendProperties
  <2>3. \A i \in 1 .. Len(sent) + 1 - 1 : i \in 1 .. Len(sent)
    BY <1>12
  <2>4. QED BY <1>10, <1>11, <1>14, <2>1, <2>2, <2>3 DEF Pieces
<1>15. QED BY <1>13, <1>14

LEMMA EachInPlace ==
  ASSUME NEW length \in Nat
  PROVE  /\ FlattenSeq(Chunks(Reads(Text(length)))) = Text(length)
         /\ \A i \in 1 .. Len(Chunks(Reads(Text(length)))) - 1 :
              Len(Chunks(Reads(Text(length)))[i]) = ChunkSize
<1>1. Text(length) \in Seq(Nat)
  BY DEF Text
<1>2. PICK reads \in Seq(Seq(Nat)) :
        reads = Reads(Text(length)) /\ FlattenSeq(reads) = Text(length)
  BY <1>1, ReadsAre
<1>3. QED BY <1>2, ChunksAreAll

\* When chunks are sent, they are all of the value and each is in its place,
\* for any size of the chunks and of the reads (PartialValueWriteStream).
THEOREM InPlace == Spec => []ChunksInPlace
<1>1. \A length \in 1 .. MaxValue :
        /\ FlattenSeq(Chunks(Reads(Text(length)))) = Text(length)
        /\ \A i \in 1 .. Len(Chunks(Reads(Text(length)))) - 1 :
             Len(Chunks(Reads(Text(length)))[i]) = ChunkSize
  <2>1. \A length \in 1 .. MaxValue : length \in Nat
    BY ValuesAssumption
  <2>2. QED BY <2>1, EachInPlace
<1>2. ChunksInPlace
  BY <1>1 DEF ChunksInPlace
<1>3. QED BY <1>2, PTL

=============================================================================
