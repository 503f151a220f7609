--------------------------- MODULE PartialTransfer ---------------------------
(***************************************************************************)
(* A value of many chunks fetched into memory (issuePartialValueRequest    *)
(* and handlePartialValueRequest of RPC.js, MemoryKVStore.js,              *)
(* MemoryPartialValue.js, PartialValueWriteStream.js), for the one key     *)
(* that some transfers, of STORE requests and downloads, are about.        *)
(*                                                                         *)
(* An attempt asks for chunks; when no chunk has come for a second it      *)
(* starts another one, nested in it, for those that are missing. When the  *)
(* innermost has all its chunks each of the attempts saves what it holds,  *)
(* the first one last. Nothing else waits in memory, so what happens when  *)
(* a message or a timer comes is one step.                                 *)
(*                                                                         *)
(* A value is written as the set of its chunks that have their data: the   *)
(* others are spaces. The network repeats, reorders and loses messages: a  *)
(* message that was sent stays in the set, and may come any time or never. *)
(***************************************************************************)
EXTENDS Integers, FiniteSets, SequencesExt

CONSTANTS
  Transfer,   \* the transfers
  Chunk,      \* the chunks of the value, numbers in the order of their place
  SortOrder,  \* the chunks as Array.prototype.sort puts them: "10240" < "2048"
  None

ASSUME TransferAssumption ==
  /\ IsFiniteSet(Transfer)
  /\ IsFiniteSet(Chunk)
  /\ Chunk \subseteq Nat
  /\ Chunk # {}
  /\ SortOrder \in Seq(Chunk)
  /\ \A c \in Chunk : \E i \in DOMAIN SortOrder : SortOrder[i] = c
  /\ Len(SortOrder) = Cardinality(Chunk)
  /\ None \notin BOOLEAN
  /\ \A S \in SUBSET Chunk : None # S

VARIABLES
  attempts,   \* the attempts of each transfer, each nested in the one before
  memory,     \* kvStore.memory[key], or None
  net,        \* all messages that were sent
  answer      \* what became of each transfer: STORE's true or false

vars == <<attempts, memory, net, answer>>

\* only: the argument; the empty one stands for all the chunks. asked: the
\* chunks with a pending request. missing: the code's "chunks". value: the
\* chunks that the partial value has.
Attempt == [only : SUBSET Chunk, asked : SUBSET Chunk, missing : SUBSET Chunk,
            value : SUBSET Chunk]

\* The n-th request of t, and the answers to it ("x_messageId").
Message ==
  [type : {"PARTIAL_VALUE"}, of : Transfer, n : Nat, only : SUBSET Chunk]
    \cup [type : {"PARTIAL_VALUE_REPLY"}, of : Transfer, n : Nat, chunk : Chunk]

TypeOK ==
  /\ attempts \in [Transfer -> Seq(Attempt)]
  /\ memory = None \/ memory \in SUBSET Chunk
  /\ net \subseteq Message
  /\ answer \in [Transfer -> BOOLEAN \cup {None}]

-----------------------------------------------------------------------------
(* The peer that has the value.                                            *)

Place(c) == CHOOSE i \in DOMAIN SortOrder : SortOrder[i] = c

\* PartialValueWriteStream: the chunks go by in the order of their place, and
\* each is sent that is the next of those wanted, which were sorted: those up to
\* the first that the sort puts behind one that goes by after it.
Sent(only) ==
  IF only = {} THEN Chunk
  ELSE {c \in only : \A d, e \in only :
          Place(d) < Place(e) /\ Place(e) <= Place(c) => d < e}

\* handlePartialValueRequest. It sends nothing if it lost the value.
Serve ==
  \E m \in net :
    /\ m.type = "PARTIAL_VALUE"
    /\ net' = net \cup {[type |-> "PARTIAL_VALUE_REPLY", of |-> m.of, n |-> m.n,
                         chunk |-> c] : c \in Sent(m.only)}
    /\ UNCHANGED <<attempts, memory, answer>>

-----------------------------------------------------------------------------
(* The peer that fetches it.                                               *)

Running(t) == attempts[t] # << >> /\ answer[t] = None

Asks(only) == IF only = {} THEN Chunk ELSE only

\* createPartialValue, start and sendMessage.
Begin(t, only) ==
  LET n == Len(attempts[t]) + 1
      attempt == [only |-> only, asked |-> Asks(only), missing |-> Asks(only),
                  value |-> IF memory = None THEN {} ELSE memory]
  IN  /\ attempts' = [attempts EXCEPT ![t] = Append(@, attempt)]
      /\ net' = net \cup {[type |-> "PARTIAL_VALUE", of |-> t, n |-> n,
                           only |-> only]}
      /\ UNCHANGED <<memory, answer>>

\* Every attempt destroys its value, which is not in memory yet.
Fail(t) ==
  /\ answer' = [answer EXCEPT ![t] = FALSE]
  /\ UNCHANGED <<attempts, memory, net>>

Start(t) ==
  /\ attempts[t] = << >>
  /\ answer[t] = None
  /\ Begin(t, {}) \/ Fail(t)   \* sendMessage can fail

\* Mutant: what is saved is a chunk too long.
SavedTooLong(as) == Head(as).value \cup {Cardinality(Chunk) + 1}

\* What is in memory once each of the attempts as has saved, the last one
\* first.
Saved(as) == Head(as).value

\* Mutant: the last chunk ends the wait before it is added.
ReceiveLate(t, c) ==
  LET n == Len(attempts[t])
      left == attempts[t][n].missing \ {c}
      a == [attempts[t][n] EXCEPT !.asked = @ \ {c}, !.missing = left,
              !.value = IF left = {} THEN @ ELSE @ \cup {c}]
  IN  /\ attempts' = [attempts EXCEPT ![t][n] = a]
      /\ IF left = {}
           THEN /\ memory' = Saved(attempts'[t])
                /\ answer' = [answer EXCEPT ![t] = TRUE]
           ELSE UNCHANGED <<memory, answer>>
      /\ UNCHANGED net

\* The innermost attempt gets a chunk: it is added, and if it was the last one
\* missing the transfer has succeeded.
Receive(t, c) ==
  LET n == Len(attempts[t])
      a == [attempts[t][n] EXCEPT !.asked = @ \ {c}, !.missing = @ \ {c},
                                  !.value = @ \cup {c}]
  IN  /\ attempts' = [attempts EXCEPT ![t][n] = a]
      /\ IF a.missing = {}
           THEN /\ memory' = Saved(attempts'[t])
                /\ answer' = [answer EXCEPT ![t] = TRUE]
           ELSE UNCHANGED <<memory, answer>>
      /\ UNCHANGED net

Awaits(t, c) == Running(t) /\ c \in attempts[t][Len(attempts[t])].asked

\* Mutant: an answer to an earlier attempt will do.
ArriveAny(t, c) ==
  /\ Awaits(t, c)
  /\ \E m \in net : m.type = "PARTIAL_VALUE_REPLY" /\ m.of = t /\ m.chunk = c
  /\ Receive(t, c)

\* A chunk comes that the innermost attempt has a pending request for.
Arrive(t, c) ==
  /\ Awaits(t, c)
  /\ [type |-> "PARTIAL_VALUE_REPLY", of |-> t, n |-> Len(attempts[t]),
      chunk |-> c] \in net
  /\ Receive(t, c)

\* Mutant: also if no chunk has come at all.
WorthwhileAnyway(a) ==
  a.only = {} \/ Cardinality(a.missing) <= Cardinality(a.only)

\* Whether an attempt that timed out is followed by another.
Worthwhile(a) ==
  a.only = {} \/ Cardinality(a.missing) < Cardinality(a.only)

\* No chunk for a second. The attempt fails if it has lasted 30.
Timeout(t) ==
  LET a == attempts[t][Len(attempts[t])]
  IN  /\ Running(t)
      /\ \/ /\ Worthwhile(a)
            /\ Begin(t, a.missing)
         \/ Fail(t)

-----------------------------------------------------------------------------
Init ==
  /\ attempts = [t \in Transfer |-> << >>]
  /\ memory = None
  /\ net = {}
  /\ answer = [t \in Transfer |-> None]

Next ==
  \/ Serve
  \/ \E t \in Transfer :
       Start(t) \/ Timeout(t) \/ \E c \in Chunk : Arrive(t, c)

Spec == Init /\ [][Next]_vars

-----------------------------------------------------------------------------
(* Properties.                                                             *)

\* Between them the attempts of a transfer that succeeds have been sent every
\* chunk, each in an answer to the attempt that had asked for it.
Got(t) ==
  {c \in Chunk : \E i \in DOMAIN attempts[t] :
     /\ c \in Asks(attempts[t][i].only)
     /\ c \in attempts[t][i].value
     /\ [type |-> "PARTIAL_VALUE_REPLY", of |-> t, n |-> i, chunk |-> c] \in net}
AllChunksCame == \A t \in Transfer : answer[t] = TRUE => Got(t) = Chunk

\* A transfer has at most one attempt more than there are chunks: the second
\* asks for all of them at most, and each later one for fewer.
AttemptsBounded ==
  \A t \in Transfer : Len(attempts[t]) <= Cardinality(Chunk) + 1

\* The value is whole if no transfer had to begin a second attempt.
WholeUnlessRetried ==
  (\A t \in Transfer : Len(attempts[t]) <= 1) => memory \in {None, Chunk}

\* The value is whole once a transfer has succeeded: dht/example.js compares
\* what it reads from the store with what was uploaded.
StoredWhole == (\E t \in Transfer : answer[t] = TRUE) => memory = Chunk

=============================================================================
