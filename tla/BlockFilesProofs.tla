--------------------------- MODULE BlockFilesProofs ---------------------------
(***************************************************************************)
(* Proofs about BlockFiles, for any transfers, keys, chunks, crashes and   *)
(* errors. First the types, for which a transfer that opens a file must    *)
(* find a descriptor free, and that whoever has opened the file a          *)
(* descriptor stands for, or has the same number from before, is yet to    *)
(* close it, or has lost it. Then the blocks that are not spoilt.          *)
(***************************************************************************)
EXTENDS BlockFiles, FiniteSetTheorems, WellFoundedInduction, TLAPS

\* Where a transfer will close its descriptor whatever happens to it, or has
\* lost it for good.
Closing == {"reserve", "ask", "receive", "stream", "saveClose", "destroyClose"}

Closes(j) == j.at \in Closing \/ j.pausing \/ (j.key \in Raw /\ j.held) \/ j.lost

\* What holds of the record of a transfer by itself.
JobOK(j) ==
  /\ j \in Job
  /\ j.at # "idle" => j.key \in Key /\ j.path \in {Temp(j.key), Block(j.key)}
  /\ j.at \in {"idle", "create", "open", "hung"} => j.fd = None
  /\ j.at \in Waiting \ {"create", "open"} => j.fd \in Fd
  /\ j.fd = None => ~j.held /\ ~j.lost /\ j.sent = {} /\ ~j.pausing
  /\ j.at \in {"ask", "receive"} => j.held
  /\ j.at = "stream" => j.held /\ j.key \in Raw
  /\ j.at \in {"reserve", "ask", "receive"} => j.key \notin Raw
  /\ j.at \in {"reserve", "ask", "receive", "stream"} => ~j.pausing

\* What TypeOK says of all but the histories, and of these.
FilesOK ==
  /\ dir \in [Path -> Nat \cup {None}]
  /\ \A p \in Path : dir[p] # None => dir[p] \in DOMAIN file
  /\ file \in Seq(Content)
  /\ open \in [Fd -> Nat \cup {None}]
  /\ \A d \in Fd : open[d] # None => open[d] \in DOMAIN file
  /\ job \in [Transfer -> Job]

Counted ==
  /\ crashes \in 0..MaxCrashes
  /\ errors \in 0..MaxErrors
  /\ spoilt \subseteq Key

JobsOK == \A t \in Transfer : JobOK(job[t])

\* Every descriptor that is open has someone who will close it, or lost it.
ClosedInTime ==
  \A d \in Fd : open[d] # None =>
    \E t \in Transfer : job[t].fd = d /\ Closes(job[t])

IInv == FilesOK /\ JobsOK /\ ClosedInTime

-----------------------------------------------------------------------------
(* Files and descriptors.                                                  *)

LEMMA ConstantFacts ==
  /\ IsFiniteSet(Transfer) /\ Cardinality(Transfer) \in Nat
  /\ Chunks \in Nat \ {0}
  /\ None \notin Nat /\ None \notin BOOLEAN /\ None \notin Key
  /\ \A d \in Fd : d \in Nat /\ d # None
<1>1. Cardinality(Transfer) \in Nat
  BY FilesAssumption, FS_CardinalityType
<1>2. QED BY <1>1, FilesAssumption DEF Fd

LEMMA PathFacts ==
  /\ \A k \in Key : Temp(k) \in Path /\ Block(k) \in Path
  /\ \A k, l : Temp(k) = Temp(l) => k = l
  /\ \A k, l : Block(k) = Block(l) => k = l
  /\ \A k, l : Temp(k) # Block(l)
BY DEF Temp, Block, Path

LEMMA PaddedFacts ==
  ASSUME NEW f \in Content
  PROVE  /\ Padded(f) \in [Chunk -> Key \cup {Blank}]
         /\ \A cs : \A k \in Key :
              [c \in Chunk |-> IF c \in cs THEN k ELSE Padded(f)[c]] \in Content
<1>1. CASE f = << >>
  BY <1>1, ConstantFacts DEF Padded, Chunk, Content
<1>2. CASE f \in [Chunk -> Key \cup {Blank}]
  BY <1>2 DEF Padded, Content
<1>3. QED BY <1>1, <1>2 DEF Content

\* One file gets another content.
LEMMA FileChanges ==
  ASSUME FilesOK, NEW i \in DOMAIN file, NEW f \in Content,
         file' = [file EXCEPT ![i] = f]
  PROVE  /\ file' \in Seq(Content) /\ DOMAIN file' = DOMAIN file
         /\ file'[i] = f
         /\ \A x \in DOMAIN file : x # i => file'[x] = file[x]
BY DEF FilesOK

\* A write of a transfer that has a descriptor.
LEMMA WriteFacts ==
  ASSUME FilesOK, NEW t \in Transfer, NEW cs, job[t].fd \in Fd,
         job[t].key \in Key, IsOpen(t), Write(t, cs)
  PROVE  /\ file' \in Seq(Content) /\ DOMAIN file' = DOMAIN file
         /\ \A x \in DOMAIN file : x # open[job[t].fd] => file'[x] = file[x]
<1> DEFINE i == open[job[t].fd]
           f == [c \in Chunk |-> IF c \in cs THEN job[t].key
                                 ELSE Padded(file[i])[c]]
<1>1. i \in DOMAIN file /\ file[i] \in Content
  BY DEF IsOpen, FilesOK
<1>2. f \in Content
  BY <1>1, PaddedFacts
<1>3. file' = [file EXCEPT ![i] = f]
  BY <1>1 DEF Write, FilesOK
<1> HIDE DEF i, f
<1>4. QED BY <1>1, <1>2, <1>3, FileChanges DEF i

\* A set of numbers that is not empty has a least one.
LEMMA LeastOf ==
  ASSUME NEW S, S \subseteq Nat, S # {}
  PROVE  \E n \in S : \A m \in S : n <= m
<1> DEFINE R == OpToRel(<, Nat)
<1>1. IsWellFoundedOn(R, Nat)
  BY NatLessThanWellFounded
<1>2. \A i, j \in Nat : <<i, j>> \in R <=> i < j
  BY DEF OpToRel
<1> HIDE DEF R
<1>3. PICK n \in S : \A m \in S : <<m, n>> \notin R
  BY <1>1, WFMin
<1>4. ASSUME NEW m \in S PROVE n <= m
  <2>1. m \in Nat /\ n \in Nat OBVIOUS
  <2>2. ~(m < n) BY <1>2, <1>3, <2>1
  <2>3. QED BY <2>1, <2>2
<1>5. QED BY <1>4

\* There is a descriptor for whoever opens a file: each that is open was
\* opened last by one of the other transfers.
LEMMA SomeFree ==
  ASSUME IInv, NEW t \in Transfer, job[t].fd = None
  PROVE  LowestFree \in Fd /\ open[LowestFree] = None
<1>1. \E d \in Fd : open[d] = None
  <2> SUFFICES ASSUME \A d \in Fd : open[d] # None PROVE FALSE
    OBVIOUS
  <2> DEFINE rest  == Transfer \ {t}
             owner == [d \in Fd |-> CHOOSE u \in rest : job[u].fd = d]
  <2>1. \A d \in Fd : \E u \in rest : job[u].fd = d
    BY ConstantFacts DEF IInv, ClosedInTime
  <2>2. \A d \in Fd : owner[d] \in rest /\ job[owner[d]].fd = d
    BY <2>1
  <2>3. owner \in [Fd -> rest]
    BY <2>2
  <2>4. IsFiniteSet(rest) /\ Cardinality(rest) = Cardinality(Transfer) - 1
    BY ConstantFacts, FS_RemoveElement
  <2>5. IsFiniteSet(Fd) /\ Cardinality(Fd) = Cardinality(Transfer)
    <3>1. Cardinality(Transfer) > 0
      BY ConstantFacts, FS_EmptySet
    <3>2. QED BY <3>1, ConstantFacts, FS_Interval DEF Fd
  <2> HIDE DEF owner, rest
  <2>6. \E x, y \in Fd : x # y /\ owner[x] = owner[y]
    BY <2>3, <2>4, <2>5, ConstantFacts, FS_PigeonHole
  <2>7. QED BY <2>2, <2>6
<1>2. \E d \in Fd : open[d] = None /\ \A e \in Fd : open[e] = None => d <= e
  <2> DEFINE free == {d \in Fd : open[d] = None}
  <2>1. free \subseteq Nat /\ free # {}
    BY <1>1 DEF Fd
  <2>2. \E d \in free : \A e \in free : d <= e
    BY <2>1, LeastOf
  <2>3. QED BY <2>2
<1>3. QED BY <1>2 DEF LowestFree

-----------------------------------------------------------------------------
(* Steps of one transfer.                                                  *)

\* The record of one transfer is another one now.
LEMMA JobChanges ==
  ASSUME IInv, NEW t \in Transfer, NEW STATE j, JobOK(j),
         job' = [job EXCEPT ![t] = j]
  PROVE  job' \in [Transfer -> Job] /\ JobsOK'
BY DEF IInv, FilesOK, JobsOK, JobOK

\* It keeps its descriptor, and still closes it if it had to.
LEMMA StillCloses ==
  ASSUME IInv, NEW t \in Transfer, NEW STATE j,
         job' = [job EXCEPT ![t] = j], open' = open, j.fd = job[t].fd,
         \/ Closes(job[t]) => Closes(j)
         \/ ~IsOpen(t)
  PROVE  ClosedInTime'
<1> SUFFICES ASSUME NEW d \in Fd, open[d] # None
             PROVE  \E u \in Transfer : job'[u].fd = d /\ Closes(job'[u])
  BY DEF ClosedInTime
<1>1. PICK u \in Transfer : job[u].fd = d /\ Closes(job[u])
  BY DEF IInv, ClosedInTime
<1>2. CASE u # t
  BY <1>1, <1>2 DEF IInv, FilesOK
<1>3. CASE u = t
  <2>1. IsOpen(t)
    BY <1>1, <1>3, ConstantFacts DEF IsOpen
  <2>2. job'[t] = j
    BY DEF IInv, FilesOK
  <2>3. QED BY <1>1, <1>3, <2>1, <2>2
<1>4. QED BY <1>2, <1>3

\* It closes its descriptor: no other one is touched.
LEMMA NowClosed ==
  ASSUME IInv, NEW t \in Transfer, NEW STATE j, job[t].fd \in Fd,
         job' = [job EXCEPT ![t] = j], Close(t)
  PROVE  /\ ClosedInTime'
         /\ open' \in [Fd -> Nat \cup {None}] /\ open'[job[t].fd] = None
         /\ \A d \in Fd : open'[d] # None => open'[d] = open[d]
<1>1. /\ open' \in [Fd -> Nat \cup {None}] /\ open'[job[t].fd] = None
      /\ \A d \in Fd : d # job[t].fd => open'[d] = open[d]
  BY DEF Close, IInv, FilesOK
<1>2. \A u \in Transfer : u # t => job'[u] = job[u]
  BY DEF IInv, FilesOK
<1>3. QED BY <1>1, <1>2 DEF IInv, ClosedInTime

\* The three ways in which a step leaves the files.
LEMMA StepOf ==
  ASSUME IInv, NEW t \in Transfer, NEW STATE j, JobOK(j),
         job' = [job EXCEPT ![t] = j], dir' = dir,
         file' \in Seq(Content), DOMAIN file' = DOMAIN file,
         \/ /\ open' = open /\ j.fd = job[t].fd
            /\ (Closes(job[t]) => Closes(j)) \/ ~IsOpen(t)
         \/ Close(t) /\ job[t].fd \in Fd
  PROVE  IInv'
<1>1. job' \in [Transfer -> Job] /\ JobsOK'
  BY JobChanges
<1>2. CASE /\ open' = open /\ j.fd = job[t].fd
           /\ (Closes(job[t]) => Closes(j)) \/ ~IsOpen(t)
  <2>1. ClosedInTime'
    BY <1>2, StillCloses
  <2>2. FilesOK'
    BY <1>1, <1>2 DEF IInv, FilesOK
  <2>3. QED BY <1>1, <2>1, <2>2 DEF IInv
<1>3. CASE Close(t) /\ job[t].fd \in Fd
  <2>1. /\ ClosedInTime' /\ open' \in [Fd -> Nat \cup {None}]
        /\ \A d \in Fd : open'[d] # None => open'[d] = open[d]
    BY <1>3, NowClosed
  <2>2. FilesOK'
    BY <1>1, <2>1 DEF IInv, FilesOK
  <2>3. QED BY <1>1, <2>1, <2>2 DEF IInv
<1>4. QED BY <1>2, <1>3

LEMMA JobOf ==
  ASSUME IInv, NEW t \in Transfer
  PROVE  JobOK(job[t]) /\ job[t] \in Job /\ job \in [Transfer -> Job]
BY DEF IInv, JobsOK, JobOK, FilesOK

\* An answer ends a transfer, destroy() makes it close or unlink.
LEMMA EndedOK ==
  ASSUME NEW j, JobOK(j), j.at # "idle", NEW answer \in BOOLEAN
  PROVE  JobOK(Ended(j, answer)) /\ Ended(j, answer).fd = j.fd
<1>1. j \in Job
  BY DEF JobOK
<1>2. QED BY <1>1 DEF JobOK, Ended, Job, Waiting

LEMMA DestroyOK ==
  ASSUME NEW j, JobOK(j), j.fd \in Fd, j.at # "idle"
  PROVE  /\ JobOK(Destroy(j)) /\ Destroy(j).fd = j.fd
         /\ j.held => Closes(Destroy(j))
         /\ Destroy(j).pausing = j.pausing /\ Destroy(j).lost = j.lost
<1>1. j \in Job
  BY DEF JobOK
<1>2. QED BY <1>1, ConstantFacts DEF JobOK, Destroy, Job, Waiting, Closes, Closing

LEMMA GaveUpOK ==
  ASSUME NEW j, JobOK(j), j.at = "receive", NEW g \in GaveUp(j)
  PROVE  JobOK(g) /\ g.fd = j.fd /\ Closes(g)
<1> DEFINE quiet == [j EXCEPT !.asked = {}, !.left = {}, !.timer = FALSE,
                              !.leaked = FALSE]
<1>1. JobOK(quiet) /\ quiet.fd = j.fd /\ quiet.fd \in Fd /\ quiet.held
      /\ quiet.at = "receive"
  BY DEF JobOK, Job, Waiting
<1>2. g \in {Destroy(quiet), [Destroy(quiet) EXCEPT !.pausing = TRUE]}
  BY DEF GaveUp
<1> HIDE DEF quiet
<1>3. JobOK(Destroy(quiet)) /\ Destroy(quiet).fd = j.fd /\ Closes(Destroy(quiet))
  BY <1>1, DestroyOK
<1> DEFINE d == Destroy(quiet)
<1> HIDE DEF d
<1>4. JobOK([d EXCEPT !.pausing = TRUE]) /\ [d EXCEPT !.pausing = TRUE].fd = j.fd
      /\ Closes([d EXCEPT !.pausing = TRUE])
  <2>1. /\ JobOK(d) /\ d \in Job /\ d.fd \in Fd /\ d.fd = j.fd
        /\ d.at \in {"destroyClose", "unlink"}
    BY <1>1, <1>3 DEF d, JobOK, Destroy, Job
  <2>2. QED BY <2>1, ConstantFacts DEF JobOK, Job, Closes
<1>5. QED BY <1>2, <1>3, <1>4 DEF d

LEMMA StartInd ==
  ASSUME IInv, NEW t \in Transfer, NEW k \in Key, Start(t, k)
  PROVE  IInv'
<1> DEFINE j == [job[t] EXCEPT !.at = "create", !.key = k, !.path = Temp(k)]
<1>1. JobOK(j) /\ j.fd = job[t].fd /\ ~Closes(job[t])
  <2>1. /\ job[t] \in Job /\ job[t].at = "idle" /\ job[t].fd = None
        /\ ~job[t].held /\ job[t].sent = {} /\ ~job[t].pausing
        /\ ~job[t].lost /\ Temp(k) \in Path
    BY JobOf, PathFacts DEF Start, JobOK
  <2>2. j \in Job
    BY <2>1 DEF Job, Waiting
  <2>3. QED BY <2>1, <2>2, ConstantFacts DEF JobOK, Waiting, Closes, Closing
<1>2. job' = [job EXCEPT ![t] = j] /\ UNCHANGED <<dir, file, open>>
  BY DEF Start, To
<1> HIDE DEF j
<1>3. QED BY <1>1, <1>2, StepOf DEF IInv, FilesOK

LEMMA CreateInd ==
  ASSUME IInv, NEW t \in Transfer, Create(t)
  PROVE  IInv'
<1>1. /\ JobOK(job[t]) /\ job[t] \in Job /\ job[t].at = "create"
      /\ job[t].path \in Path /\ ~Closes(job[t])
  BY JobOf, PathFacts DEF Create, JobOK, Closes, Closing
<1>2. CASE job' = [job EXCEPT ![t] = At(t, "open")] /\ Works(TRUE)
  <2> DEFINE j == At(t, "open")
  <2>1. JobOK(j) /\ j.fd = job[t].fd
    BY <1>1, ConstantFacts DEF At, JobOK, Job, Waiting
  <2>2. job' = [job EXCEPT ![t] = j] /\ open' = open
        /\ IF Exists(t) THEN UNCHANGED <<dir, file>>
           ELSE /\ file' = Append(file, << >>)
                /\ dir' = [dir EXCEPT ![job[t].path] = Len(file) + 1]
    <3>1. j.at = "open" /\ job'[t] = j
      BY <1>1, <1>2, JobOf DEF At, Job
    <3>2. ~(job' = [job EXCEPT ![t] = IF IsRaw(t) THEN At(t, "hung")
                                      ELSE Ended(job[t], FALSE)])
      <4>1. At(t, "hung").at = "hung" /\ Ended(job[t], FALSE).at = "ended"
        BY <1>1 DEF At, Ended, Job
      <4>2. QED BY <3>1, <4>1, JobOf
    <3>3. QED BY <1>2, <3>2 DEF Create, To
  <2> HIDE DEF j
  <2>3. ClosedInTime' /\ job' \in [Transfer -> Job] /\ JobsOK'
    BY <1>1, <2>1, <2>2, StillCloses, JobChanges
  <2>4. /\ dir' \in [Path -> Nat \cup {None}] /\ file' \in Seq(Content)
        /\ \A x \in DOMAIN file : x \in DOMAIN file'
        /\ \A p \in Path : dir'[p] # None => dir'[p] \in DOMAIN file'
    <3>1. CASE Exists(t)
      BY <2>2, <3>1 DEF IInv, FilesOK
    <3>2. CASE ~Exists(t)
      <4>1. /\ file' = Append(file, << >>)
            /\ dir' = [dir EXCEPT ![job[t].path] = Len(file) + 1]
        BY <2>2, <3>2
      <4>2. file' \in Seq(Content) /\ DOMAIN file' = 1 .. Len(file) + 1
            /\ DOMAIN file = 1 .. Len(file) /\ Len(file) \in Nat
        BY <4>1 DEF IInv, FilesOK, Content
      <4>3. QED BY <1>1, <4>1, <4>2 DEF IInv, FilesOK
    <3>3. QED BY <3>1, <3>2
  <2>5. QED BY <2>2, <2>3, <2>4 DEF IInv, FilesOK
<1>3. CASE /\ UNCHANGED <<dir, file, open>>
           /\ \/ IsRaw(t) /\ job' = [job EXCEPT ![t] = At(t, "hung")]
              \/ job' = [job EXCEPT ![t] = Ended(job[t], FALSE)]
  <2>1. JobOK(At(t, "hung")) /\ At(t, "hung").fd = job[t].fd
    BY <1>1, ConstantFacts DEF At, JobOK, Job, Waiting
  <2>2. JobOK(Ended(job[t], FALSE)) /\ Ended(job[t], FALSE).fd = job[t].fd
    BY <1>1, EndedOK
  <2>3. QED BY <1>1, <1>3, <2>1, <2>2, StepOf DEF IInv, FilesOK
<1>4. QED BY <1>2, <1>3 DEF Create, To

\* The file is opened.
Opens(t) ==
  /\ Exists(t)
  /\ open' = [open EXCEPT ![LowestFree] = dir[job[t].path]]
  /\ job' = [job EXCEPT ![t] =
       [job[t] EXCEPT !.fd = LowestFree, !.held = IsRaw(t),
                      !.at = IF IsRaw(t) THEN "stream" ELSE "reserve"]]
  /\ UNCHANGED <<dir, file>>

LEMMA OpenInd ==
  ASSUME IInv, NEW t \in Transfer, Open(t)
  PROVE  IInv'
<1>1. /\ JobOK(job[t]) /\ job[t] \in Job /\ job[t].at = "open"
      /\ job[t].fd = None /\ ~Closes(job[t]) /\ job[t].path \in Path
  BY JobOf, PathFacts DEF Open, JobOK, Closes, Closing
<1>2. CASE /\ job' = [job EXCEPT ![t] = Ended(job[t], FALSE)]
           /\ UNCHANGED <<dir, file, open>>
  <2>1. JobOK(Ended(job[t], FALSE)) /\ Ended(job[t], FALSE).fd = job[t].fd
    BY <1>1, EndedOK
  <2>2. QED BY <1>1, <1>2, <2>1, StepOf DEF IInv, FilesOK
<1>3. CASE Opens(t)
  <2> DEFINE f == LowestFree
             j == [job[t] EXCEPT !.fd = f, !.held = IsRaw(t),
                     !.at = IF IsRaw(t) THEN "stream" ELSE "reserve"]
  <2>1. f \in Fd /\ open[f] = None
    BY <1>1, SomeFree
  <2>2. /\ open' = [open EXCEPT ![f] = dir[job[t].path]]
        /\ job' = [job EXCEPT ![t] = j] /\ UNCHANGED <<dir, file>>
    BY <1>3 DEF Opens
  <2> HIDE DEF f
  <2>3. JobOK(j) /\ Closes(j) /\ j.fd = f
    <3> DEFINE raw  == [job[t] EXCEPT !.fd = f, !.held = TRUE, !.at = "stream"]
               part == [job[t] EXCEPT !.fd = f, !.held = FALSE, !.at = "reserve"]
    <3>1. /\ JobOK(part) \/ job[t].key \in Raw
          /\ JobOK(raw) \/ job[t].key \notin Raw
          /\ Closes(raw) /\ raw.fd = f /\ Closes(part) /\ part.fd = f
      BY <1>1, <2>1, ConstantFacts DEF JobOK, Job, Waiting, Closes, Closing
    <3>2. CASE job[t].key \in Raw
      <4>1. IsRaw(t) = TRUE
        BY <3>2 DEF IsRaw
      <4>2. j = raw
        BY <4>1
      <4>3. QED BY <3>1, <3>2, <4>2
    <3>3. CASE job[t].key \notin Raw
      <4>1. IsRaw(t) = FALSE
        BY <3>3 DEF IsRaw
      <4>2. j = part
        BY <4>1
      <4>3. QED BY <3>1, <3>3, <4>2
    <3>4. QED BY <3>2, <3>3
  <2> HIDE DEF j
  <2>4. job' \in [Transfer -> Job] /\ JobsOK' /\ job'[t] = j
        /\ \A u \in Transfer : u # t => job'[u] = job[u]
    BY <2>2, <2>3, JobChanges, JobOf
  <2>5. dir[job[t].path] \in DOMAIN file /\ dir[job[t].path] \in Nat
    BY <1>1, <1>3 DEF Opens, Exists, IInv, FilesOK
  <2>6. /\ open' \in [Fd -> Nat \cup {None}]
        /\ \A d \in Fd : open'[d] # None => d = f \/ open'[d] = open[d]
        /\ open'[f] \in DOMAIN file
    BY <2>1, <2>2, <2>5 DEF IInv, FilesOK
  <2>7. ClosedInTime'
    BY <1>1, <2>1, <2>3, <2>4, <2>6, ConstantFacts DEF IInv, ClosedInTime
  <2>8. FilesOK'
    BY <2>2, <2>4, <2>6 DEF IInv, FilesOK
  <2>9. QED BY <2>4, <2>7, <2>8 DEF IInv
<1>4. QED BY <1>2, <1>3 DEF Open, Opens, Works, To

LEMMA ReserveInd ==
  ASSUME IInv, NEW t \in Transfer, Reserve(t)
  PROVE  IInv'
<1>1. /\ JobOK(job[t]) /\ job[t] \in Job /\ job[t].at = "reserve"
      /\ job[t].fd \in Fd /\ job[t].key \in Key /\ FilesOK
      /\ UNCHANGED <<dir, open>>
  BY JobOf DEF Reserve, JobOK, Waiting, IInv
<1>2. CASE /\ IsOpen(t) /\ Write(t, {})
           /\ job' = [job EXCEPT ![t] = [job[t] EXCEPT !.held = TRUE, !.at = "ask"]]
  <2> DEFINE j == [job[t] EXCEPT !.held = TRUE, !.at = "ask"]
  <2>1. JobOK(j) /\ j.fd = job[t].fd /\ Closes(j)
    BY <1>1, ConstantFacts DEF JobOK, Job, Waiting, Closes, Closing
  <2>2. job' = [job EXCEPT ![t] = j]
    BY <1>2
  <2> HIDE DEF j
  <2>3. QED BY <1>1, <1>2, <2>1, <2>2, WriteFacts, StepOf
<1>3. CASE /\ file' = file
           /\ job' = [job EXCEPT ![t] =
                [Ended(job[t], FALSE) EXCEPT !.lost = IsOpen(t)]]
  <2> DEFINE e == Ended(job[t], FALSE)
             j(lost) == [e EXCEPT !.lost = lost]
  <2>1. JobOK(e) /\ e \in Job /\ e.fd = job[t].fd
    BY <1>1, EndedOK DEF JobOK
  <2> HIDE DEF e
  <2>2. \A lost \in BOOLEAN : /\ JobOK(j(lost)) /\ j(lost).fd = job[t].fd
                              /\ lost => Closes(j(lost))
    BY <1>1, <2>1, ConstantFacts DEF JobOK, Job, Waiting, Closes
  <2>3. job' = [job EXCEPT ![t] = j(IsOpen(t))] /\ IsOpen(t) \in BOOLEAN
    BY <1>3 DEF e, IsOpen
  <2> HIDE DEF j
  <2>4. QED BY <1>1, <1>3, <2>2, <2>3, StepOf DEF FilesOK
<1>4. QED BY <1>2, <1>3 DEF Reserve, Works, To

LEMMA AskInd ==
  ASSUME IInv, NEW t \in Transfer, Ask(t) \/ AskFails(t)
  PROVE  IInv'
<1>1. /\ JobOK(job[t]) /\ job[t] \in Job /\ job[t].at = "ask"
      /\ job[t].fd \in Fd /\ job[t].held /\ FilesOK
      /\ UNCHANGED <<dir, file, open>>
  BY JobOf DEF Ask, AskFails, JobOK, Waiting, IInv
<1>2. CASE Ask(t)
  <2> DEFINE j == [job[t] EXCEPT !.at = "receive", !.asked = Chunk,
                                 !.left = Chunk, !.timer = TRUE]
  <2>1. JobOK(j) /\ j.fd = job[t].fd /\ Closes(j)
    BY <1>1, ConstantFacts DEF JobOK, Job, Waiting, Closes, Closing
  <2>2. job' = [job EXCEPT ![t] = j]
    BY <1>2 DEF Ask, To
  <2> HIDE DEF j
  <2>3. QED BY <1>1, <2>1, <2>2, StepOf DEF FilesOK
<1>3. CASE AskFails(t)
  <2>1. /\ JobOK(Destroy(job[t])) /\ Destroy(job[t]).fd = job[t].fd
        /\ Closes(Destroy(job[t]))
    BY <1>1, DestroyOK
  <2>2. job' = [job EXCEPT ![t] = Destroy(job[t])]
    BY <1>3 DEF AskFails, To
  <2>3. QED BY <1>1, <2>1, <2>2, StepOf DEF FilesOK
<1>4. QED BY <1>2, <1>3

LEMMA ArriveInd ==
  ASSUME IInv, NEW t \in Transfer, NEW c \in Chunk, Arrive(t, c)
  PROVE  IInv'
<1> DEFINE j == [job[t] EXCEPT !.asked = @ \ {c}, !.sent = @ \cup {c},
                               !.timer = FALSE]
<1>1. JobOK(j) /\ j.fd = job[t].fd /\ Closes(j)
  <2>1. /\ JobOK(job[t]) /\ job[t] \in Job /\ job[t].at = "receive"
        /\ job[t].fd \in Fd
    BY JobOf DEF Arrive, JobOK, Waiting
  <2>2. QED BY <2>1, ConstantFacts DEF JobOK, Job, Waiting, Closes, Closing
<1>2. job' = [job EXCEPT ![t] = j] /\ UNCHANGED <<dir, file, open>>
  BY DEF Arrive, To
<1> HIDE DEF j
<1>3. QED BY <1>1, <1>2, StepOf DEF IInv, FilesOK

LEMMA WrittenOK ==
  ASSUME NEW j, JobOK(j), NEW c, j.fd \in Fd
  PROVE  /\ JobOK(Written(j, c)) /\ Written(j, c).fd = j.fd
         /\ Closes(j) => Closes(Written(j, c))
<1>1. j \in Job
  BY DEF JobOK
<1> DEFINE more == [j EXCEPT !.left = @ \ {c}, !.leaked = @ \/ j.timer,
                             !.timer = TRUE]
           all  == [j EXCEPT !.left = {}, !.at = "saveClose", !.timer = FALSE,
                             !.leaked = FALSE]
<1>2. CASE j.at # "receive"
  BY <1>2 DEF Written
<1>3. CASE j.at = "receive"
  <2>1. /\ JobOK(more) /\ more.fd = j.fd /\ Closes(more)
        /\ JobOK(all) /\ all.fd = j.fd /\ Closes(all)
    BY <1>1, <1>3, ConstantFacts DEF JobOK, Job, Waiting, Closes, Closing
  <2>2. Written(j, c) \in {more, all}
    BY <1>3 DEF Written
  <2> HIDE DEF more, all
  <2>3. QED BY <2>1, <2>2
<1>4. QED BY <1>2, <1>3

LEMMA WriteEndsInd ==
  ASSUME IInv, NEW t \in Transfer, NEW c \in Chunk, WriteEnds(t, c)
  PROVE  IInv'
<1> DEFINE k == [job[t] EXCEPT !.sent = @ \ {c}]
<1>1. /\ JobOK(job[t]) /\ job[t] \in Job /\ job[t].fd \in Fd
      /\ job[t].at # "idle" /\ job[t].key \in Key /\ FilesOK
      /\ UNCHANGED <<dir, open>>
  BY JobOf, ConstantFacts DEF WriteEnds, JobOK, Job, Waiting, IInv
<1>2. file' \in Seq(Content) /\ DOMAIN file' = DOMAIN file
  BY <1>1, WriteFacts DEF WriteEnds, Works, FilesOK
<1>3. /\ JobOK(k) /\ k.fd = job[t].fd /\ k.at = job[t].at
      /\ Closes(job[t]) => Closes(k)
  BY <1>1, ConstantFacts DEF JobOK, Job, Closes
<1>4. \/ job' = [job EXCEPT ![t] = Written(k, c)]
      \/ job' = [job EXCEPT ![t] = k]
      \/ k.at = "receive" /\ \E g \in GaveUp(k) : job' = [job EXCEPT ![t] = g]
  BY DEF WriteEnds, To
<1> HIDE DEF k
<1>5. \A g \in GaveUp(k) : k.at = "receive" =>
        JobOK(g) /\ g.fd = job[t].fd /\ Closes(g)
  BY <1>3, GaveUpOK
<1>6. /\ JobOK(Written(k, c)) /\ Written(k, c).fd = job[t].fd
      /\ Closes(job[t]) => Closes(Written(k, c))
  BY <1>1, <1>3, WrittenOK
<1>7. QED BY <1>1, <1>2, <1>3, <1>4, <1>5, <1>6, StepOf

LEMMA TimeoutInd ==
  ASSUME IInv, NEW t \in Transfer, Timeout(t)
  PROVE  IInv'
<1>1. PICK g \in GaveUp(job[t]) : job' = [job EXCEPT ![t] = g]
  BY DEF Timeout, To
<1>2. JobOK(g) /\ g.fd = job[t].fd /\ Closes(g)
  BY JobOf, GaveUpOK DEF Timeout
<1>3. QED BY <1>1, <1>2, StepOf DEF Timeout, IInv, FilesOK

LEMMA StreamInd ==
  ASSUME IInv, NEW t \in Transfer, StreamWrite(t) \/ StreamClose(t)
  PROVE  IInv'
<1>1. /\ JobOK(job[t]) /\ job[t] \in Job /\ job[t].fd \in Fd
      /\ job[t].at # "idle" /\ job[t].key \in Raw /\ job[t].held
      /\ dir' = dir /\ FilesOK
  BY JobOf, ConstantFacts
     DEF StreamWrite, StreamClose, JobOK, Job, Waiting, IsRaw, IInv
<1>2. CASE StreamWrite(t)
  <2> DEFINE j == At(t, "truncate")
             k == [At(t, "truncate") EXCEPT !.answer = FALSE]
  <2>1. /\ JobOK(j) /\ j.fd = job[t].fd /\ Closes(j)
        /\ JobOK(k) /\ k.fd = job[t].fd /\ Closes(k)
    BY <1>1, ConstantFacts DEF At, JobOK, Job, Waiting, Closes, Closing
  <2>2. /\ job' = [job EXCEPT ![t] = j] \/ job' = [job EXCEPT ![t] = k]
        /\ open' = open
        /\ (IsOpen(t) /\ Write(t, Chunk)) \/ file' = file
    BY <1>2 DEF StreamWrite, Works, To
  <2> HIDE DEF j, k
  <2>3. file' \in Seq(Content) /\ DOMAIN file' = DOMAIN file
    BY <1>1, <2>2, WriteFacts, FilesAssumption DEF FilesOK
  <2>4. QED BY <1>1, <2>1, <2>2, <2>3, StepOf
<1>3. CASE StreamClose(t)
  <2> DEFINE j == [job[t] EXCEPT !.held = FALSE]
             k == [job[t] EXCEPT !.held = FALSE,
                     !.answer = IF @ = None THEN FALSE ELSE @]
  <2>1. JobOK(j) /\ j \in Job
    BY <1>1, <1>3 DEF StreamClose, JobOK, Job, Waiting, IsRaw
  <2>4. k = [j EXCEPT !.answer = IF @ = None THEN FALSE ELSE @]
    BY <1>1 DEF Job
  <2>2. /\ job' = [job EXCEPT ![t] = j] \/ job' = [job EXCEPT ![t] = k]
        /\ Close(t) /\ file' = file
    BY <1>3 DEF StreamClose, To
  <2> HIDE DEF j
  <2>5. JobOK(k)
    BY <2>1, <2>4 DEF JobOK, Job
  <2> HIDE DEF k
  <2>3. QED BY <1>1, <2>1, <2>2, <2>5, StepOf DEF FilesOK
<1>4. QED BY <1>2, <1>3

\* save() failed at a step that leaves the descriptors alone.
LEMMA SaveFailedOK ==
  ASSUME IInv, NEW t \in Transfer,
         job[t].at \in {"saveClose", "truncate", "hash", "rename"}
  PROVE  /\ JobOK(SaveFailed(t)) /\ SaveFailed(t).fd = job[t].fd
         /\ job[t].at # "saveClose" /\ Closes(job[t]) => Closes(SaveFailed(t))
<1>1. /\ JobOK(job[t]) /\ job[t] \in Job /\ job[t].fd \in Fd
      /\ job[t].at # "idle"
  BY JobOf DEF JobOK, Waiting
<1>2. CASE IsRaw(t)
  <2> DEFINE j == Ended(job[t], FALSE)
  <2>1. JobOK(j) /\ j.fd = job[t].fd
    BY <1>1, EndedOK
  <2>2. /\ j.pausing = job[t].pausing /\ j.key = job[t].key
        /\ j.held = job[t].held /\ j.lost = job[t].lost
    BY <1>1 DEF Ended, Job
  <2>3. SaveFailed(t) = j
    BY <1>2 DEF SaveFailed
  <2> HIDE DEF j
  <2>4. QED BY <2>1, <2>2, <2>3 DEF Closes, Closing
<1>3. CASE ~IsRaw(t)
  <2> DEFINE j == Destroy(job[t])
  <2>1. /\ JobOK(j) /\ j.fd = job[t].fd /\ j.pausing = job[t].pausing
        /\ j.lost = job[t].lost
    BY <1>1, DestroyOK
  <2>2. SaveFailed(t) = j
    BY <1>3 DEF SaveFailed
  <2> HIDE DEF j
  <2>3. QED BY <1>3, <2>1, <2>2 DEF Closes, Closing, IsRaw
<1>4. QED BY <1>2, <1>3

LEMMA SaveCloseInd ==
  ASSUME IInv, NEW t \in Transfer, SaveClose(t)
  PROVE  IInv'
<1> DEFINE j == [At(t, "truncate") EXCEPT !.held = FALSE]
<1>1. /\ JobOK(job[t]) /\ job[t] \in Job /\ job[t].fd \in Fd
      /\ job[t].at = "saveClose" /\ FilesOK
  BY JobOf DEF SaveClose, JobOK, Waiting, IInv
<1>2. JobOK(j) /\ JobOK(SaveFailed(t))
  BY <1>1, SaveFailedOK, ConstantFacts DEF At, JobOK, Job, Waiting
<1>3. /\ job' = [job EXCEPT ![t] = j] \/ job' = [job EXCEPT ![t] = SaveFailed(t)]
      /\ Close(t) /\ UNCHANGED <<dir, file>>
  BY DEF SaveClose, To
<1> HIDE DEF j
<1>4. QED BY <1>1, <1>2, <1>3, StepOf DEF FilesOK

LEMMA TruncateInd ==
  ASSUME IInv, NEW t \in Transfer, Truncate(t)
  PROVE  IInv'
<1> DEFINE j == At(t, "hash")
<1>1. /\ JobOK(job[t]) /\ job[t] \in Job /\ job[t].fd \in Fd
      /\ job[t].at = "truncate" /\ FilesOK /\ job[t].path \in Path
  BY JobOf, PathFacts DEF Truncate, JobOK, Waiting, IInv
<1>2. /\ JobOK(j) /\ j.fd = job[t].fd /\ (Closes(job[t]) => Closes(j))
  BY <1>1, ConstantFacts DEF At, JobOK, Job, Waiting, Closes, Closing
<1>3. /\ JobOK(SaveFailed(t)) /\ SaveFailed(t).fd = job[t].fd
      /\ Closes(job[t]) => Closes(SaveFailed(t))
  BY <1>1, SaveFailedOK
<1>4. file' \in Seq(Content) /\ DOMAIN file' = DOMAIN file
  <2>1. CASE Exists(t) /\ file' = [file EXCEPT ![dir[job[t].path]] = Padded(@)]
    <3> DEFINE i == dir[job[t].path]
               f == Padded(file[i])
    <3>1. i \in DOMAIN file /\ file[i] \in Content
      BY <1>1, <2>1 DEF Exists, FilesOK
    <3>2. f \in Content
      BY <3>1, PaddedFacts DEF Content
    <3>3. file' = [file EXCEPT ![i] = f]
      BY <2>1
    <3> HIDE DEF i, f
    <3>4. QED BY <1>1, <3>1, <3>2, <3>3, FileChanges
  <2>2. CASE file' = file
    BY <1>1, <2>2 DEF FilesOK
  <2>3. QED BY <2>1, <2>2 DEF Truncate, Works
<1>5. /\ job' = [job EXCEPT ![t] = j] \/ job' = [job EXCEPT ![t] = SaveFailed(t)]
      /\ UNCHANGED <<dir, open>>
  BY DEF Truncate, To
<1> HIDE DEF j
<1>6. QED BY <1>2, <1>3, <1>4, <1>5, StepOf

LEMMA HashInd ==
  ASSUME IInv, NEW t \in Transfer, Hash(t)
  PROVE  IInv'
<1> DEFINE j == [At(t, "rename") EXCEPT !.path = Block(job[t].key)]
<1>1. /\ JobOK(job[t]) /\ job[t] \in Job /\ job[t].fd \in Fd
      /\ job[t].at = "hash" /\ FilesOK /\ Block(job[t].key) \in Path
  BY JobOf, PathFacts DEF Hash, JobOK, Waiting, IInv
<1>2. /\ JobOK(j) /\ j.fd = job[t].fd /\ (Closes(job[t]) => Closes(j))
  BY <1>1, ConstantFacts DEF At, JobOK, Job, Waiting, Closes, Closing
<1>3. /\ JobOK(SaveFailed(t)) /\ SaveFailed(t).fd = job[t].fd
      /\ Closes(job[t]) => Closes(SaveFailed(t))
  BY <1>1, SaveFailedOK
<1>4. /\ job' = [job EXCEPT ![t] = j] \/ job' = [job EXCEPT ![t] = SaveFailed(t)]
      /\ UNCHANGED <<dir, file, open>>
  BY DEF Hash, To
<1> HIDE DEF j
<1>5. QED BY <1>1, <1>2, <1>3, <1>4, StepOf DEF FilesOK

LEMMA CloseLaterInd ==
  ASSUME IInv, NEW t \in Transfer, PauseClose(t) \/ DestroyClose(t)
  PROVE  IInv'
<1>1. /\ JobOK(job[t]) /\ job[t] \in Job /\ job[t].fd \in Fd /\ FilesOK
      /\ Close(t) /\ UNCHANGED <<dir, file>>
  BY JobOf, ConstantFacts
     DEF PauseClose, DestroyClose, JobOK, Job, Waiting, IInv
<1>2. CASE PauseClose(t)
  <2> DEFINE j(held) == [job[t] EXCEPT !.pausing = FALSE, !.held = held]
  <2>1. \E held \in {FALSE, job[t].held} : job' = [job EXCEPT ![t] = j(held)]
    BY <1>2 DEF PauseClose, To
  <2>2. job[t].at \notin {"ask", "receive", "stream"} => JobOK(j(FALSE))
    BY <1>1, ConstantFacts DEF JobOK, Job, Waiting
  <2>3. JobOK(j(job[t].held))
    BY <1>1, ConstantFacts DEF JobOK, Job, Waiting
  <2>4. job[t].at \notin {"ask", "receive", "stream"}
    BY <1>2, JobOf DEF PauseClose, JobOK
  <2> HIDE DEF j
  <2>5. QED BY <1>1, <2>1, <2>2, <2>3, <2>4, StepOf DEF FilesOK
<1>3. CASE DestroyClose(t)
  <2> DEFINE j == [At(t, "unlink") EXCEPT !.held = FALSE]
  <2>1. job[t].at = "destroyClose"
    BY <1>3 DEF DestroyClose
  <2>2. JobOK(j) /\ JobOK(Ended(job[t], FALSE))
    BY <1>1, <2>1, EndedOK, ConstantFacts DEF At, JobOK, Job, Waiting
  <2>3. \/ job' = [job EXCEPT ![t] = j]
        \/ job' = [job EXCEPT ![t] = Ended(job[t], FALSE)]
    BY <1>3 DEF DestroyClose, To
  <2> HIDE DEF j
  <2>4. QED BY <1>1, <2>2, <2>3, StepOf DEF FilesOK
<1>4. QED BY <1>2, <1>3

\* A path gets another inode or none, and nothing else changes but the job.
LEMMA PathsChange ==
  ASSUME IInv, NEW t \in Transfer, NEW STATE j, JobOK(j),
         job' = [job EXCEPT ![t] = j], UNCHANGED <<file, open>>,
         j.fd = job[t].fd, Closes(job[t]) => Closes(j),
         dir' \in [Path -> Nat \cup {None}],
         \A p \in Path : \/ dir'[p] = None
                         \/ \E q \in Path : dir'[p] = dir[q]
  PROVE  IInv'
<1>1. job' \in [Transfer -> Job] /\ JobsOK' /\ ClosedInTime'
  BY JobChanges, StillCloses
<1>2. \A p \in Path : dir'[p] # None => dir'[p] \in DOMAIN file
  BY DEF IInv, FilesOK
<1>3. QED BY <1>1, <1>2 DEF IInv, FilesOK

\* The file is renamed.
Renames(t) ==
  /\ dir[Temp(job[t].key)] # None
  /\ dir' = [dir EXCEPT ![Block(job[t].key)] = dir[Temp(job[t].key)],
                        ![Temp(job[t].key)] = None]
  /\ job' = [job EXCEPT ![t] = Ended(job[t], TRUE)]
  /\ UNCHANGED <<file, open, spoilt>>

LEMMA RenameInd ==
  ASSUME IInv, NEW t \in Transfer, Rename(t)
  PROVE  IInv'
<1>1. /\ JobOK(job[t]) /\ job[t] \in Job /\ job[t].fd \in Fd /\ FilesOK
      /\ job[t].at = "rename" /\ job[t].key \in Key
      /\ Temp(job[t].key) \in Path /\ Block(job[t].key) \in Path
  BY JobOf, PathFacts DEF Rename, JobOK, Waiting, IInv
<1>2. CASE Renames(t)
  <2> DEFINE j == Ended(job[t], TRUE)
  <2>1. JobOK(j) /\ j.fd = job[t].fd
    BY <1>1, EndedOK
  <2>2. Closes(job[t]) => Closes(j)
    BY <1>1 DEF Closes, Closing, Ended, Job
  <2>3. /\ dir' = [dir EXCEPT ![Block(job[t].key)] = dir[Temp(job[t].key)],
                              ![Temp(job[t].key)] = None]
        /\ job' = [job EXCEPT ![t] = j] /\ UNCHANGED <<file, open>>
    BY <1>2 DEF Renames
  <2> HIDE DEF j
  <2>4. /\ dir' \in [Path -> Nat \cup {None}]
        /\ \A p \in Path : dir'[p] = None \/ \E q \in Path : dir'[p] = dir[q]
    BY <1>1, <2>3 DEF FilesOK
  <2>5. QED BY <2>1, <2>2, <2>3, <2>4, PathsChange
<1>3. CASE /\ job' = [job EXCEPT ![t] = SaveFailed(t)]
           /\ UNCHANGED <<dir, file, open>>
  <2>1. /\ JobOK(SaveFailed(t)) /\ SaveFailed(t).fd = job[t].fd
        /\ Closes(job[t]) => Closes(SaveFailed(t))
    BY <1>1, SaveFailedOK
  <2>2. QED BY <1>1, <1>3, <2>1, StepOf DEF FilesOK
<1>4. QED BY <1>2, <1>3 DEF Rename, Renames, Works, To

LEMMA UnlinkInd ==
  ASSUME IInv, NEW t \in Transfer, Unlink(t)
  PROVE  IInv'
<1> DEFINE j == Ended(job[t], FALSE)
<1>1. /\ JobOK(job[t]) /\ job[t] \in Job /\ FilesOK /\ job[t].at = "unlink"
      /\ job[t].path \in Path
  BY JobOf, PathFacts DEF Unlink, JobOK, IInv
<1>2. JobOK(j) /\ j.fd = job[t].fd
  BY <1>1, EndedOK
<1>3. Closes(job[t]) => Closes(j)
  BY <1>1 DEF Closes, Closing, Ended, Job
<1>4. /\ dir' = [dir EXCEPT ![job[t].path] = None] \/ dir' = dir
      /\ job' = [job EXCEPT ![t] = j] /\ UNCHANGED <<file, open>>
  BY DEF Unlink, To
<1> HIDE DEF j
<1>5. /\ dir' \in [Path -> Nat \cup {None}]
      /\ \A p \in Path : dir'[p] = None \/ \E q \in Path : dir'[p] = dir[q]
  BY <1>1, <1>4 DEF FilesOK
<1>6. QED BY <1>2, <1>3, <1>4, <1>5, PathsChange

LEMMA CrashInd == IInv /\ Crash => IInv'
<1> SUFFICES ASSUME IInv, Crash PROVE IInv'
  OBVIOUS
<1> DEFINE j(t) == [Ended(job[t], FALSE) EXCEPT !.asked = {}, !.sent = {},
                      !.left = {}, !.timer = FALSE, !.leaked = FALSE,
                      !.pausing = FALSE, !.held = FALSE, !.lost = FALSE]
<1>1. /\ job' = [t \in Transfer |-> IF job[t].at = "idle" THEN job[t] ELSE j(t)]
      /\ open' = [d \in Fd |-> None] /\ UNCHANGED <<dir, file>>
  BY DEF Crash
<1>2. ASSUME NEW t \in Transfer, job[t].at # "idle"
      PROVE  JobOK(j(t))
  <2>1. JobOK(job[t]) /\ job[t] \in Job
    BY JobOf
  <2>2. JobOK(Ended(job[t], FALSE)) /\ Ended(job[t], FALSE).at = "ended"
    BY <1>2, <2>1, EndedOK DEF Ended, Job
  <2> DEFINE e == Ended(job[t], FALSE)
  <2> HIDE DEF e
  <2>3. JobOK(e) /\ e.at = "ended" /\ e \in Job
    BY <2>2 DEF e, JobOK
  <2>4. JobOK([e EXCEPT !.asked = {}, !.sent = {}, !.left = {}, !.timer = FALSE,
                        !.leaked = FALSE, !.pausing = FALSE, !.held = FALSE,
                        !.lost = FALSE])
    BY <2>3 DEF JobOK, Job, Waiting
  <2>5. QED BY <2>4 DEF e
<1> HIDE DEF j
<1>3. \A t \in Transfer : JobOK(job'[t])
  BY <1>1, <1>2, JobOf
<1>4. job' \in [Transfer -> Job]
  BY <1>1, <1>3 DEF JobOK
<1>5. QED BY <1>1, <1>3, <1>4 DEF IInv, FilesOK, JobsOK, ClosedInTime

-----------------------------------------------------------------------------

LEMMA InitInd == Init => IInv
<1> SUFFICES ASSUME Init PROVE IInv
  OBVIOUS
<1>1. \A t \in Transfer : JobOK(job[t])
  BY ConstantFacts DEF Init, JobOK, Job, Waiting
<1>2. job \in [Transfer -> Job]
  BY <1>1 DEF Init, JobOK
<1>3. /\ dir \in [Path -> Nat \cup {None}] /\ \A p \in Path : dir[p] = None
      /\ open \in [Fd -> Nat \cup {None}] /\ \A d \in Fd : open[d] = None
      /\ file \in Seq(Content)
  BY FilesAssumption DEF Init
<1>4. QED BY <1>1, <1>2, <1>3 DEF IInv, FilesOK, JobsOK, ClosedInTime

LEMMA NextInd == IInv /\ [Next]_vars => IInv'
<1> SUFFICES ASSUME IInv, [Next]_vars PROVE IInv'
  OBVIOUS
<1>1. ASSUME NEW t \in Transfer, Calls(t) PROVE IInv'
  BY <1>1, CreateInd, OpenInd, ReserveInd, AskInd, TimeoutInd, StreamInd,
     SaveCloseInd, TruncateInd, HashInd, RenameInd, CloseLaterInd, UnlinkInd,
     WriteEndsInd DEF Calls
<1>2. CASE UNCHANGED vars
  BY <1>2 DEF vars, IInv, FilesOK, JobsOK, ClosedInTime
<1>3. QED BY <1>1, <1>2, StartInd, ArriveInd, CrashInd DEF Next

\* The histories stay in their bounds.
LEMMA CountInit == Init => Counted
BY FilesAssumption DEF Init, Counted

LEMMA CountNext == IInv /\ Counted /\ [Next]_vars => Counted'
<1> SUFFICES ASSUME IInv, Counted, [Next]_vars PROVE Counted'
  OBVIOUS
<1>1. errors' = errors \/ (errors < MaxErrors /\ errors' = errors + 1)
  BY DEF Next, vars, Calls, Start, Create, Open, Reserve, Ask, AskFails, Timeout,
         StreamWrite, StreamClose, SaveClose, Truncate, Hash, Rename, PauseClose,
         DestroyClose, Unlink, WriteEnds, Arrive, Crash, Works, Fails
<1>2. crashes' = crashes \/ (crashes < MaxCrashes /\ crashes' = crashes + 1)
  BY DEF Next, vars, Calls, Start, Create, Open, Reserve, Ask, AskFails, Timeout,
         StreamWrite, StreamClose, SaveClose, Truncate, Hash, Rename, PauseClose,
         DestroyClose, Unlink, WriteEnds, Arrive, Crash
<1>3. spoilt' \subseteq Key
  <2>1. \A t \in Transfer : job[t].at \in Waiting => job[t].key \in Key
    BY JobOf DEF JobOK, Waiting
  <2>2. \/ spoilt' = spoilt
        \/ \E k \in Key : spoilt' = spoilt \cup {k}
    BY <2>1 DEF Next, vars, Calls, Start, Create, Open, Reserve, Ask, AskFails,
         Timeout, StreamWrite, StreamClose, SaveClose, Truncate, Hash, Rename,
         PauseClose, DestroyClose, Unlink, WriteEnds, Arrive, Crash, Spoilt,
         Waiting
  <2>3. QED BY <2>2 DEF Counted
<1>4. QED BY <1>1, <1>2, <1>3, FilesAssumption DEF Counted

\* Transfers, files and descriptors are what they should be, and a transfer
\* that opens a file always finds a descriptor free (open(), with as many
\* numbers as there are transfers).
THEOREM FilesTyped == Spec => []TypeOK
<1>1. IInv /\ Counted => TypeOK
  BY DEF IInv, FilesOK, Counted, TypeOK
<1>2. QED BY <1>1, InitInd, NextInd, CountInit, CountNext, PTL DEF Spec

\* When no transfer has anything left to do every descriptor is closed,
\* whatever numbers were closed twice or by another transfer (free(), as
\* pause(), save() and destroy() call it), but for those of transfers whose
\* ftruncate failed (reserve()).
THEOREM AllClosed == Spec => []DescriptorsClosed
<1>1. IInv => DescriptorsClosed
  BY DEF IInv, ClosedInTime, DescriptorsClosed, Closes, Closing, Busy, Waiting,
         IsRaw
<1>2. QED BY <1>1, InitInd, NextInd, PTL DEF Spec

-----------------------------------------------------------------------------
(* The blocks that are not spoilt.                                         *)

\* A write of the transfer may yet be made.
Writes(j) == j.at \in {"reserve", "ask", "receive", "stream"} \/ j.sent # {}

\* What must not be written to any more: what is published, and what was
\* hashed and is to be.
Kept(p) ==
  \E k \in Key \ spoilt :
    \/ p = Block(k)
    \/ p = Temp(k) /\ \E u \in Transfer : job[u].at = "rename" /\ job[u].key = k

\* A file has one path only.
Apart == \A p, q \in Path : dir[p] # None /\ dir[p] = dir[q] => p = q

OnePerKey ==
  \A t, u \in Transfer :
    Busy(t) /\ Busy(u) /\ job[t].key = job[u].key /\ job[t].key \notin spoilt
      => t = u

Unwritten ==
  \A u \in Transfer, p \in Path :
    Writes(job[u]) /\ IsOpen(u) /\ Kept(p) /\ dir[p] # None
      => open[job[u].fd] # dir[p]

\* What holds of a transfer when the paths are those of d, the files f and the
\* spoilt keys s.
SafeJob(j, d, f, s) ==
  /\ j.at \in Waiting \ {"rename", "destroyClose", "unlink"} =>
       j.path = Temp(j.key)
  /\ j.at \in {"destroyClose", "unlink"} /\ j.key \notin s => j.path = Temp(j.key)
  /\ j.at = "rename" /\ j.key \notin s =>
       d[Temp(j.key)] # None /\ f[d[Temp(j.key)]] = Whole(j.key)
  /\ j.at # "ended" => j.answer # TRUE
  /\ j.answer = TRUE /\ j.key \notin s => d[Block(j.key)] # None

SafeJobs == \A t \in Transfer : SafeJob(job[t], dir, file, spoilt)

Sound ==
  \A k \in Key \ spoilt :
    dir[Block(k)] # None => file[dir[Block(k)]] = Whole(k)

SafeInv == Apart /\ OnePerKey /\ Unwritten /\ SafeJobs /\ Sound

\* The temporary file of a transfer is not kept before it is hashed.
LEMMA TempNotKept ==
  ASSUME IInv, SafeInv, NEW t \in Transfer, Busy(t), job[t].at # "rename",
         NEW p \in Path, Kept(p), dir[p] # None
  PROVE  dir[p] # dir[Temp(job[t].key)]
<1>1. job[t].key \in Key /\ Temp(job[t].key) \in Path
  BY JobOf, PathFacts DEF JobOK, Busy, Waiting
<1>2. SUFFICES ASSUME dir[p] = dir[Temp(job[t].key)] PROVE FALSE
  OBVIOUS
<1>3. p = Temp(job[t].key)
  BY <1>1, <1>2 DEF SafeInv, Apart
<1>4. PICK u \in Transfer :
        /\ job[u].at = "rename" /\ job[u].key = job[t].key
        /\ job[u].key \notin spoilt
  BY <1>3, PathFacts DEF Kept
<1>5. Busy(u)
  BY <1>4 DEF Busy, Waiting
<1>6. QED BY <1>4, <1>5 DEF SafeInv, OnePerKey

SpoiltGrows == spoilt' = spoilt \/ \E k \in Key : spoilt' = spoilt \cup {k}

\* What a step does to the blocks and the answers that only refuses some.
Refusing ==
  /\ \A k \in Key \ spoilt' : dir'[Block(k)] = None <=> dir[Block(k)] = None
  /\ \A t \in Transfer :
       \/ job'[t].answer = job[t].answer /\ job'[t].key = job[t].key
       \/ job[t].answer # TRUE /\ job'[t].answer = job[t].answer
       \/ job[t].answer = None /\ job'[t].answer = FALSE
  /\ SpoiltGrows

\* The answer j.answer comes from i.answer.
AnswerOf(i, j) ==
  j.answer = i.answer \/ (i.answer = None /\ j.answer = FALSE)

\* A step of t that leaves the paths as they are.
LEMMA SafeStep ==
  ASSUME IInv, SafeInv, NEW t \in Transfer, NEW STATE j,
         job' = [job EXCEPT ![t] = j], dir' = dir, SpoiltGrows,
         j.key = job[t].key, j.fd = job[t].fd,
         j.at \in Waiting => Busy(t), Writes(j) => Writes(job[t]),
         j.at = "rename" /\ j.key \notin spoilt' =>
           job[t].at = "rename" \/ ~StillWritten(dir[Temp(j.key)]),
         SafeJob(j, dir, file', spoilt'), AnswerOf(job[t], j),
         \A p \in Path : Kept(p) /\ dir[p] # None =>
           file'[dir[p]] = file[dir[p]],
         open' = open \/ (Close(t) /\ job[t].fd \in Fd)
  PROVE  SafeInv' /\ Refusing
<1>1. job'[t] = j /\ \A u \in Transfer : u # t => job'[u] = job[u]
  BY JobOf
<1>2. Apart'
  BY DEF SafeInv, Apart
<1>3. \A k : k \in spoilt => k \in spoilt'
  BY DEF SpoiltGrows
<1>4. OnePerKey'
  BY <1>1, <1>3 DEF SafeInv, OnePerKey, Busy
<1>5. \A d \in Fd : open'[d] # None => open'[d] = open[d]
  BY DEF Close, IInv, FilesOK
<1>6. ASSUME NEW p \in Path, Kept(p)', dir[p] # None
      PROVE  Kept(p) \/ ~StillWritten(dir[p])
  <2>1. PICK k \in Key \ spoilt' :
          \/ p = Block(k)
          \/ p = Temp(k) /\ \E u \in Transfer : job'[u].at = "rename" /\ job'[u].key = k
    BY <1>6 DEF Kept
  <2>2. k \in Key \ spoilt
    BY <1>3
  <2>3. CASE p = Block(k)
    BY <2>2, <2>3 DEF Kept
  <2>4. ASSUME p = Temp(k), NEW u \in Transfer, job'[u].at = "rename",
               job'[u].key = k
        PROVE  Kept(p) \/ ~StillWritten(dir[p])
    <3>1. CASE u # t
      BY <1>1, <2>2, <2>4, <3>1 DEF Kept
    <3>2. CASE u = t
      BY <1>1, <2>1, <2>2, <2>4, <3>2 DEF Kept
    <3>3. QED BY <3>1, <3>2
  <2>5. QED BY <2>1, <2>3, <2>4
<1>7. Unwritten'
  <2> SUFFICES ASSUME NEW u \in Transfer, NEW p \in Path, Writes(job'[u]),
                      job'[u].fd # None, open'[job'[u].fd] # None,
                      Kept(p)', dir[p] # None, open'[job'[u].fd] = dir[p]
               PROVE  FALSE
    BY DEF Unwritten, IsOpen
  <2>1. Writes(job[u]) /\ job'[u].fd = job[u].fd
    BY <1>1
  <2>2. job[u].fd \in Fd
    BY <2>1, JobOf DEF Job
  <2>3. IsOpen(u) /\ open[job[u].fd] = dir[p]
    BY <1>5, <2>1, <2>2 DEF IsOpen
  <2>4. StillWritten(dir[p])
    BY <2>1, <2>3 DEF StillWritten, Writes
  <2>5. QED BY <1>6, <2>1, <2>3, <2>4 DEF SafeInv, Unwritten
<1>8. SafeJobs'
  <2> SUFFICES ASSUME NEW u \in Transfer
               PROVE  SafeJob(job'[u], dir, file', spoilt')
    BY DEF SafeJobs
  <2>1. CASE u = t
    BY <1>1, <2>1
  <2>2. CASE u # t
    <3>1. SafeJob(job[u], dir, file, spoilt) /\ JobOK(job[u])
      BY JobOf DEF SafeInv, SafeJobs
    <3>2. job[u].at = "rename" /\ job[u].key \notin spoilt =>
            /\ Temp(job[u].key) \in Path /\ Kept(Temp(job[u].key))
            /\ dir[Temp(job[u].key)] # None
      BY <3>1, PathFacts DEF SafeJob, JobOK, Kept
    <3>3. QED BY <1>1, <1>3, <2>2, <3>1, <3>2 DEF SafeJob
  <2>3. QED BY <2>1, <2>2
<1>9. Sound'
  BY <1>3, PathFacts DEF SafeInv, Sound, Kept
<1>10. Refusing
  BY <1>1 DEF Refusing, AnswerOf
<1>11. QED BY <1>2, <1>4, <1>7, <1>8, <1>9, <1>10 DEF SafeInv

\* An error ends a transfer, and its answer is false unless it had one.
LEMMA SafeEnded ==
  ASSUME NEW j, JobOK(j), NEW d, NEW f, NEW g, NEW s, NEW r,
         SafeJob(j, d, f, s), \A k : k \in s => k \in r
  PROVE  LET e == Ended(j, FALSE)
         IN  /\ SafeJob(e, d, g, r) /\ e.key = j.key /\ e.fd = j.fd
             /\ e.at = "ended" /\ e.sent = j.sent /\ AnswerOf(j, e)
<1>1. j \in Job
  BY DEF JobOK
<1>2. QED BY <1>1, ConstantFacts DEF Ended, Job, SafeJob, Waiting, AnswerOf

LEMMA SafeDestroy ==
  ASSUME NEW j, JobOK(j), NEW d, NEW f, NEW g, NEW s, NEW r,
         SafeJob(j, d, f, s), \A k : k \in s => k \in r,
         j.at \in Waiting, j.at = "rename" => j.key \in r
  PROVE  LET e == Destroy(j)
         IN  /\ SafeJob(e, d, g, r) /\ e.key = j.key /\ e.fd = j.fd
             /\ e.at \in {"destroyClose", "unlink"} /\ e.sent = j.sent
             /\ AnswerOf(j, e)
<1>1. j \in Job
  BY DEF JobOK
<1>2. QED BY <1>1, ConstantFacts DEF Destroy, Job, SafeJob, Waiting, AnswerOf

LEMMA SafeGaveUp ==
  ASSUME NEW j, JobOK(j), NEW d, NEW f, NEW h, NEW s, SafeJob(j, d, f, s),
         j.at = "receive", NEW g \in GaveUp(j)
  PROVE  /\ SafeJob(g, d, h, s) /\ g.key = j.key /\ g.fd = j.fd
         /\ g.at \in {"destroyClose", "unlink"} /\ g.sent = j.sent
         /\ AnswerOf(j, g)
<1> DEFINE quiet == [j EXCEPT !.asked = {}, !.left = {}, !.timer = FALSE,
                              !.leaked = FALSE]
<1>1. /\ JobOK(quiet) /\ SafeJob(quiet, d, f, s)
      /\ quiet.at = "receive" /\ quiet.key = j.key /\ quiet.fd = j.fd
      /\ quiet.answer = j.answer /\ quiet.sent = j.sent
  BY DEF JobOK, Job, Waiting, SafeJob
<1>2. g \in {Destroy(quiet), [Destroy(quiet) EXCEPT !.pausing = TRUE]}
  BY DEF GaveUp
<1> DEFINE e == Destroy(quiet)
<1> HIDE DEF quiet
<1>3. /\ SafeJob(e, d, h, s) /\ e.key = j.key /\ e.fd = j.fd
      /\ e.at \in {"destroyClose", "unlink"} /\ e.sent = j.sent
      /\ AnswerOf(j, e)
  <2>1. AnswerOf(quiet, e) => AnswerOf(j, e)
    BY <1>1 DEF AnswerOf
  <2>2. QED BY <1>1, <2>1, SafeDestroy DEF Waiting
<1>4. e \in Job
  BY <1>1, DestroyOK, ConstantFacts DEF Waiting, JobOK
<1> HIDE DEF e
<1>5. LET p == [e EXCEPT !.pausing = TRUE]
      IN  /\ SafeJob(p, d, h, s) /\ p.key = j.key /\ p.fd = j.fd
          /\ p.at \in {"destroyClose", "unlink"} /\ p.sent = j.sent
          /\ AnswerOf(j, p)
  BY <1>3, <1>4 DEF SafeJob, Job, Waiting, AnswerOf
<1>6. QED BY <1>2, <1>3, <1>5 DEF e

\* What the proofs of the steps of t begin with.
LEMMA SafeJobOf ==
  ASSUME IInv, SafeInv, NEW t \in Transfer
  PROVE  /\ JobOK(job[t]) /\ job[t] \in Job /\ job \in [Transfer -> Job]
         /\ SafeJob(job[t], dir, file, spoilt) /\ FilesOK
BY JobOf DEF SafeInv, SafeJobs, IInv

LEMMA SafeSaveFailed ==
  ASSUME IInv, SafeInv, NEW t \in Transfer, SpoiltGrows,
         job[t].at \in {"saveClose", "truncate", "hash", "rename"},
         job[t].at = "rename" => job[t].key \in spoilt'
  PROVE  LET e == SaveFailed(t)
         IN  /\ SafeJob(e, dir, file, spoilt') /\ e.key = job[t].key
             /\ e.fd = job[t].fd /\ e.at \in {"ended", "destroyClose", "unlink"}
             /\ e.sent = job[t].sent /\ AnswerOf(job[t], e)
<1>1. \A k : k \in spoilt => k \in spoilt'
  BY DEF SpoiltGrows
<1>2. JobOK(job[t]) /\ SafeJob(job[t], dir, file, spoilt)
  BY SafeJobOf
<1>3. CASE IsRaw(t)
  <2>1. SaveFailed(t) = Ended(job[t], FALSE)
    BY <1>3 DEF SaveFailed
  <2>2. QED BY <1>1, <1>2, <2>1, SafeEnded
<1>4. CASE ~IsRaw(t)
  <2>1. SaveFailed(t) = Destroy(job[t])
    BY <1>4 DEF SaveFailed
  <2>2. QED BY <1>1, <1>2, <2>1, SafeDestroy DEF Waiting
<1>5. QED BY <1>3, <1>4

\* What is written through the number of t, whoever it belongs to by now, is
\* not kept.
LEMMA SafeWrite ==
  ASSUME IInv, SafeInv, NEW t \in Transfer, NEW cs, job[t].fd \in Fd,
         job[t].key \in Key, Writes(job[t]),
         file' = file \/ (IsOpen(t) /\ Write(t, cs))
  PROVE  \A p \in Path : Kept(p) /\ dir[p] # None =>
           file'[dir[p]] = file[dir[p]]
<1> SUFFICES ASSUME NEW p \in Path, Kept(p), dir[p] # None, IsOpen(t),
                    Write(t, cs)
             PROVE  file'[dir[p]] = file[dir[p]]
  OBVIOUS
<1>1. dir[p] # open[job[t].fd] /\ dir[p] \in DOMAIN file
  BY DEF SafeInv, Unwritten, IInv, FilesOK
<1>2. QED BY <1>1, WriteFacts DEF IInv

LEMMA TransferSafe ==
  ASSUME IInv, SafeInv, NEW t \in Transfer
  PROVE  /\ Reserve(t) => SafeInv' /\ Refusing
         /\ Ask(t) => SafeInv' /\ Refusing
         /\ AskFails(t) => SafeInv' /\ Refusing
         /\ \A c \in Chunk : Arrive(t, c) => SafeInv' /\ Refusing
         /\ Timeout(t) => SafeInv' /\ Refusing
<1>1. ASSUME Reserve(t) PROVE SafeInv' /\ Refusing
  <2>1. /\ job[t].at = "reserve" /\ job[t].fd \in Fd /\ job[t].key \in Key
        /\ UNCHANGED <<dir, open, spoilt>> /\ Busy(t) /\ Writes(job[t])
    BY <1>1, SafeJobOf DEF Reserve, JobOK, Waiting, Busy, Writes
  <2>2. \A p \in Path : Kept(p) /\ dir[p] # None =>
          file'[dir[p]] = file[dir[p]]
    BY <1>1, <2>1, SafeWrite DEF Reserve, Works
  <2>3. CASE job' = [job EXCEPT ![t] = [job[t] EXCEPT !.held = TRUE, !.at = "ask"]]
    <3> DEFINE j == [job[t] EXCEPT !.held = TRUE, !.at = "ask"]
    <3>1. /\ SafeJob(j, dir, file', spoilt) /\ j.key = job[t].key
          /\ j.fd = job[t].fd /\ j.at = "ask" /\ AnswerOf(job[t], j)
      BY <2>1, SafeJobOf DEF Job, SafeJob, Waiting, AnswerOf
    <3> HIDE DEF j
    <3>2. job' = [job EXCEPT ![t] = j]
      BY <2>3 DEF j
    <3>3. QED BY <2>1, <2>2, <3>1, <3>2, SafeStep DEF SpoiltGrows
  <2>4. CASE job' = [job EXCEPT ![t] = [Ended(job[t], FALSE) EXCEPT !.lost = IsOpen(t)]]
    <3> DEFINE e == Ended(job[t], FALSE)
               j == [e EXCEPT !.lost = IsOpen(t)]
    <3>1. /\ SafeJob(e, dir, file', spoilt) /\ e.key = job[t].key
          /\ e.fd = job[t].fd /\ e.at = "ended" /\ AnswerOf(job[t], e)
      BY SafeJobOf, SafeEnded
    <3>2. e \in Job
      BY <2>1, SafeJobOf, EndedOK DEF JobOK
    <3>3. job' = [job EXCEPT ![t] = j]
      BY <2>4
    <3> HIDE DEF e
    <3>4. /\ SafeJob(j, dir, file', spoilt) /\ j.key = job[t].key
          /\ j.fd = job[t].fd /\ j.at = "ended" /\ AnswerOf(job[t], j)
      BY <3>1, <3>2 DEF SafeJob, Job, AnswerOf, Waiting
    <3> HIDE DEF j
    <3>5. QED BY <2>1, <2>2, <3>3, <3>4, SafeStep DEF SpoiltGrows
  <2>5. QED BY <1>1, <2>3, <2>4 DEF Reserve, To
<1>2. ASSUME Ask(t) PROVE SafeInv' /\ Refusing
  <2> DEFINE j == [job[t] EXCEPT !.at = "receive", !.asked = Chunk,
                                 !.left = Chunk, !.timer = TRUE]
  <2>1. /\ job[t].at = "ask" /\ UNCHANGED <<dir, file, open, spoilt>> /\ Busy(t)
        /\ job' = [job EXCEPT ![t] = j] /\ Writes(job[t])
    BY <1>2 DEF Ask, To, Busy, Waiting, Writes
  <2>2. /\ SafeJob(j, dir, file, spoilt) /\ j.key = job[t].key
        /\ j.fd = job[t].fd /\ j.at = "receive" /\ AnswerOf(job[t], j)
    BY <2>1, SafeJobOf DEF Job, SafeJob, Waiting, AnswerOf
  <2> HIDE DEF j
  <2>3. QED BY <2>1, <2>2, SafeStep DEF SpoiltGrows
<1>3. ASSUME AskFails(t) PROVE SafeInv' /\ Refusing
  <2> DEFINE j == Destroy(job[t])
  <2>1. /\ job[t].at = "ask" /\ UNCHANGED <<dir, file, open, spoilt>> /\ Busy(t)
        /\ job' = [job EXCEPT ![t] = j] /\ Writes(job[t])
    BY <1>3 DEF AskFails, To, Busy, Waiting, Writes
  <2>2. /\ SafeJob(j, dir, file, spoilt) /\ j.key = job[t].key
        /\ j.fd = job[t].fd /\ j.at # "rename" /\ AnswerOf(job[t], j)
    BY <2>1, SafeJobOf, SafeDestroy DEF Waiting
  <2> HIDE DEF j
  <2>3. QED BY <2>1, <2>2, SafeStep DEF SpoiltGrows
<1>4. ASSUME NEW c \in Chunk, Arrive(t, c) PROVE SafeInv' /\ Refusing
  <2> DEFINE j == [job[t] EXCEPT !.asked = @ \ {c}, !.sent = @ \cup {c},
                                 !.timer = FALSE]
  <2>1. /\ job[t].at = "receive" /\ UNCHANGED <<dir, file, open, spoilt>>
        /\ job' = [job EXCEPT ![t] = j] /\ Writes(job[t]) /\ Busy(t)
    BY <1>4 DEF Arrive, To, Busy, Waiting, Writes
  <2>2. /\ SafeJob(j, dir, file, spoilt) /\ j.key = job[t].key
        /\ j.fd = job[t].fd /\ j.at = "receive" /\ AnswerOf(job[t], j)
    BY <2>1, SafeJobOf DEF Job, SafeJob, Waiting, AnswerOf
  <2> HIDE DEF j
  <2>3. QED BY <2>1, <2>2, SafeStep DEF SpoiltGrows
<1>5. ASSUME Timeout(t) PROVE SafeInv' /\ Refusing
  <2>1. PICK g \in GaveUp(job[t]) : job' = [job EXCEPT ![t] = g]
    BY <1>5 DEF Timeout, To
  <2>2. /\ job[t].at = "receive" /\ UNCHANGED <<dir, file, open, spoilt>>
        /\ Writes(job[t]) /\ Busy(t)
    BY <1>5 DEF Timeout, Writes, Busy, Waiting
  <2>3. /\ SafeJob(g, dir, file, spoilt) /\ g.key = job[t].key
        /\ g.fd = job[t].fd /\ g.at # "rename" /\ AnswerOf(job[t], g)
    BY <2>2, SafeJobOf, SafeGaveUp
  <2>4. QED BY <2>1, <2>2, <2>3, SafeStep DEF SpoiltGrows
<1>6. QED BY <1>1, <1>2, <1>3, <1>4, <1>5

LEMMA WriteEndsSafe ==
  ASSUME IInv, SafeInv, NEW t \in Transfer, NEW c \in Chunk, WriteEnds(t, c)
  PROVE  SafeInv' /\ Refusing
<1> DEFINE k == [job[t] EXCEPT !.sent = @ \ {c}]
<1>1. /\ JobOK(job[t]) /\ job[t] \in Job /\ SafeJob(job[t], dir, file, spoilt)
      /\ job[t].fd \in Fd /\ job[t].key \in Key /\ UNCHANGED <<dir, open, spoilt>>
      /\ Temp(job[t].key) \in Path /\ job[t].at # "idle" /\ Writes(job[t])
  BY SafeJobOf, PathFacts, ConstantFacts
     DEF WriteEnds, JobOK, Waiting, Job, Writes
<1>2. \A p \in Path : Kept(p) /\ dir[p] # None => file'[dir[p]] = file[dir[p]]
  BY <1>1, SafeWrite DEF WriteEnds, Works
<1>3. /\ JobOK(k) /\ SafeJob(k, dir, file', spoilt) /\ k.key = job[t].key
      /\ k.fd = job[t].fd /\ k.answer = job[t].answer /\ k.at = job[t].at
  <2>1. job[t].at = "rename" /\ job[t].key \notin spoilt =>
          Kept(Temp(job[t].key))
    BY <1>1 DEF Kept
  <2>2. /\ k \in Job /\ k.key = job[t].key /\ k.path = job[t].path
        /\ k.fd = job[t].fd /\ k.answer = job[t].answer /\ k.at = job[t].at
        /\ k.held = job[t].held /\ k.lost = job[t].lost
        /\ k.pausing = job[t].pausing
        /\ job[t].sent = {} => k.sent = {}
    BY <1>1 DEF Job
  <2> HIDE DEF k
  <2>3. JobOK(k)
    BY <1>1, <2>2 DEF JobOK
  <2>4. SafeJob(k, dir, file', spoilt)
    BY <1>1, <1>2, <2>1, <2>2 DEF SafeJob
  <2>5. QED BY <2>2, <2>3, <2>4
<1>4. ASSUME NEW j, j.key = job[t].key, j.fd = job[t].fd,
             SafeJob(j, dir, file', spoilt), AnswerOf(job[t], j),
             job' = [job EXCEPT ![t] = j], j.at = "rename" => job[t].at = "rename",
             j.at \in Waiting => Busy(t)
      PROVE  SafeInv' /\ Refusing
  BY <1>1, <1>2, <1>4, SafeStep DEF SpoiltGrows
<1>5. CASE job' = [job EXCEPT ![t] = k] /\ job[t].at # "receive"
  <2>1. AnswerOf(job[t], k)
    BY <1>3 DEF AnswerOf
  <2> HIDE DEF k
  <2>2. QED BY <1>3, <1>4, <1>5, <2>1 DEF Busy
<1>6. ASSUME job[t].at = "receive", NEW g \in GaveUp(k),
             job' = [job EXCEPT ![t] = g]
      PROVE  SafeInv' /\ Refusing
  <2>1. /\ SafeJob(g, dir, file', spoilt) /\ g.key = k.key /\ g.fd = k.fd
        /\ AnswerOf(k, g) /\ g.at # "rename"
    <3> HIDE DEF k
    <3>1. QED BY <1>3, <1>6, SafeGaveUp
  <2>2. AnswerOf(job[t], g)
    BY <1>3, <2>1 DEF AnswerOf
  <2> HIDE DEF k
  <2>3. QED BY <1>3, <1>4, <1>6, <2>1, <2>2 DEF Busy, Waiting
<1>7. CASE job' = [job EXCEPT ![t] = Written(k, c)] /\ job[t].at = "receive"
  <2> DEFINE j == Written(k, c)
  <2>1. k \in Job /\ k.at = "receive"
    BY <1>3, <1>7 DEF JobOK
  <2> HIDE DEF k
  <2>2. /\ SafeJob(j, dir, file', spoilt) /\ j.key = k.key
        /\ j.fd = k.fd /\ j.answer = k.answer
        /\ j.at \in {"receive", "saveClose"}
    BY <1>3, <2>1 DEF Job, SafeJob, Waiting, Written
  <2>3. AnswerOf(job[t], j)
    BY <1>3, <2>2 DEF AnswerOf
  <2> HIDE DEF j
  <2>4. job' = [job EXCEPT ![t] = j] /\ Busy(t)
    BY <1>7 DEF j, Busy, Waiting
  <2>5. QED BY <1>3, <1>4, <2>2, <2>3, <2>4
<1>8. QED
  <2>1. k.at = job[t].at
    BY <1>3
  <2>2. Written(k, c) = k \/ job[t].at = "receive"
    BY <2>1 DEF Written
  <2>3. \/ job' = [job EXCEPT ![t] = Written(k, c)]
        \/ job[t].at = "receive" /\ \E g \in GaveUp(k) : job' = [job EXCEPT ![t] = g]
        \/ job[t].at # "receive" /\ job' = [job EXCEPT ![t] = k]
    <3> HIDE DEF k
    <3>1. QED BY <2>1 DEF WriteEnds, To, k
  <2> HIDE DEF k
  <2>4. QED BY <1>5, <1>6, <1>7, <2>2, <2>3

\* The stream of a raw value.
LEMMA StreamSafe ==
  ASSUME IInv, SafeInv, NEW t \in Transfer
  PROVE  /\ StreamWrite(t) => SafeInv' /\ Refusing
         /\ StreamClose(t) => SafeInv' /\ Refusing
<1>1. ASSUME StreamWrite(t) PROVE SafeInv' /\ Refusing
  <2> DEFINE j(a) == [At(t, "truncate") EXCEPT !.answer = a]
  <2>1. /\ job[t].at = "stream" /\ job[t].fd \in Fd /\ job[t].key \in Key
        /\ UNCHANGED <<dir, open, spoilt>> /\ Busy(t) /\ Writes(job[t])
        /\ job[t] \in Job /\ SafeJob(job[t], dir, file, spoilt)
    BY <1>1, SafeJobOf DEF StreamWrite, JobOK, Waiting, Busy, Writes
  <2>2. \A p \in Path : Kept(p) /\ dir[p] # None =>
          file'[dir[p]] = file[dir[p]]
    BY <1>1, <2>1, SafeWrite DEF StreamWrite, Works
  <2>3. At(t, "truncate") = j(job[t].answer)
    BY <2>1 DEF At, Job
  <2>4. PICK a \in {FALSE, job[t].answer} : job' = [job EXCEPT ![t] = j(a)]
    BY <1>1, <2>3 DEF StreamWrite, To
  <2>5. job[t].answer \in {None, FALSE}
    BY <2>1 DEF SafeJob, Job
  <2>6. /\ SafeJob(j(a), dir, file', spoilt) /\ j(a).key = job[t].key
        /\ j(a).fd = job[t].fd /\ j(a).at = "truncate" /\ AnswerOf(job[t], j(a))
    BY <2>1, <2>5, ConstantFacts DEF At, Job, SafeJob, Waiting, AnswerOf
  <2> HIDE DEF j
  <2>7. QED BY <2>1, <2>2, <2>4, <2>6, SafeStep DEF SpoiltGrows
<1>2. ASSUME StreamClose(t) PROVE SafeInv' /\ Refusing
  <2> DEFINE j(a) == [job[t] EXCEPT !.held = FALSE, !.answer = a]
  <2>1. /\ JobOK(job[t]) /\ job[t].fd \in Fd /\ Close(t)
        /\ UNCHANGED <<dir, file, spoilt>> /\ job[t] \in Job
        /\ SafeJob(job[t], dir, file, spoilt)
    BY <1>2, SafeJobOf, ConstantFacts DEF StreamClose, JobOK, Job
  <2>2. [job[t] EXCEPT !.held = FALSE] = j(job[t].answer)
    BY <2>1 DEF Job
  <2>3. PICK a : /\ a = job[t].answer \/ (job[t].answer = None /\ a = FALSE)
                 /\ job' = [job EXCEPT ![t] = j(a)]
    <3>1. CASE job' = [job EXCEPT ![t] = [job[t] EXCEPT !.held = FALSE]]
      BY <2>2, <3>1
    <3>2. CASE job' = [job EXCEPT ![t] = [job[t] EXCEPT !.held = FALSE,
                         !.answer = IF @ = None THEN FALSE ELSE @]]
      <4> DEFINE b == IF job[t].answer = None THEN FALSE ELSE job[t].answer
      <4>1. job' = [job EXCEPT ![t] = j(b)]
        BY <3>2, <2>1 DEF Job
      <4>2. QED BY <4>1
    <3>3. QED BY <1>2, <3>1, <3>2 DEF StreamClose, To
  <2>4. /\ SafeJob(j(a), dir, file, spoilt) /\ j(a).key = job[t].key
        /\ j(a).fd = job[t].fd /\ j(a).at = job[t].at /\ AnswerOf(job[t], j(a))
        /\ j(a).sent = job[t].sent
    BY <2>1, <2>3, ConstantFacts DEF Job, SafeJob, Waiting, AnswerOf
  <2> HIDE DEF j
  <2>5. QED BY <2>1, <2>3, <2>4, SafeStep DEF SpoiltGrows, Busy, Writes
<1>3. QED BY <1>1, <1>2

\* save() up to the hash. Nobody writes any more to a file that was hashed, or
\* its key is spoilt.
LEMMA SaveSafe ==
  ASSUME IInv, SafeInv, NEW t \in Transfer
  PROVE  /\ SaveClose(t) => SafeInv' /\ Refusing
         /\ Truncate(t) => SafeInv' /\ Refusing
         /\ Hash(t) => SafeInv' /\ Refusing
<1> DEFINE e == SaveFailed(t)
<1>1. ASSUME spoilt' = spoilt, job[t].at \in {"saveClose", "truncate", "hash"}
      PROVE  /\ SafeJob(e, dir, file, spoilt) /\ e.key = job[t].key
             /\ e.fd = job[t].fd /\ e.at \in {"ended", "destroyClose", "unlink"}
             /\ e.sent = job[t].sent /\ AnswerOf(job[t], e)
  <2> HIDE DEF e
  <2>1. SpoiltGrows
    BY <1>1 DEF SpoiltGrows
  <2>2. QED BY <1>1, <2>1, SafeSaveFailed DEF e
<1> HIDE DEF e
<1>2. ASSUME SaveClose(t) PROVE SafeInv' /\ Refusing
  <2> DEFINE j == [At(t, "truncate") EXCEPT !.held = FALSE]
  <2>1. /\ job[t].at = "saveClose" /\ job[t].fd \in Fd /\ Close(t) /\ Busy(t)
        /\ UNCHANGED <<dir, file, spoilt>>
        /\ job' = [job EXCEPT ![t] = j] \/ job' = [job EXCEPT ![t] = e]
    BY <1>2, SafeJobOf DEF SaveClose, To, JobOK, Waiting, Busy, e
  <2>2. /\ SafeJob(j, dir, file, spoilt) /\ j.key = job[t].key
        /\ j.fd = job[t].fd /\ j.sent = job[t].sent
        /\ j.at = "truncate" /\ AnswerOf(job[t], j)
    BY <2>1, SafeJobOf DEF At, Job, SafeJob, Waiting, AnswerOf
  <2> HIDE DEF j
  <2>3. QED BY <1>1, <2>1, <2>2, SafeStep DEF Writes, SpoiltGrows
<1>3. ASSUME Truncate(t) PROVE SafeInv' /\ Refusing
  <2> DEFINE j == At(t, "hash")
  <2>1. /\ job[t].at = "truncate" /\ job[t].key \in Key /\ Busy(t)
        /\ job[t].path = Temp(job[t].key) /\ Temp(job[t].key) \in Path
        /\ UNCHANGED <<dir, open, spoilt>>
        /\ job' = [job EXCEPT ![t] = j] \/ job' = [job EXCEPT ![t] = e]
    BY <1>3, SafeJobOf, PathFacts
       DEF Truncate, To, JobOK, SafeJob, Waiting, Busy, e
  <2>2. \A p \in Path : Kept(p) /\ dir[p] # None =>
          file'[dir[p]] = file[dir[p]]
    <3>1. CASE /\ dir[job[t].path] # None
               /\ file' = [file EXCEPT ![dir[job[t].path]] = Padded(@)]
      BY <2>1, <3>1, TempNotKept DEF IInv, FilesOK
    <3>2. CASE file' = file
      BY <3>2
    <3>3. QED BY <1>3, <3>1, <3>2 DEF Truncate, Works, Exists
  <2>3. /\ SafeJob(j, dir, file', spoilt) /\ j.key = job[t].key
        /\ j.fd = job[t].fd /\ j.sent = job[t].sent
        /\ j.at = "hash" /\ AnswerOf(job[t], j)
    BY <2>1, SafeJobOf DEF At, Job, SafeJob, Waiting, AnswerOf
  <2>4. SafeJob(e, dir, file', spoilt)
    BY <1>1, <2>1 DEF SafeJob
  <2> HIDE DEF j
  <2>5. QED BY <1>1, <2>1, <2>2, <2>3, <2>4, SafeStep DEF Writes, SpoiltGrows
<1>4. ASSUME Hash(t) PROVE SafeInv' /\ Refusing
  <2> DEFINE j == [At(t, "rename") EXCEPT !.path = Block(job[t].key)]
  <2>1. /\ job[t].at = "hash" /\ job[t].path = Temp(job[t].key)
        /\ job[t].key \in Key /\ Busy(t) /\ UNCHANGED <<dir, file, open>>
        /\ job[t] \in Job /\ SafeJob(job[t], dir, file, spoilt)
    BY <1>4, SafeJobOf DEF Hash, SafeJob, Waiting, JobOK, Busy
  <2>2. CASE job' = [job EXCEPT ![t] = e] /\ UNCHANGED spoilt
    BY <1>1, <2>1, <2>2, SafeStep DEF Writes, SpoiltGrows
  <2>3. CASE /\ job' = [job EXCEPT ![t] = j] /\ Works(Exists(t))
             /\ file[dir[job[t].path]] = Whole(job[t].key)
             /\ Spoilt(job[t].key, StillWritten(dir[job[t].path]))
    <3>1. /\ j.key = job[t].key /\ j.fd = job[t].fd /\ j.sent = job[t].sent
          /\ j.at = "rename" /\ AnswerOf(job[t], j) /\ j.answer = job[t].answer
      BY <2>1 DEF At, Job, AnswerOf
    <3> HIDE DEF j
    <3>2. SpoiltGrows
      BY <2>1, <2>3 DEF Spoilt, SpoiltGrows
    <3>3. SafeJob(j, dir, file, spoilt')
      BY <2>1, <2>3, <3>1, <3>2
         DEF SafeJob, Waiting, Works, Exists, SpoiltGrows
    <3>4. j.key \notin spoilt' => ~StillWritten(dir[Temp(j.key)])
      BY <2>1, <2>3, <3>1 DEF Spoilt
    <3>5. QED BY <2>1, <2>3, <3>1, <3>2, <3>3, <3>4, SafeStep DEF Writes
  <2>4. QED BY <1>4, <2>2, <2>3 DEF Hash, To, e
<1>5. QED BY <1>2, <1>3, <1>4

LEMMA CloseLaterSafe ==
  ASSUME IInv, SafeInv, NEW t \in Transfer
  PROVE  /\ PauseClose(t) => SafeInv' /\ Refusing
         /\ DestroyClose(t) => SafeInv' /\ Refusing
<1>1. ASSUME PauseClose(t) PROVE SafeInv' /\ Refusing
  <2> DEFINE j(held) == [job[t] EXCEPT !.pausing = FALSE, !.held = held]
  <2>1. job[t].fd \in Fd /\ Close(t) /\ UNCHANGED <<dir, file, spoilt>>
        /\ job[t] \in Job /\ SafeJob(job[t], dir, file, spoilt)
    BY <1>1, SafeJobOf DEF PauseClose, JobOK, Job
  <2>2. [job[t] EXCEPT !.pausing = FALSE] = j(job[t].held)
    BY <2>1 DEF Job
  <2>3. PICK held \in {FALSE, job[t].held} : job' = [job EXCEPT ![t] = j(held)]
    BY <1>1, <2>2 DEF PauseClose, To
  <2>4. LET e == j(held)
        IN  /\ SafeJob(e, dir, file, spoilt) /\ e.key = job[t].key
            /\ e.fd = job[t].fd /\ e.sent = job[t].sent
            /\ e.at = job[t].at /\ AnswerOf(job[t], e)
    BY <2>1 DEF Job, SafeJob, AnswerOf
  <2> HIDE DEF j
  <2>5. QED BY <2>1, <2>3, <2>4, SafeStep DEF Busy, Writes, SpoiltGrows
<1>2. ASSUME DestroyClose(t) PROVE SafeInv' /\ Refusing
  <2> DEFINE j == [At(t, "unlink") EXCEPT !.held = FALSE]
             e == Ended(job[t], FALSE)
  <2>1. /\ job[t].at = "destroyClose" /\ job[t].fd \in Fd /\ Close(t) /\ Busy(t)
        /\ UNCHANGED <<dir, file, spoilt>>
        /\ job' = [job EXCEPT ![t] = j] \/ job' = [job EXCEPT ![t] = e]
    BY <1>2, SafeJobOf DEF DestroyClose, To, JobOK, Waiting, Busy
  <2>2. /\ SafeJob(j, dir, file, spoilt) /\ j.key = job[t].key
        /\ j.fd = job[t].fd /\ j.sent = job[t].sent
        /\ j.at = "unlink" /\ AnswerOf(job[t], j)
    BY <2>1, SafeJobOf DEF At, Job, SafeJob, Waiting, AnswerOf
  <2>3. /\ SafeJob(e, dir, file, spoilt) /\ e.key = job[t].key
        /\ e.fd = job[t].fd /\ e.sent = job[t].sent
        /\ e.at = "ended" /\ AnswerOf(job[t], e)
    BY SafeJobOf, SafeEnded
  <2> HIDE DEF j, e
  <2>4. QED BY <2>1, <2>2, <2>3, SafeStep DEF Writes, Waiting, SpoiltGrows
<1>3. QED BY <1>1, <1>2

\* A transfer that begins while another of its key is under way spoils the key.
LEMMA StartSafe ==
  ASSUME IInv, SafeInv, NEW t \in Transfer, NEW k \in Key, Start(t, k)
  PROVE  SafeInv' /\ Refusing
<1> DEFINE j == [job[t] EXCEPT !.at = "create", !.key = k, !.path = Temp(k)]
<1>1. /\ job' = [job EXCEPT ![t] = j] /\ UNCHANGED <<dir, file, open>>
      /\ job[t].at = "idle" /\ job[t] \in Job /\ job[t].sent = {}
      /\ SafeJob(job[t], dir, file, spoilt)
      /\ \A u \in Transfer : Busy(u) /\ job[u].key = k => k \in spoilt'
  BY SafeJobOf DEF Start, To, Spoilt, JobOK
<1>2. SpoiltGrows /\ \A x : x \in spoilt => x \in spoilt'
  BY DEF Start, Spoilt, SpoiltGrows
<1>3. /\ SafeJob(j, dir, file, spoilt') /\ j.key = k
      /\ j.answer = job[t].answer /\ j.answer # TRUE /\ j.at = "create" /\ j.sent = {}
  BY <1>1 DEF Job, SafeJob, Waiting
<1> HIDE DEF j
<1>4. job'[t] = j /\ \A u \in Transfer : u # t => job'[u] = job[u]
  BY <1>1, JobOf
<1>5. OnePerKey'
  BY <1>1, <1>2, <1>3, <1>4 DEF SafeInv, OnePerKey, Busy
<1>6. ASSUME NEW p, Kept(p)' PROVE Kept(p)
  BY <1>2, <1>3, <1>4, <1>6 DEF Kept
<1>7. Unwritten'
  BY <1>1, <1>3, <1>4, <1>6 DEF SafeInv, Unwritten, Writes, IsOpen
<1>8. SafeJobs'
  BY <1>1, <1>2, <1>3, <1>4 DEF SafeInv, SafeJobs, SafeJob
<1>9. Refusing
  BY <1>1, <1>2, <1>3, <1>4 DEF Refusing
<1>10. Sound' /\ Apart'
  BY <1>1, <1>2 DEF SafeInv, Sound, Apart
<1>11. QED BY <1>5, <1>7, <1>8, <1>9, <1>10 DEF SafeInv

\* Open() gives a number to the temporary file of t, and nothing else.
LEMMA OpenSafe ==
  ASSUME IInv, SafeInv, NEW t \in Transfer, Open(t)
  PROVE  SafeInv' /\ Refusing
<1> DEFINE f == LowestFree
           j == [job[t] EXCEPT !.fd = f, !.held = IsRaw(t),
                   !.at = IF IsRaw(t) THEN "stream" ELSE "reserve"]
<1>1. /\ job[t].at = "open" /\ job[t].path = Temp(job[t].key) /\ Busy(t)
      /\ job[t].fd = None /\ job[t] \in Job /\ JobOK(job[t])
      /\ SafeJob(job[t], dir, file, spoilt) /\ UNCHANGED <<dir, file, spoilt>>
  BY SafeJobOf DEF Open, SafeJob, Waiting, JobOK, Busy
<1>2. CASE job' = [job EXCEPT ![t] = Ended(job[t], FALSE)] /\ UNCHANGED open
  <2> DEFINE e == Ended(job[t], FALSE)
  <2>1. /\ SafeJob(e, dir, file, spoilt) /\ e.key = job[t].key
        /\ e.fd = job[t].fd /\ e.sent = job[t].sent
        /\ e.at = "ended" /\ AnswerOf(job[t], e)
    BY SafeJobOf, SafeEnded
  <2> HIDE DEF e
  <2>2. job' = [job EXCEPT ![t] = e]
    BY <1>2 DEF e
  <2>3. QED BY <1>1, <1>2, <2>1, <2>2, SafeStep DEF Writes, Waiting, SpoiltGrows
<1>3. CASE Opens(t)
  <2>1. /\ job' = [job EXCEPT ![t] = j]
        /\ open' = [open EXCEPT ![f] = dir[Temp(job[t].key)]]
    BY <1>1, <1>3 DEF Opens
  <2>2. f \in Fd
    BY <1>1, SomeFree
  <2> HIDE DEF f
  <2>3. /\ SafeJob(j, dir, file, spoilt) /\ j.key = job[t].key /\ j.fd = f
        /\ j.at \in {"reserve", "stream"} /\ j.answer = job[t].answer
    BY <1>1 DEF Job, SafeJob, Waiting
  <2> HIDE DEF j
  <2>4. job'[t] = j /\ \A u \in Transfer : u # t => job'[u] = job[u]
    BY <2>1, JobOf
  <2>5. OnePerKey'
    BY <1>1, <2>3, <2>4 DEF SafeInv, OnePerKey, Busy
  <2>6. ASSUME NEW p, Kept(p)' PROVE Kept(p)
    BY <1>1, <2>3, <2>4, <2>6 DEF Kept
  <2>7. Unwritten'
    <3> SUFFICES ASSUME NEW u \in Transfer, NEW p \in Path, Writes(job'[u]),
                        job'[u].fd # None, Kept(p)', dir[p] # None,
                        open'[job'[u].fd] = dir[p]
                 PROVE  FALSE
      BY <1>1 DEF Unwritten, IsOpen
    <3>1. Kept(p)
      BY <2>6
    <3>2. dir[p] # dir[Temp(job[t].key)]
      BY <1>1, <3>1, TempNotKept
    <3>3. job'[u].fd # f
      BY <2>1, <2>2, <3>2 DEF IInv, FilesOK
    <3>4. u # t
      BY <2>3, <2>4, <3>3
    <3>5. job'[u] = job[u] /\ open'[job[u].fd] = open[job[u].fd]
      <4>1. job'[u] = job[u] /\ job[u].fd \in Fd
        BY <2>4, <3>4, JobOf DEF Job
      <4>2. QED BY <2>1, <2>2, <3>3, <4>1 DEF IInv, FilesOK
    <3>6. QED BY <3>1, <3>5 DEF SafeInv, Unwritten, IsOpen
  <2>8. SafeJobs'
    BY <1>1, <2>3, <2>4 DEF SafeInv, SafeJobs
  <2>9. Refusing
    BY <1>1, <2>3, <2>4 DEF Refusing, SpoiltGrows
  <2>10. Apart' /\ Sound'
    BY <1>1 DEF SafeInv, Apart, Sound
  <2>11. QED BY <2>5, <2>7, <2>8, <2>9, <2>10 DEF SafeInv
<1>4. QED BY <1>1, <1>2, <1>3 DEF Open, Opens, Works, To

\* A step of t that changes the paths of its key.
LEMMA SafePaths ==
  ASSUME IInv, SafeInv, NEW t \in Transfer, NEW STATE j,
         Busy(t), job' = [job EXCEPT ![t] = j], j.key = job[t].key,
         j.fd = job[t].fd, j.at # "rename", j.sent = job[t].sent,
         j.at \notin {"reserve", "ask", "receive", "stream"},
         UNCHANGED <<open, spoilt>>, SafeJob(j, dir', file', spoilt), Apart',
         \A p \in Path : p \notin {Temp(job[t].key), Block(job[t].key)} =>
           dir'[p] = dir[p],
         \A x \in DOMAIN file : file'[x] = file[x],
         job[t].key \notin spoilt =>
           /\ dir[Block(job[t].key)] # None => dir'[Block(job[t].key)] # None
           /\ dir'[Block(job[t].key)] # None =>
                /\ file'[dir'[Block(job[t].key)]] = Whole(job[t].key)
                /\ \E q \in Path : Kept(q) /\ dir'[Block(job[t].key)] = dir[q]
  PROVE  SafeInv'
<1>1. job'[t] = j /\ \A u \in Transfer : u # t => job'[u] = job[u]
  BY JobOf
<1>2. job[t].key \in Key
  BY JobOf DEF JobOK, Busy, Waiting
<1>3. ASSUME NEW u \in Transfer, u # t, Busy(u), job[u].key \notin spoilt
      PROVE  /\ dir'[Temp(job[u].key)] = dir[Temp(job[u].key)]
             /\ job[u].key # job[t].key
  <2>1. job[u].key \in Key /\ job[u].key # job[t].key
    BY <1>3, JobOf DEF SafeInv, OnePerKey, JobOK, Busy, Waiting
  <2>2. QED BY <1>2, <2>1, PathFacts
<1>4. OnePerKey'
  BY <1>1 DEF SafeInv, OnePerKey, Busy
<1>5. ASSUME NEW p \in Path, Kept(p)', dir'[p] # None
      PROVE  \E q \in Path : Kept(q) /\ dir'[p] = dir[q]
  <2>1. PICK k \in Key \ spoilt :
          \/ p = Block(k)
          \/ p = Temp(k) /\ \E u \in Transfer : job'[u].at = "rename" /\ job'[u].key = k
    BY <1>5 DEF Kept
  <2>2. CASE p = Block(k)
    <3>1. CASE k = job[t].key
      BY <1>5, <2>2, <3>1
    <3>2. CASE k # job[t].key
      <4>1. dir'[p] = dir[p]
        BY <1>2, <2>1, <2>2, <3>2, PathFacts
      <4>2. QED BY <2>2, <4>1 DEF Kept
    <3>3. QED BY <3>1, <3>2
  <2>3. ASSUME p = Temp(k), NEW u \in Transfer, job'[u].at = "rename",
               job'[u].key = k
        PROVE  \E q \in Path : Kept(q) /\ dir'[p] = dir[q]
    <3>1. u # t /\ job'[u] = job[u]
      BY <1>1, <2>3
    <3>2. Kept(p) /\ dir'[p] = dir[p]
      BY <1>3, <2>3, <3>1 DEF Kept, Busy, Waiting
    <3>3. QED BY <3>2
  <2>4. QED BY <2>1, <2>2, <2>3
<1>6. Unwritten'
  <2> SUFFICES ASSUME NEW u \in Transfer, NEW p \in Path, Writes(job'[u]),
                      job'[u].fd # None, open[job'[u].fd] # None, Kept(p)',
                      dir'[p] # None, open[job'[u].fd] = dir'[p]
               PROVE  FALSE
    BY DEF Unwritten, IsOpen
  <2>1. Writes(job[u]) /\ job'[u].fd = job[u].fd
    BY <1>1 DEF Writes
  <2>2. PICK q \in Path : Kept(q) /\ dir'[p] = dir[q]
    BY <1>5
  <2>3. QED BY <2>1, <2>2 DEF SafeInv, Unwritten, IsOpen
<1>7. SafeJobs'
  <2> SUFFICES ASSUME NEW u \in Transfer, u # t
               PROVE  SafeJob(job[u], dir', file', spoilt)
    BY <1>1 DEF SafeJobs
  <2>1. SafeJob(job[u], dir, file, spoilt) /\ JobOK(job[u])
    BY SafeJobOf
  <2>2. job[u].at = "rename" /\ job[u].key \notin spoilt =>
          /\ dir'[Temp(job[u].key)] = dir[Temp(job[u].key)]
          /\ dir[Temp(job[u].key)] \in DOMAIN file
    BY <1>3, <2>1, PathFacts
       DEF SafeJob, Busy, Waiting, JobOK, IInv, FilesOK
  <2>3. job[u].answer = TRUE /\ job[u].key \notin spoilt =>
          dir'[Block(job[u].key)] # None
    <3>1. job[u].answer = TRUE => job[u].key \in Key
      BY <2>1 DEF SafeJob, JobOK
    <3>2. QED BY <1>2, <2>1, <3>1, PathFacts DEF SafeJob
  <2>4. QED BY <2>1, <2>2, <2>3 DEF SafeJob
<1>8. Sound'
  <2> SUFFICES ASSUME NEW k \in Key \ spoilt, k # job[t].key,
                      dir'[Block(k)] # None
               PROVE  file'[dir'[Block(k)]] = Whole(k)
    BY DEF Sound
  <2>1. dir'[Block(k)] = dir[Block(k)] /\ dir[Block(k)] \in DOMAIN file
    BY <1>2, PathFacts DEF IInv, FilesOK
  <2>2. QED BY <2>1 DEF SafeInv, Sound
<1>9. QED BY <1>4, <1>6, <1>7, <1>8 DEF SafeInv

LEMMA CreateSafe ==
  ASSUME IInv, SafeInv, NEW t \in Transfer, Create(t)
  PROVE  SafeInv' /\ Refusing
<1> DEFINE j == At(t, "open")
           k == job[t].key
           n == Len(file) + 1
<1>1. /\ job[t].at = "create" /\ job[t].path = Temp(k) /\ k \in Key
      /\ Temp(k) \in Path /\ Block(k) \in Path /\ Temp(k) # Block(k) /\ Busy(t)
      /\ UNCHANGED <<open, spoilt>> /\ JobOK(job[t]) /\ job[t] \in Job
      /\ SafeJob(job[t], dir, file, spoilt)
  BY SafeJobOf, PathFacts DEF Create, SafeJob, Waiting, JobOK, Busy
<1>2. /\ j.key = k /\ j.fd = job[t].fd /\ j.at = "open" /\ j.sent = job[t].sent
      /\ j.answer = job[t].answer /\ j.path = job[t].path
  BY <1>1 DEF At, Job
<1>3. \A d, f : SafeJob(j, d, f, spoilt)
  <2> HIDE DEF j, k
  <2>1. job[t].answer # TRUE /\ j.path = Temp(k)
    BY <1>1, <1>2 DEF SafeJob
  <2>2. QED BY <1>2, <2>1 DEF SafeJob, Waiting
<1>4. AnswerOf(job[t], j)
  BY <1>2 DEF AnswerOf
<1> HIDE DEF j
<1>5. CASE job' = [job EXCEPT ![t] = j] /\ Exists(t) /\ UNCHANGED <<dir, file>>
  BY <1>1, <1>2, <1>3, <1>4, <1>5, SafeStep DEF Writes, SpoiltGrows
<1>6. CASE /\ job' = [job EXCEPT ![t] = j] /\ ~Exists(t)
           /\ file' = Append(file, << >>)
           /\ dir' = [dir EXCEPT ![job[t].path] = n]
  <2>1. Len(file) \in Nat /\ DOMAIN file = 1 .. Len(file)
        /\ file \in Seq(Content)
    BY DEF IInv, FilesOK
  <2>2. n \in Nat /\ n \notin DOMAIN file /\ n # None
        /\ \A x \in DOMAIN file : file'[x] = file[x]
    BY <1>6, <2>1, ConstantFacts DEF Content
  <2>3. dir'[Temp(k)] = n /\ \A p \in Path : p # Temp(k) => dir'[p] = dir[p]
    BY <1>1, <1>6 DEF IInv, FilesOK
  <2> HIDE DEF n
  <2>4. \A p \in Path : dir[p] # None => dir[p] \in DOMAIN file
    BY DEF IInv, FilesOK
  <2>5. Apart'
    BY <2>2, <2>3, <2>4 DEF SafeInv, Apart
  <2>6. dir'[Block(k)] = dir[Block(k)]
    BY <1>1, <2>3
  <2>7. k \notin spoilt /\ dir'[Block(k)] # None =>
          /\ file'[dir'[Block(k)]] = Whole(k)
          /\ Kept(Block(k))
    BY <1>1, <2>2, <2>4, <2>6 DEF SafeInv, Sound, Kept
  <2>8. SafeInv'
    <3>1. SafeJob(j, dir', file', spoilt)
      BY <1>3
    <3> HIDE DEF k
    <3>2. QED BY <1>1, <1>2, <1>6, <2>2, <2>3, <2>5, <2>6, <2>7, <3>1, SafePaths
              DEF k
  <2>9. Refusing
    <3>1. job'[t] = j /\ \A u \in Transfer : u # t => job'[u] = job[u]
      BY <1>6, JobOf
    <3>2. QED BY <1>1, <1>2, <2>3, <3>1, PathFacts DEF Refusing, SpoiltGrows
  <2>10. QED BY <2>8, <2>9
<1>7. CASE /\ UNCHANGED <<dir, file>>
           /\ \/ job' = [job EXCEPT ![t] = At(t, "hung")]
              \/ job' = [job EXCEPT ![t] = Ended(job[t], FALSE)]
  <2> DEFINE h == At(t, "hung")
             e == Ended(job[t], FALSE)
  <2>1. /\ h.key = job[t].key /\ h.fd = job[t].fd /\ h.at = "hung"
        /\ h.sent = job[t].sent /\ h.answer = job[t].answer
    BY <1>1 DEF At, Job
  <2>2. job' = [job EXCEPT ![t] = h] \/ job' = [job EXCEPT ![t] = e]
    BY <1>7
  <2> HIDE DEF h
  <2>3. /\ SafeJob(h, dir, file, spoilt) /\ AnswerOf(job[t], h)
    BY <1>1, <2>1 DEF SafeJob, Waiting, AnswerOf
  <2>4. /\ SafeJob(e, dir, file, spoilt) /\ e.key = job[t].key
        /\ e.fd = job[t].fd /\ e.sent = job[t].sent
        /\ e.at = "ended" /\ AnswerOf(job[t], e)
    BY SafeJobOf, SafeEnded
  <2> HIDE DEF e
  <2>5. QED BY <1>1, <1>7, <2>1, <2>2, <2>3, <2>4, SafeStep
            DEF Writes, Waiting, SpoiltGrows
<1>8. QED
  <2>1. \/ job' = [job EXCEPT ![t] = At(t, "open")]
           /\ IF Exists(t) THEN UNCHANGED <<dir, file>>
              ELSE /\ file' = Append(file, << >>)
                   /\ dir' = [dir EXCEPT ![job[t].path] = Len(file) + 1]
        \/ /\ UNCHANGED <<dir, file>>
           /\ \/ job' = [job EXCEPT ![t] = At(t, "hung")]
              \/ job' = [job EXCEPT ![t] = Ended(job[t], FALSE)]
    BY DEF Create, To
  <2>2. QED BY <1>5, <1>6, <1>7, <2>1 DEF j

LEMMA UnlinkSafe ==
  ASSUME IInv, SafeInv, NEW t \in Transfer, Unlink(t)
  PROVE  SafeInv' /\ Refusing
<1> DEFINE j == Ended(job[t], FALSE)
           k == job[t].key
<1>1. /\ job[t].at = "unlink" /\ k \in Key /\ job[t].path \in {Temp(k), Block(k)}
      /\ k \notin spoilt => job[t].path = Temp(k)
      /\ Temp(k) \in Path /\ Block(k) \in Path /\ Temp(k) # Block(k) /\ Busy(t)
      /\ job' = [job EXCEPT ![t] = j] /\ UNCHANGED <<open, file, spoilt>>
  BY SafeJobOf, PathFacts DEF Unlink, To, SafeJob, Waiting, JobOK, Busy
<1>2. /\ SafeJob(j, dir, file, spoilt) /\ j.key = job[t].key
      /\ j.fd = job[t].fd /\ j.sent = job[t].sent
      /\ j.at = "ended" /\ AnswerOf(job[t], j)
  BY SafeJobOf, SafeEnded
<1> HIDE DEF j
<1>3. CASE UNCHANGED dir
  BY <1>1, <1>2, <1>3, SafeStep DEF Writes, Waiting, SpoiltGrows
<1>4. CASE dir' = [dir EXCEPT ![job[t].path] = None]
  <2>1. /\ \A p \in Path : p # job[t].path => dir'[p] = dir[p]
        /\ dir'[job[t].path] = None
    BY <1>1, <1>4 DEF IInv, FilesOK
  <2>2. Apart'
    BY <2>1 DEF SafeInv, Apart
  <2>3. k \notin spoilt => dir'[Block(k)] = dir[Block(k)]
    BY <1>1, <2>1
  <2>4. k \notin spoilt /\ dir'[Block(k)] # None =>
          file'[dir'[Block(k)]] = Whole(k) /\ Kept(Block(k))
    BY <1>1, <2>3 DEF SafeInv, Sound, Kept
  <2>5. SafeJob(j, dir', file', spoilt)
    BY <1>1, <1>2, <2>3 DEF SafeJob, Waiting
  <2>6. SafeInv'
    BY <1>1, <1>2, <2>1, <2>2, <2>3, <2>4, <2>5, SafePaths
  <2>7. Refusing
    <3>1. job'[t] = j /\ \A u \in Transfer : u # t => job'[u] = job[u]
      BY <1>1, JobOf
    <3>2. \A l \in Key \ spoilt : dir'[Block(l)] = dir[Block(l)]
      BY <1>1, <2>1, <2>3, PathFacts
    <3>3. QED BY <1>1, <1>2, <3>1, <3>2 DEF Refusing, SpoiltGrows, AnswerOf
  <2>8. QED BY <2>6, <2>7
<1>5. QED BY <1>3, <1>4 DEF Unlink

\* The only step by which a block gets in its place.
Keeping(t) ==
  /\ \A k \in Key \ spoilt :
       dir'[Block(k)] # None <=> (dir[Block(k)] # None \/ k = job[t].key)
  /\ \A u \in Transfer : u # t => job'[u] = job[u]
  /\ IF job[t].answer = None THEN job'[t].answer = TRUE
     ELSE job[t].answer = FALSE /\ job'[t].answer = FALSE
  /\ job'[t].key = job[t].key /\ job[t].key \in Key
  /\ spoilt' = spoilt

LEMMA RenameSafe ==
  ASSUME IInv, SafeInv, NEW t \in Transfer, Rename(t)
  PROVE  SafeInv' /\ (Refusing \/ Keeping(t))
<1> DEFINE k == job[t].key
<1>1. /\ job[t].at = "rename" /\ k \in Key /\ job[t] \in Job
      /\ Temp(k) \in Path /\ Block(k) \in Path /\ Temp(k) # Block(k) /\ Busy(t)
      /\ SafeJob(job[t], dir, file, spoilt) /\ UNCHANGED <<open, file>>
  BY SafeJobOf, PathFacts DEF Rename, SafeJob, Waiting, JobOK, Busy
<1>2. CASE /\ job' = [job EXCEPT ![t] = SaveFailed(t)]
           /\ UNCHANGED dir /\ Spoilt(k, TRUE)
  <2> DEFINE e == SaveFailed(t)
  <2>1. SpoiltGrows /\ k \in spoilt'
    BY <1>1, <1>2 DEF Spoilt, SpoiltGrows
  <2>2. /\ SafeJob(e, dir, file, spoilt') /\ e.key = job[t].key
        /\ e.fd = job[t].fd /\ e.sent = job[t].sent
        /\ e.at \in {"ended", "destroyClose", "unlink"} /\ AnswerOf(job[t], e)
    BY <1>1, <2>1, SafeSaveFailed
  <2> HIDE DEF e
  <2>3. job' = [job EXCEPT ![t] = e]
    BY <1>2 DEF e
  <2>4. QED BY <1>1, <1>2, <2>1, <2>2, <2>3, SafeStep DEF Writes
<1>3. CASE Renames(t)
  <2> DEFINE j == Ended(job[t], TRUE)
  <2>1. /\ job' = [job EXCEPT ![t] = j] /\ dir[Temp(k)] # None
        /\ dir' = [dir EXCEPT ![Block(k)] = dir[Temp(k)], ![Temp(k)] = None]
        /\ spoilt' = spoilt
    BY <1>3 DEF Renames
  <2>2. /\ dir'[Temp(k)] = None /\ dir'[Block(k)] = dir[Temp(k)]
        /\ \A p \in Path : p \notin {Temp(k), Block(k)} => dir'[p] = dir[p]
    BY <1>1, <2>1 DEF IInv, FilesOK
  <2>3. /\ j.key = k /\ j.fd = job[t].fd /\ j.sent = job[t].sent
        /\ j.at = "ended"
        /\ j.answer = IF job[t].answer = None THEN TRUE ELSE job[t].answer
        /\ job[t].answer \in {None, FALSE}
    BY <1>1 DEF Ended, Job, SafeJob
  <2> HIDE DEF j
  <2>4. SafeJob(j, dir', file', spoilt)
    BY <2>1, <2>2, <2>3 DEF SafeJob, Waiting
  <2>5. Apart'
    <3> SUFFICES ASSUME NEW p \in Path, NEW q \in Path, dir'[p] # None,
                        dir'[p] = dir'[q]
                 PROVE  p = q
      BY DEF Apart
    <3>1. \A r \in Path : dir'[r] = dir[Temp(k)] => r = Block(k)
      BY <1>1, <2>1, <2>2 DEF SafeInv, Apart
    <3>2. QED BY <1>1, <2>2, <3>1 DEF SafeInv, Apart
  <2>6. k \notin spoilt => file[dir[Temp(k)]] = Whole(k) /\ Kept(Temp(k))
    BY <1>1 DEF SafeJob, Kept
  <2>7. SafeInv'
    BY <1>1, <2>1, <2>2, <2>3, <2>4, <2>5, <2>6, SafePaths
  <2>8. Keeping(t)
    <3>1. job'[t] = j /\ \A u \in Transfer : u # t => job'[u] = job[u]
      BY <2>1, JobOf
    <3>2. ASSUME NEW l \in Key
          PROVE  dir'[Block(l)] # None <=> (dir[Block(l)] # None \/ l = k)
      BY <1>1, <2>1, <2>2, PathFacts
    <3>3. IF job[t].answer = None THEN job'[t].answer = TRUE
          ELSE job[t].answer = FALSE /\ job'[t].answer = FALSE
      BY <2>3, <3>1
    <3>4. QED BY <1>1, <2>1, <2>3, <3>1, <3>2, <3>3 DEF Keeping
  <2>9. QED BY <2>7, <2>8
<1>4. QED BY <1>1, <1>2, <1>3 DEF Rename, Renames, Works, To

LEMMA CrashSafe ==
  ASSUME IInv, SafeInv, Crash
  PROVE  SafeInv' /\ Refusing
<1> DEFINE j(t) == [Ended(job[t], FALSE) EXCEPT !.asked = {}, !.sent = {},
                      !.left = {}, !.timer = FALSE, !.leaked = FALSE,
                      !.pausing = FALSE, !.held = FALSE, !.lost = FALSE]
<1>1. /\ job' = [t \in Transfer |-> IF job[t].at = "idle" THEN job[t] ELSE j(t)]
      /\ open' = [d \in Fd |-> None] /\ UNCHANGED <<dir, file, spoilt>>
  BY DEF Crash
<1>2. ASSUME NEW t \in Transfer
      PROVE  /\ SafeJob(j(t), dir, file, spoilt) /\ j(t).at = "ended"
             /\ j(t).key = job[t].key /\ AnswerOf(job[t], j(t))
  <2> DEFINE e == Ended(job[t], FALSE)
  <2>1. /\ SafeJob(e, dir, file, spoilt) /\ e.at = "ended" /\ e.key = job[t].key
        /\ AnswerOf(job[t], e)
    BY SafeJobOf, SafeEnded
  <2>2. e \in Job
    BY SafeJobOf DEF Ended, Job
  <2> HIDE DEF e
  <2>3. LET f == [e EXCEPT !.asked = {}, !.sent = {}, !.left = {},
                           !.timer = FALSE, !.leaked = FALSE,
                           !.pausing = FALSE, !.held = FALSE, !.lost = FALSE]
        IN  /\ SafeJob(f, dir, file, spoilt) /\ f.at = "ended" /\ f.key = e.key
            /\ f.answer = e.answer
    BY <2>1, <2>2 DEF SafeJob, Job, Waiting
  <2>4. QED BY <2>1, <2>3 DEF e, AnswerOf
<1> HIDE DEF j
<1>3. ASSUME NEW t \in Transfer
      PROVE  SafeJob(job'[t], dir, file, spoilt) /\ job'[t].key = job[t].key
             /\ job'[t].at \in {"idle", "ended"} /\ AnswerOf(job[t], job'[t])
  <2>1. CASE job[t].at = "idle"
    BY <1>1, <2>1, SafeJobOf DEF AnswerOf
  <2>2. CASE job[t].at # "idle"
    BY <1>1, <1>2, <2>2
  <2>3. QED BY <2>1, <2>2
<1>4. OnePerKey'
  BY <1>3 DEF OnePerKey, Busy, Waiting
<1>5. Unwritten'
  <2> SUFFICES ASSUME NEW u \in Transfer, job'[u].fd # None
               PROVE  open'[job'[u].fd] = None
    BY DEF Unwritten, IsOpen
  <2>1. JobOK(job'[u])
    BY CrashInd DEF IInv, JobsOK
  <2>2. job'[u].fd \in Fd
    BY <2>1 DEF JobOK, Job
  <2>3. QED BY <1>1, <2>2
<1>6. Refusing
  BY <1>1, <1>3 DEF Refusing, AnswerOf, SpoiltGrows
<1>7. SafeJobs'
  BY <1>1, <1>3 DEF SafeJobs
<1>8. Apart' /\ Sound'
  BY <1>1 DEF SafeInv, Apart, Sound
<1>9. QED BY <1>4, <1>5, <1>6, <1>7, <1>8 DEF SafeInv

LEMMA InitSafe == Init => SafeInv
<1> SUFFICES ASSUME Init PROVE SafeInv
  OBVIOUS
<1>1. SafeJobs
  BY ConstantFacts DEF Init, SafeJobs, SafeJob, Waiting
<1>2. Sound /\ Apart
  BY PathFacts DEF Init, Sound, Apart
<1>3. QED BY <1>1, <1>2 DEF Init, SafeInv, OnePerKey, Unwritten, Busy, IsOpen,
                            Waiting

\* Every step only refuses transfers, or keeps the block of one.
LEMMA NextSafe ==
  ASSUME IInv, SafeInv, [Next]_vars
  PROVE  SafeInv' /\ (Refusing \/ \E t \in Transfer : Keeping(t))
<1>1. CASE UNCHANGED vars
  <2>1. SafeInv'
    BY <1>1 DEF vars, SafeInv, Apart, OnePerKey, Busy, Unwritten, IsOpen, Kept,
                SafeJobs, Sound
  <2>2. Refusing
    BY <1>1 DEF vars, Refusing, SpoiltGrows
  <2>3. QED BY <2>1, <2>2
<1>2. ASSUME NEW t \in Transfer, Calls(t)
      PROVE  SafeInv' /\ (Refusing \/ \E u \in Transfer : Keeping(u))
  BY <1>2, CreateSafe, OpenSafe, TransferSafe, WriteEndsSafe, StreamSafe,
     SaveSafe, RenameSafe, CloseLaterSafe, UnlinkSafe DEF Calls
<1>3. QED BY <1>1, <1>2, StartSafe, TransferSafe, CrashSafe DEF Next

\* What is at a published path has the hash in its name, and a block whose STORE
\* was answered with true stays in its place, but for the keys of which a
\* transfer began while another was under way, whose file was hashed while
\* somebody could still write to it, or whose rename failed (save(), free(),
\* destroy(), createExistingFile()).
THEOREM UnspoiltSound == Spec => []SoundUnlessSpoilt
<1>1. Init => IInv /\ SafeInv
  BY InitInd, InitSafe
<1>2. IInv /\ SafeInv /\ [Next]_vars => (IInv /\ SafeInv)'
  BY NextInd, NextSafe
<1>3. IInv /\ SafeInv => SoundUnlessSpoilt
  BY DEF SafeInv, Sound, SafeJobs, SafeJob, SoundUnlessSpoilt
<1>4. QED BY <1>1, <1>2, <1>3, PTL DEF Spec

-----------------------------------------------------------------------------
(* The files implement BlockStore.                                         *)

Stored == {k \in Key \ spoilt : /\ dir[Block(k)] # None
                                /\ file[dir[Block(k)]] = Whole(k)}

Answer(j) == IF j.answer = TRUE THEN j.key ELSE j.answer

Answers == [t \in Transfer |-> Answer(job[t])]

LEMMA StoreInit == Init => Store!Init
<1> SUFFICES ASSUME Init PROVE Store!Init
  OBVIOUS
<1>1. Stored = {}
  BY PathFacts DEF Init, Stored
<1>2. Answers = [t \in Transfer |-> None]
  BY ConstantFacts DEF Init, Answers, Answer
<1>3. QED BY <1>1, <1>2 DEF Store!Init, Init, Stored, Answers, Answer

LEMMA StoreNext ==
  ASSUME IInv, SafeInv, [Next]_vars, IInv'
  PROVE  Store!Next
<1>1. SafeInv' /\ (Refusing \/ \E t \in Transfer : Keeping(t))
  BY NextSafe
<1>2. Stored = {k \in Key \ spoilt : dir[Block(k)] # None}
      /\ Stored' = {k \in Key \ spoilt' : dir'[Block(k)] # None}
  BY <1>1 DEF SafeInv, Stored, Sound
<1>3. CASE Refusing
  <2>0. PICK T \in SUBSET Transfer :
          T = {t \in Transfer : job[t].answer = None /\ job'[t].answer = FALSE}
    OBVIOUS
  <2>1. \A t \in T : Answers[t] = None
    BY <2>0, ConstantFacts DEF Answers, Answer
  <2>2. Answers' = [t \in Transfer |-> IF t \in T THEN FALSE ELSE Answers[t]]
    <3>1. ASSUME NEW t \in Transfer
          PROVE  Answer(job'[t]) = IF t \in T THEN FALSE ELSE Answer(job[t])
      BY <1>3, <2>0 DEF Refusing, Answer
    <3>2. QED BY <3>1 DEF Answers
  <2>3. CASE spoilt' = spoilt
    <3>1. Stored' = Stored
      BY <1>2, <1>3, <2>3 DEF Refusing
    <3>2. Store!Refuse(T)
      BY <2>1, <2>2, <2>3, <3>1
         DEF Store!Refuse, Store!Told, Stored, Answers, Answer
    <3>3. QED BY <3>2 DEF Store!Next
  <2>4. ASSUME NEW k \in Key, spoilt' = spoilt \cup {k}
        PROVE  Store!Next
    <3>1. Stored' = Stored \ {k}
      BY <1>2, <1>3, <2>4 DEF Refusing
    <3>2. Store!Doubt(k, T)
      BY <2>1, <2>2, <2>4, <3>1
         DEF Store!Doubt, Store!Told, Stored, Answers, Answer
    <3>3. QED BY <3>2 DEF Store!Next
  <2>5. QED BY <1>3, <2>3, <2>4 DEF Refusing, SpoiltGrows
<1>4. ASSUME NEW t \in Transfer, Keeping(t) PROVE Store!Next
  <2>1. PICK k \in Key : k = job[t].key
    BY <1>4 DEF Keeping
  <2>2. Stored' = Stored \cup ({k} \ spoilt) /\ spoilt' = spoilt
    BY <1>2, <1>4, <2>1 DEF Keeping
  <2>3. \A u \in Transfer : u # t => Answer(job'[u]) = Answer(job[u])
    BY <1>4 DEF Keeping
  <2>4. CASE job[t].answer = None
    <3>1. Answer(job'[t]) = k /\ Answer(job[t]) = None
      BY ConstantFacts, <1>4, <2>1, <2>4 DEF Keeping, Answer
    <3>2. Answers' = [Answers EXCEPT ![t] = k] /\ Answers[t] = None
      BY <2>3, <3>1 DEF Answers
    <3>3. Store!Keep(t, k)
      BY <2>2, <3>2 DEF Store!Keep, Stored, Answers, Answer
    <3>4. QED BY <3>3 DEF Store!Next
  <2>5. CASE job[t].answer # None
    <3>1. Answer(job'[t]) = FALSE /\ Answer(job[t]) = FALSE
      BY <1>4, <2>5 DEF Keeping, Answer
    <3>2. Answers' = Answers /\ Answers[t] = FALSE
      BY <2>3, <3>1 DEF Answers
    <3>3. Store!KeepUntold(t, k)
      BY <2>2, <3>2 DEF Store!KeepUntold, Stored, Answers, Answer
    <3>4. QED BY <3>3 DEF Store!Next
  <2>6. QED BY <2>4, <2>5
<1>5. QED BY <1>1, <1>3, <1>4

\* The files are a store of blocks to those who ask for transfers: none is lost
\* or spoilt but in the three ways above, and a transfer is told at most one
\* thing, true only of the block it kept (save(), destroy()).
THEOREM FilesImplementBlockStore == Spec => ImplementsBlockStore
<1>1. Init => IInv /\ SafeInv
  BY InitInd, InitSafe
<1>2. IInv /\ SafeInv /\ [Next]_vars => (IInv /\ SafeInv)'
  BY NextInd, NextSafe
<1>3. IInv /\ SafeInv /\ IInv' /\ [Next]_vars => [Store!Next]_(Store!vars)
  BY StoreNext
<1>4. QED BY <1>1, <1>2, <1>3, StoreInit, PTL
          DEF Spec, ImplementsBlockStore, Store!Spec

=============================================================================
