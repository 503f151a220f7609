----------------------------- MODULE BlockFiles -----------------------------
(***************************************************************************)
(* Transfers of blocks into the filesystem (FilesystemStorage.js and       *)
(* FilesystemBlock.js, as BlockKVStore.js, BlockPartialValue.js and the    *)
(* STORE and PARTIAL_VALUE requests of RPC.js use them).                   *)
(*                                                                         *)
(* A block is received into a temporary file that bears the hash asked for *)
(* and is renamed to the published path once the file has that hash. Node  *)
(* runs each fs call in a thread of its own, so between two calls of one   *)
(* transfer come calls of any other: one action here is one fs call with   *)
(* the code that runs when it ends. A descriptor is a number, the lowest   *)
(* one free, and stays one after a close. Files are inodes: a rename or    *)
(* unlink leaves those who have the file open what they have.              *)
(*                                                                         *)
(* Any call may fail, for want of what it is about or because the disk     *)
(* refuses. Peers are honest: a chunk of the data of k is what k is the    *)
(* hash of, and is written "k". Only such a whole file has the hash k.     *)
(***************************************************************************)
EXTENDS Integers, FiniteSets, Sequences

CONSTANTS
  Transfer,    \* the transfers this peer is asked for, by STORE or download
  Key,         \* the hashes of blocks
  Raw,         \* the keys whose data is short enough to come in a message
  Chunks,      \* how many chunks of PartialValue.SIZE the data has
  MaxCrashes,  \* bound: how often the process dies
  MaxErrors,   \* bound: how often the disk refuses a call
  Blank,       \* what is in a file where nothing was written
  None

ASSUME FilesAssumption ==
  /\ IsFiniteSet(Transfer)
  /\ Raw \subseteq Key
  /\ Chunks \in Nat \ {0}
  /\ {MaxCrashes, MaxErrors} \subseteq Nat
  /\ Blank \notin Key
  /\ None \notin Nat \cup BOOLEAN \cup Key
  /\ Key \cap BOOLEAN = {}

VARIABLES
  dir,      \* the inode at each path, or None
  file,     \* what is in each inode: nothing, or Chunks chunks
  open,     \* the inode each descriptor number stands for, or None
  job,      \* where each transfer is
  crashes,  \* how often the process has died
  errors    \* how often the disk has refused a call

\* History: no action looks at it.
VARIABLE
  spoilt    \* the keys whose transfers have got in each other's way

vars == <<dir, file, open, job, crashes, errors, spoilt>>

Chunk == 1..Chunks
Fd    == 1..Cardinality(Transfer)   \* no transfer opens two

\* The path of createTempFilePath(intendedHash), and of createBlockPath(hash).
Temp(k)  == <<"temp", k>>
Block(k) == <<"block", k>>
Path == {Temp(k) : k \in Key} \cup {Block(k) : k \in Key}

Content == {<< >>} \cup [Chunk -> Key \cup {Blank}]

\* Mutant: a chunk too many is reserved.
PaddedLong(f) ==
  [c \in 1..(Chunks + 1) |-> IF c <= Len(f) THEN f[c] ELSE Blank]

\* What truncate and ftruncate leave of a file: all the blocks of a key have
\* the same length, so it only ever grows.
Padded(f) == [c \in Chunk |-> IF c <= Len(f) THEN f[c] ELSE Blank]

Whole(k) == [c \in Chunk |-> k]

\* The fs call, or the network, each transfer waits for next.
Waiting == {"create", "open", "reserve", "ask", "receive", "stream",
            "saveClose", "truncate", "hash", "rename", "destroyClose", "unlink"}

\* fd: the number open() gave. held: it is in the block's this.fd (or in the
\* stream of a raw value). lost: it was open when ftruncate failed, and nobody
\* has it. asked: the chunks with a pending request. sent: the chunks whose
\* write has been called. left: the code's "chunks". timer: the last timer set
\* is running; leaked: an earlier one is. pausing: the close that pause()
\* called has not run. answer: what the STORE request is told.
Job == [at : Waiting \cup {"idle", "hung", "ended"}, key : Key \cup {None},
        path : Path \cup {None}, fd : Fd \cup {None}, held : BOOLEAN,
        lost : BOOLEAN,
        asked : SUBSET Chunk, sent : SUBSET Chunk, left : SUBSET Chunk,
        timer : BOOLEAN, leaked : BOOLEAN, pausing : BOOLEAN,
        answer : BOOLEAN \cup {None}]

TypeOK ==
  /\ dir \in [Path -> Nat \cup {None}]
  /\ \A p \in Path : dir[p] # None => dir[p] \in DOMAIN file
  /\ file \in Seq(Content)
  /\ open \in [Fd -> Nat \cup {None}]
  /\ \A d \in Fd : open[d] # None => open[d] \in DOMAIN file
  /\ job \in [Transfer -> Job]
  /\ crashes \in 0..MaxCrashes
  /\ errors \in 0..MaxErrors
  /\ spoilt \subseteq Key

-----------------------------------------------------------------------------
(* What an fs call does, and where a transfer goes from there.             *)

IsRaw(t)  == job[t].key \in Raw
Busy(t)   == job[t].at \in Waiting
IsOpen(t) == job[t].fd # None /\ open[job[t].fd] # None
Exists(t) == dir[job[t].path] # None

\* A call works if what it is about is there; if it is, the disk may refuse.
Works(there) == there /\ UNCHANGED errors

Fails(there) ==
  IF there THEN errors < MaxErrors /\ errors' = errors + 1
           ELSE UNCHANGED errors

To(t, j) == job' = [job EXCEPT ![t] = j]
At(t, a) == [job[t] EXCEPT !.at = a]

Ended(j, answer) ==
  [j EXCEPT !.at = "ended", !.answer = IF @ = None THEN answer ELSE @]

\* Mutant: destroy() does not close the descriptor.
DestroyNoFree(j) == [j EXCEPT !.at = "unlink"]

\* FilesystemBlock.destroy: the descriptor is closed first, if there is one.
Destroy(j) ==
  [j EXCEPT !.at = IF j.held THEN "destroyClose" ELSE "unlink"]

\* A step of save() failed. Only issuePartialValueRequest destroys the block.
SaveFailed(t) ==
  IF IsRaw(t) THEN Ended(job[t], FALSE) ELSE Destroy(job[t])

\* close() of the number of t: whichever file it stands for by now. There is
\* an error (EBADF) if it stands for none.
Close(t) == open' = [open EXCEPT ![job[t].fd] = None]

\* Writes the chunks cs to the file that the number of t stands for.
Write(t, cs) ==
  file' = [file EXCEPT ![open[job[t].fd]] =
             [c \in Chunk |-> IF c \in cs THEN job[t].key
                              ELSE Padded(@)[c]]]

LowestFree == CHOOSE d \in Fd :
  open[d] = None /\ \A e \in Fd : open[e] = None => d <= e

\* Some transfer may yet write to the file i, through a number that stands for
\* it by now.
StillWritten(i) ==
  \E u \in Transfer :
    /\ job[u].at \in {"reserve", "ask", "receive", "stream"} \/ job[u].sent # {}
    /\ IsOpen(u) /\ open[job[u].fd] = i

Spoilt(k, how) == spoilt' = IF how THEN spoilt \cup {k} ELSE spoilt

-----------------------------------------------------------------------------
(* The start of a transfer.                                                *)

\* A request for a transfer of k arrives; createNewBlock(k) comes first.
Start(t, k) ==
  /\ job[t].at = "idle"
  /\ To(t, [job[t] EXCEPT !.at = "create", !.key = k, !.path = Temp(k)])
  /\ Spoilt(k, \E u \in Transfer : Busy(u) /\ job[u].key = k)
  /\ UNCHANGED <<dir, file, open, crashes, errors>>

\* createExistingFile: a file that is there already will do. Nothing catches an
\* error of initializeSource: the stream of a raw value is then never through.
Create(t) ==
  /\ job[t].at = "create"
  /\ \/ /\ Works(TRUE)
        /\ IF Exists(t)
             THEN UNCHANGED <<dir, file>>
             ELSE /\ file' = Append(file, << >>)
                  /\ dir' = [dir EXCEPT ![job[t].path] = Len(file) + 1]
        /\ To(t, At(t, "open"))
     \/ /\ Fails(TRUE)
        /\ To(t, IF IsRaw(t) THEN At(t, "hung") ELSE Ended(job[t], FALSE))
        /\ UNCHANGED <<dir, file>>
  /\ UNCHANGED <<open, crashes, spoilt>>

\* open(filePath, 'r+') of reserve() or of createWriteStream(). An error ends
\* the transfer: no catch that destroys the block covers it.
Open(t) ==
  /\ job[t].at = "open"
  /\ \/ /\ Works(Exists(t))
        /\ open' = [open EXCEPT ![LowestFree] = dir[job[t].path]]
        /\ To(t, [job[t] EXCEPT !.fd = LowestFree, !.held = IsRaw(t),
                    !.at = IF IsRaw(t) THEN "stream" ELSE "reserve"])
     \/ /\ Fails(Exists(t))
        /\ To(t, Ended(job[t], FALSE))
        /\ UNCHANGED open
  /\ UNCHANGED <<dir, file, crashes, spoilt>>

\* ftruncate(fd, length) of reserve(). this.fd is only set after it, so nobody
\* closes the descriptor of one that fails.
Reserve(t) ==
  /\ job[t].at = "reserve"
  /\ \/ /\ Works(IsOpen(t))
        /\ Write(t, {})
        /\ To(t, [job[t] EXCEPT !.held = TRUE, !.at = "ask"])
     \/ /\ Fails(IsOpen(t))
        /\ To(t, [Ended(job[t], FALSE) EXCEPT !.lost = IsOpen(t)])
        /\ UNCHANGED file
  /\ UNCHANGED <<dir, open, crashes, spoilt>>

\* The PARTIAL_VALUE request has gone out, for all the chunks.
Ask(t) ==
  /\ job[t].at = "ask"
  /\ To(t, [job[t] EXCEPT !.at = "receive", !.asked = Chunk, !.left = Chunk,
                          !.timer = TRUE])
  /\ UNCHANGED <<dir, file, open, crashes, errors, spoilt>>

\* The request could not be sent.
AskFails(t) ==
  /\ job[t].at = "ask"
  /\ To(t, Destroy(job[t]))
  /\ UNCHANGED <<dir, file, open, crashes, errors, spoilt>>

-----------------------------------------------------------------------------
(* The chunks arrive. Those that are lost just do not arrive.              *)

\* clearTimeout(t), then writeToIndex is called.
Arrive(t, c) ==
  /\ job[t].at = "receive"
  /\ c \in job[t].asked
  /\ To(t, [job[t] EXCEPT !.asked = @ \ {c}, !.sent = @ \cup {c},
                          !.timer = FALSE])
  /\ UNCHANGED <<dir, file, open, crashes, errors, spoilt>>

\* The first attempt failed, for want of time or because a write did: after
\* 30 seconds destroy() is all that is called. Before, pause() is, which calls
\* close() but returns nothing to go on with, and that error destroys too.
GaveUp(j) ==
  LET quiet == [j EXCEPT !.asked = {}, !.left = {}, !.timer = FALSE,
                         !.leaked = FALSE]
  IN  {Destroy(quiet), [Destroy(quiet) EXCEPT !.pausing = TRUE]}

\* Mutant: no timer is set when a chunk is in.
WrittenNoTimer(j, c) ==
  IF j.at # "receive" \/ j.left # {c} THEN [j EXCEPT !.left = @ \ {c}]
  ELSE [j EXCEPT !.left = {}, !.at = "saveClose"]

\* The chunk c has been written. makeTimeout() forgets a timer that still runs.
Written(j, c) ==
  CASE j.at # "receive" -> j
    [] j.at = "receive" /\ j.left # {c} ->
         [j EXCEPT !.left = @ \ {c}, !.leaked = @ \/ j.timer, !.timer = TRUE]
    [] OTHER ->
         [j EXCEPT !.left = {}, !.at = "saveClose", !.timer = FALSE,
                   !.leaked = FALSE]

\* A write ends. One that nobody waits for any more is made all the same.
WriteEnds(t, c) ==
  /\ c \in job[t].sent
  /\ LET j == [job[t] EXCEPT !.sent = @ \ {c}]
     IN  \/ /\ Works(IsOpen(t))
            /\ Write(t, {c})
            /\ To(t, Written(j, c))
         \/ /\ Fails(IsOpen(t))
            /\ UNCHANGED file
            /\ IF j.at = "receive"
                 THEN \E abandoned \in GaveUp(j) : To(t, abandoned)
                 ELSE To(t, j)
  /\ UNCHANGED <<dir, open, crashes, spoilt>>

\* A second has passed since the timer was set.
Timeout(t) ==
  /\ job[t].at = "receive"
  /\ job[t].timer \/ job[t].leaked
  /\ \E abandoned \in GaveUp(job[t]) : To(t, abandoned)
  /\ UNCHANGED <<dir, file, open, crashes, errors, spoilt>>

\* A raw value goes through a write stream, in one write. If that fails the
\* request is answered, but the stream still ends and saves the block.
StreamWrite(t) ==
  /\ job[t].at = "stream"
  /\ \/ /\ Works(IsOpen(t))
        /\ Write(t, Chunk)
        /\ To(t, At(t, "truncate"))
     \/ /\ Fails(IsOpen(t))
        /\ To(t, [At(t, "truncate") EXCEPT !.answer = FALSE])
        /\ UNCHANGED file
  /\ UNCHANGED <<dir, open, crashes, spoilt>>

\* The stream closes its file at its end, which save() does not wait for. An
\* error of it is the answer, if there is none yet.
StreamClose(t) ==
  /\ IsRaw(t)
  /\ job[t].held
  /\ job[t].at # "stream"
  /\ Close(t)
  /\ \/ /\ Works(IsOpen(t))
        /\ To(t, [job[t] EXCEPT !.held = FALSE])
     \/ /\ Fails(IsOpen(t))
        /\ To(t, [job[t] EXCEPT !.held = FALSE,
                    !.answer = IF @ = None THEN FALSE ELSE @])
  /\ UNCHANGED <<dir, file, crashes, spoilt>>

-----------------------------------------------------------------------------
(* FilesystemBlock.save(): free, truncate, hash, rename.                   *)

SaveClose(t) ==
  /\ job[t].at = "saveClose"
  /\ Close(t)
  /\ \/ /\ Works(IsOpen(t))
        /\ To(t, [At(t, "truncate") EXCEPT !.held = FALSE])
     \/ /\ Fails(IsOpen(t))
        /\ To(t, SaveFailed(t))
  /\ UNCHANGED <<dir, file, crashes, spoilt>>

Truncate(t) ==
  /\ job[t].at = "truncate"
  /\ \/ /\ Works(Exists(t))
        /\ file' = [file EXCEPT ![dir[job[t].path]] = Padded(@)]
        /\ To(t, At(t, "hash"))
     \/ /\ Fails(Exists(t))
        /\ To(t, SaveFailed(t))
        /\ UNCHANGED file
  /\ UNCHANGED <<dir, open, crashes, spoilt>>

\* Mutant: the hash is not compared with the one intended.
HashUnchecked(t) ==
  /\ job[t].at = "hash"
  /\ \/ /\ Works(Exists(t))
        /\ To(t, [At(t, "rename") EXCEPT !.path = Block(job[t].key)])
        /\ Spoilt(job[t].key, StillWritten(dir[job[t].path]))
     \/ /\ Fails(Exists(t))
        /\ To(t, SaveFailed(t))
        /\ UNCHANGED spoilt
  /\ UNCHANGED <<dir, file, open, crashes>>

\* getMetadata(). this.filePath is the published path from here on: rename()
\* has only been called.
Hash(t) ==
  /\ job[t].at = "hash"
  /\ \/ /\ Works(Exists(t))
        /\ file[dir[job[t].path]] = Whole(job[t].key)
        /\ To(t, [At(t, "rename") EXCEPT !.path = Block(job[t].key)])
        /\ Spoilt(job[t].key, StillWritten(dir[job[t].path]))
     \/ /\ \/ Fails(Exists(t))
           \/ /\ Works(Exists(t))
              /\ file[dir[job[t].path]] # Whole(job[t].key)
        /\ To(t, SaveFailed(t))
        /\ UNCHANGED spoilt
  /\ UNCHANGED <<dir, file, open, crashes>>

Rename(t) ==
  /\ job[t].at = "rename"
  /\ LET from == Temp(job[t].key)
         to   == Block(job[t].key)
     IN  \/ /\ Works(dir[from] # None)
            /\ dir' = [dir EXCEPT ![to] = dir[from], ![from] = None]
            /\ To(t, Ended(job[t], TRUE))
            /\ UNCHANGED spoilt
         \/ /\ Fails(dir[from] # None)
            /\ To(t, SaveFailed(t))
            /\ Spoilt(job[t].key, TRUE)
            /\ UNCHANGED dir
  /\ UNCHANGED <<file, open, crashes>>

-----------------------------------------------------------------------------
(* FilesystemBlock.destroy(): free, unlink.                                *)

\* The close() that pause() called, and that nobody waits for.
PauseClose(t) ==
  /\ job[t].pausing
  /\ Close(t)
  /\ \/ /\ Works(IsOpen(t))
        /\ To(t, [job[t] EXCEPT !.pausing = FALSE, !.held = FALSE])
     \/ /\ Fails(IsOpen(t))
        /\ To(t, [job[t] EXCEPT !.pausing = FALSE])
  /\ UNCHANGED <<dir, file, crashes, spoilt>>

DestroyClose(t) ==
  /\ job[t].at = "destroyClose"
  /\ Close(t)
  /\ \/ /\ Works(IsOpen(t))
        /\ To(t, [At(t, "unlink") EXCEPT !.held = FALSE])
     \/ /\ Fails(IsOpen(t))
        /\ To(t, Ended(job[t], FALSE))
  /\ UNCHANGED <<dir, file, crashes, spoilt>>

\* Mutant: the published file goes too.
UnlinkBoth(t) ==
  /\ job[t].at = "unlink"
  /\ dir' = [dir EXCEPT ![Temp(job[t].key)] = None, ![Block(job[t].key)] = None]
  /\ To(t, Ended(job[t], FALSE))
  /\ UNCHANGED <<file, open, crashes, errors, spoilt>>

Unlink(t) ==
  /\ job[t].at = "unlink"
  /\ To(t, Ended(job[t], FALSE))
  /\ \/ /\ Works(Exists(t))
        /\ dir' = [dir EXCEPT ![job[t].path] = None]
     \/ /\ Fails(Exists(t))
        /\ UNCHANGED dir
  /\ UNCHANGED <<file, open, crashes, spoilt>>

\* The process dies and comes back: what was in files is all that is left.
Crash ==
  /\ crashes < MaxCrashes
  /\ crashes' = crashes + 1
  /\ open' = [d \in Fd |-> None]
  /\ job' = [t \in Transfer |->
       IF job[t].at = "idle" THEN job[t]
       ELSE [Ended(job[t], FALSE) EXCEPT !.asked = {}, !.sent = {}, !.left = {},
               !.timer = FALSE, !.leaked = FALSE, !.pausing = FALSE,
               !.held = FALSE, !.lost = FALSE]]
  /\ UNCHANGED <<dir, file, errors, spoilt>>

-----------------------------------------------------------------------------
Init ==
  /\ dir = [p \in Path |-> None]
  /\ file = << >>
  /\ open = [d \in Fd |-> None]
  /\ job = [t \in Transfer |->
       [at |-> "idle", key |-> None, path |-> None, fd |-> None, held |-> FALSE,
        lost |-> FALSE, asked |-> {}, sent |-> {}, left |-> {}, timer |-> FALSE,
        leaked |-> FALSE, pausing |-> FALSE, answer |-> None]]
  /\ crashes = 0
  /\ errors = 0
  /\ spoilt = {}

Calls(t) ==
  \/ Create(t) \/ Open(t) \/ Reserve(t) \/ Ask(t) \/ AskFails(t)
  \/ Timeout(t) \/ StreamWrite(t) \/ StreamClose(t)
  \/ SaveClose(t) \/ Truncate(t) \/ Hash(t) \/ Rename(t)
  \/ PauseClose(t) \/ DestroyClose(t) \/ Unlink(t)
  \/ \E c \in Chunk : WriteEnds(t, c)

Next ==
  \/ \E t \in Transfer :
       \/ \E k \in Key : Start(t, k)
       \/ Calls(t)
       \/ \E c \in Chunk : Arrive(t, c)
  \/ Crash

Spec == Init /\ [][Next]_vars

\* Calls end and timers fire; no chunk has to come, and nobody has to crash.
Fairness == \A t \in Transfer : WF_vars(Calls(t))

FairSpec == Spec /\ Fairness

-----------------------------------------------------------------------------
(* Properties.                                                             *)

\* A file at a published path has the hash in its name, whatever transfers
\* wrote through a closed descriptor, left behind or published meanwhile
\* (save() hashes the file, then renames what is at its path by then).
PublishedWhole ==
  \A k \in Key : dir[Block(k)] # None => file[dir[Block(k)]] = Whole(k)

\* A STORE that was answered with true has left the block in its place, and
\* no other transfer takes it away (destroy() unlinks this.filePath, which
\* save() sets to the published path before the rename).
AnsweredTrueStays ==
  \A t \in Transfer : job[t].answer = TRUE => dir[Block(job[t].key)] # None

\* Both are so of every block but those of which a transfer began while another
\* was under way, which was hashed while somebody could still write to it, or
\* whose rename failed. No other descriptor closed twice, late write, refused
\* call, half written file or crash spoils a published block (save(), free(),
\* destroy(), createExistingFile()).
SoundUnlessSpoilt ==
  \A k \in Key \ spoilt :
    /\ dir[Block(k)] # None => file[dir[Block(k)]] = Whole(k)
    /\ \A t \in Transfer :
         job[t].key = k /\ job[t].answer = TRUE => dir[Block(k)] # None

\* When no transfer has anything left to do every descriptor is closed, the
\* ones included whose number was closed by a transfer it no longer belonged
\* to (free() is called by pause(), save() and destroy()), but for those whose
\* ftruncate failed in reserve().
DescriptorsClosed ==
  (\A t \in Transfer : ~Busy(t) /\ ~job[t].pausing /\ (IsRaw(t) => ~job[t].held))
    => \A d \in Fd : open[d] # None =>
         \E t \in Transfer : job[t].fd = d /\ job[t].lost

\* A transfer that was begun is answered, whichever chunks are lost and calls
\* refused, unless the file of a raw value could not be created: a timer always
\* runs while issuePartialValueRequest waits for nothing else.
EveryTransferEnds ==
  \A t \in Transfer : Busy(t) ~> job[t].answer # None \/ job[t].at = "hung"

Store == INSTANCE BlockStore WITH
  stored   <- {k \in Key \ spoilt : /\ dir[Block(k)] # None
                                    /\ file[dir[Block(k)]] = Whole(k)},
  doubtful <- spoilt,
  answer   <- [t \in Transfer |-> IF job[t].answer = TRUE THEN job[t].key
                                  ELSE job[t].answer]

\* The files keep what a store of blocks promises to those who asked for the
\* transfers (STORE's true and false).
ImplementsBlockStore == Store!Spec

=============================================================================
