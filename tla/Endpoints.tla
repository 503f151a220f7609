------------------------------ MODULE Endpoints ------------------------------
(***************************************************************************)
(* The server of a peer (SaveEndpoint.js, FetchEndpoint.js, start.js)      *)
(* between the codec and the DHT: what is posted is encoded and its blocks *)
(* are uploaded, the root first, then, all at once, what it links; for a   *)
(* hash the blocks that are not there are downloaded in the same order,    *)
(* and then decoded. Also blocks/example.js: encode, and decode.           *)
(*                                                                         *)
(* The two functions that call themselves for every link are trees of      *)
(* tasks, each named by its path, the places of the links that lead to it. *)
(* A task waits for one thing at a time. Promise.all is fulfilled when all *)
(* of the tasks are, rejected with the first of them that fails, and does  *)
(* not stop the others.                                                    *)
(*                                                                         *)
(* The DHT is abstract: an upload puts the block on some peer, or on none; *)
(* a download gets it if some peer has it, and nothing fails               *)
(* (KademliaDHT). A block is there, whole, or is not; but downloads of it  *)
(* that overlap have one temporary file between them, and can fail for     *)
(* that (BlockFiles).                                                      *)
(***************************************************************************)
EXTENDS Codec

CONSTANTS
  MaxPosted,   \* bound: the length of the data that are posted
  MaxFaults    \* bound: the downloads that fail and the blocks that get lost

ASSUME EndpointsAssumption ==
  /\ {MaxPosted, MaxFaults} \subseteq Nat
  /\ None \notin {"hash", "error", "data", "broken"}

VARIABLES
  posted,   \* whether the data come in a POST, or are those of the example
  stored,   \* the blocks that the peer has which is asked
  inDHT,    \* the blocks that some other peer has
  uploads,  \* uploadWithLinks
  payload,  \* the answer to the POST: the hash, or an error
  fetches,  \* downloadWithLinks
  answer,   \* the answer to the GET: "data", or an error, before or after some
  shared,   \* the tasks whose download has overlapped another of its block
  faults    \* how much has failed

vars == <<data, root, blocks, hash, queue, out, posted, stored, inDHT,
          uploads, payload, fetches, answer, shared, faults>>

Saving   == <<uploads, payload>>
Fetching == <<fetches, answer, shared, queue, out>>
Encoding == <<data, root, blocks, hash>>

Task == [hash : DOMAIN blocks,
         state : {"dht", "links", "waiting", "done", "failed"}]

-----------------------------------------------------------------------------
(* Trees of tasks.                                                         *)

Running(tasks, p) == tasks[p].state \in {"dht", "links"}

Failed(tasks) == \E p \in DOMAIN tasks : tasks[p].state = "failed"

\* The promise of the first task is fulfilled.
Fulfilled(tasks) ==
  /\ tasks # << >>
  /\ \A p \in DOMAIN tasks : tasks[p].state \in {"waiting", "done"}

To(tasks, p, state) == [tasks EXCEPT ![p].state = state]

\* getBlockLinks has given the links of the block: a task for each of them,
\* which begins in the state given.
Branch(tasks, p, state) ==
  LET links    == LinksOf(blocks[tasks[p].hash])
      children == {Append(p, i) : i \in DOMAIN links}
      waiting  == To(tasks, p, "waiting")
  IN  IF links = << >> THEN To(tasks, p, "done")
      ELSE [q \in DOMAIN tasks \cup children |->
              IF q \in children THEN [hash |-> links[Last(q)], state |-> state]
              ELSE waiting[q]]

Root(h, state) == [p \in {<< >>} |-> [hash |-> h, state |-> state]]

-----------------------------------------------------------------------------
(* POST.                                                                   *)

Encode ==
  /\ CutOff
  /\ stored' = DOMAIN blocks'
  /\ UNCHANGED <<posted, inDHT, uploads, payload, fetches, answer, shared,
                 faults>>

\* encode is through, the upload of the root block begins.
Encoded ==
  /\ SaveRoot
  /\ stored' = DOMAIN blocks'
  /\ uploads' = IF posted THEN Root(hash', "dht") ELSE << >>
  /\ UNCHANGED <<posted, inDHT, payload, fetches, answer, shared, faults>>

\* Mutant: nobody waits for the uploads of what is linked.
UploadedRoot(tasks) ==
  /\ uploads' = tasks
  /\ payload' = CASE payload # None                    -> payload
                  [] Failed(tasks)                     -> "error"
                  [] ~Running(tasks, << >>)            -> "hash"
                  [] OTHER                             -> None

\* The tasks are these now; the first error, or the hash, is the answer. (After
\* an error res.end is called once more, which changes nothing any more.)
Uploaded(tasks) ==
  /\ uploads' = tasks
  /\ payload' = CASE payload # None   -> payload
                  [] Failed(tasks)    -> "error"
                  [] Fulfilled(tasks) -> "hash"
                  [] OTHER            -> None

\* upload ends. Whom it has stored the block with is not looked at; if the
\* block cannot be read, it is rejected.
UploadEnds(p) ==
  LET h == uploads[p].hash
  IN  /\ uploads[p].state = "dht"
      /\ Uploaded(To(uploads, p, IF h \in stored THEN "links" ELSE "failed"))
      /\ inDHT' \in IF h \in stored THEN {inDHT, inDHT \cup {h}} ELSE {inDHT}
      /\ UNCHANGED <<Encoding, Fetching, posted, stored, faults>>

UploadLinks(p) ==
  /\ uploads[p].state = "links"
  /\ Uploaded(IF uploads[p].hash \in stored THEN Branch(uploads, p, "dht")
              ELSE To(uploads, p, "failed"))
  /\ UNCHANGED <<Encoding, Fetching, posted, stored, inDHT, faults>>

-----------------------------------------------------------------------------
(* GET.                                                                    *)

\* Mutant: decode begins when the root block is there.
GotRoot(tasks) ==
  /\ fetches' = tasks
  /\ IF answer = None /\ out = None /\ ~Running(tasks, << >>)
       THEN queue' = <<hash>> /\ out' = << >>
       ELSE UNCHANGED <<queue, out>>
  /\ answer' = IF answer = None /\ Failed(tasks) THEN "error" ELSE answer

\* Mutant: nobody hears of what fails further down.
GotUncaught(tasks) ==
  /\ fetches' = tasks
  /\ IF answer = None /\ Fulfilled(tasks)
       THEN queue' = <<hash>> /\ out' = << >>
       ELSE UNCHANGED <<queue, out>>
  /\ answer' = IF answer = None /\ tasks[<< >>].state = "failed" THEN "error"
               ELSE answer

\* The tasks are these now; decode begins, or the first error is the answer.
Got(tasks) ==
  /\ fetches' = tasks
  /\ IF answer = None /\ Fulfilled(tasks)
       THEN queue' = <<hash>> /\ out' = << >>
       ELSE UNCHANGED <<queue, out>>
  /\ answer' = IF answer = None /\ Failed(tasks) THEN "error" ELSE answer

\* Someone who was told the hash asks a peer for it, this one or another,
\* which may have some of the blocks.
Fetch(some) ==
  /\ payload = "hash" /\ fetches = << >>
  /\ stored' = some
  /\ fetches' = Root(hash, "links")
  /\ UNCHANGED <<Encoding, Saving, answer, shared, queue, out, posted, inDHT,
                 faults>>

\* The tasks that download the block of p by now.
Downloading(p) ==
  {q \in DOMAIN fetches :
     fetches[q].state = "dht" /\ fetches[q].hash = fetches[p].hash}

\* getBlockLinks; BlockNotFoundError leads to a download.
FetchLinks(p) ==
  /\ fetches[p].state = "links"
  /\ Got(IF fetches[p].hash \in stored THEN Branch(fetches, p, "links")
         ELSE To(fetches, p, "dht"))
  /\ shared' = IF fetches[p].hash \in stored \/ Downloading(p) = {} THEN shared
               ELSE shared \cup Downloading(p) \cup {p}
  /\ UNCHANGED <<Encoding, Saving, posted, stored, inDHT, faults>>

\* After the download downloadWithLinks begins again with the block.
Downloaded(p) ==
  /\ fetches[p].state = "dht"
  /\ fetches[p].hash \in inDHT
  /\ stored' = stored \cup {fetches[p].hash}
  /\ Got(To(fetches, p, "links"))
  /\ UNCHANGED <<Encoding, Saving, shared, posted, inDHT, faults>>

\* Nobody has the block; or the transfer fails; or another download of the block
\* has renamed the file that both write to, and its destroy() may unlink what
\* the other has published. (The task stays in shared. Its block can only be
\* downloaded once more when something has failed already.)
DownloadFails(p) ==
  LET h == fetches[p].hash
  IN  /\ fetches[p].state = "dht"
      /\ \/ h \notin inDHT /\ UNCHANGED <<faults, stored>>
         \/ faults < MaxFaults /\ faults' = faults + 1 /\ UNCHANGED stored
         \/ /\ p \in shared
            /\ stored' \in {stored, stored \ {h}}
            /\ UNCHANGED faults
      /\ Got(To(fetches, p, "failed"))
      /\ UNCHANGED <<Encoding, Saving, shared, posted, inDHT>>

Decoding == queue # << >> /\ (~posted \/ answer = None)

\* decode, of blocks that are there, for the example and for the GET.
Read ==
  /\ Decoding
  /\ Head(queue) \in stored
  /\ ReadBlock
  /\ answer' = IF posted /\ queue' = << >> THEN "data" ELSE answer
  /\ UNCHANGED <<Saving, fetches, shared, posted, stored, inDHT, faults>>

\* The error is written after what was read.
ReadFails ==
  /\ Decoding
  /\ Head(queue) \notin stored
  /\ answer' = "broken"
  /\ UNCHANGED <<Encoding, Saving, fetches, shared, queue, out, posted, stored,
                 inDHT, faults>>

\* A transfer of the block from elsewhere has failed, and unlinked it
\* (BlockFiles).
LoseBlock(h) ==
  /\ posted /\ hash # None
  /\ h \in stored
  /\ faults < MaxFaults /\ faults' = faults + 1
  /\ stored' = stored \ {h}
  /\ UNCHANGED <<Encoding, Saving, Fetching, posted, inDHT>>

\* blocks/example.js
Example ==
  /\ ~posted
  /\ Decode
  /\ UNCHANGED <<Saving, fetches, answer, shared, posted, stored, inDHT, faults>>

-----------------------------------------------------------------------------

\* Empty data are not posted: their block cannot be offered (Values).
Init ==
  /\ CodecInit
  /\ posted \in BOOLEAN
  /\ posted => Len(data) \in 1 .. MaxPosted
  /\ stored = {} /\ inDHT = {}
  /\ uploads = << >> /\ payload = None
  /\ fetches = << >> /\ answer = None
  /\ shared = {} /\ faults = 0

\* What goes on by itself.
Work ==
  \/ Encode \/ Encoded \/ Example \/ Read \/ ReadFails
  \/ \E p \in DOMAIN uploads : UploadEnds(p) \/ UploadLinks(p)
  \/ \E p \in DOMAIN fetches : FetchLinks(p) \/ Downloaded(p) \/ DownloadFails(p)

Next ==
  \/ Work
  \/ \E some \in SUBSET DOMAIN blocks : Fetch(some)
  \/ \E h \in stored : LoseBlock(h)

\* What is read, sent and asked for comes to an end.
Spec == Init /\ [][Next]_vars /\ WF_vars(Work)

-----------------------------------------------------------------------------
(* Properties.                                                             *)

TypeOK ==
  /\ CodecTypeOK
  /\ stored \subseteq DOMAIN blocks /\ inDHT \subseteq DOMAIN blocks
  /\ \A tasks \in {uploads, fetches} : \A p \in DOMAIN tasks :
       /\ p \in Seq(1 .. MAX_NUM_LINKS)
       /\ tasks[p] \in Task
  /\ payload \in {None, "hash", "error"}
  /\ answer \in {None, "data", "error", "broken"}
  /\ posted \in BOOLEAN /\ faults \in 0 .. MaxFaults
  /\ shared \subseteq DOMAIN fetches

\* The blocks that the hash stands for.
Needed[h \in DOMAIN blocks] ==
  {h} \cup UNION {Needed[k] : k \in Range(LinksOf(blocks[h]))}

\* The hash is only told when each block of the file has been offered to the
\* peers: none of the uploads, which begin one after the other wherever they
\* are in the tree, is still to come or on its way (uploadWithLinks).
ToldAfterUploads ==
  payload = "hash" =>
    \A h \in Needed[hash] : \E p \in DOMAIN uploads :
      uploads[p].hash = h /\ uploads[p].state \in {"waiting", "done"}

\* Nothing has failed, and no two downloads of a block have overlapped.
Undisturbed == faults = 0 /\ shared = {}

\* What is answered to a GET is the file as it was posted, whatever failed and
\* was unlinked, and is not broken off because downloads of one block get in
\* each other's way. Undisturbed, the file can be had from any peer if each of
\* its blocks is in the DHT, in whatever order they come (downloadWithLinks,
\* then decode).
FetchedIsPosted ==
  /\ answer = "data" => out = data
  /\ faults = 0 => answer # "broken"
  /\ Undisturbed /\ hash # None /\ Needed[hash] \subseteq inDHT =>
       answer # "error"

\* Both requests are answered in the end, and what the example encodes is
\* decoded again.
EveryRequestAnswered ==
  /\ <>(IF posted THEN payload # None ELSE ReadAll)
  /\ (fetches # << >>) ~> (answer # None)

=============================================================================
