# A TLA+ verification of learn2p2p

learn2p2p is a file sharing network written in JavaScript. A file is cut into
content-addressed blocks, the blocks are stored at the peers whose ids are near
their hashes, and the peers find each other with a Kademlia DHT over UDP. This
directory holds TLA+ models of its parts, the TLC configurations that check them
on small instances, and proofs for TLAPS.

Paths below are relative to the repository's `src/`; `kademlia/` is
`src/dht/implementations/kademlia/`.

## Inventory

| Component | State | Operations | Hard behaviour | What makes it correct |
|---|---|---|---|---|
| Routing table (`kademlia/components/RoutingTable*.js`) | a list of live contacts per bucket, and behind it a cache: a list of ids and a map | addCandidate, removeNode, getNode, getClosestNodes, getLeastRecentNodes | long sequences of calls; two structures that must agree; the walk over the buckets | lists and maps agree; nobody twice; the right one is forgotten, promoted, returned |
| RPC (`kademlia/components/RPC.js`, `MessageProtocol.js`, `Node.js`) | routing table, pendingRequests, numRequests | receiveMessage, sendMessageAndWait and its timers, one handler per type | messages lost, repeated, reordered; timers racing answers; messages held while a key is asked for; NATs; restarts | each request is settled once, by the right peer, and in the end; contacts can be reached |
| Lookups (`kademlia/KademliaDHT.js`) | per call: who has answered, who was named, who has the value, whom a STORE was counted for | bootstrap, refreshBuckets, findClosestNodes, upload, download | rounds of several calls at once over one table that changes meanwhile; answers, pings and timers in any order | nobody named is missed; counts and errors are true; every call ends |
| Transfer in chunks (`RPC.js` 270-366, `kv-store/`) | nested attempts, timers, chunks missing | issuePartialValueRequest, handlePartialValueRequest | timeouts and retries, late chunks, saving on the way out of the nesting | what is called stored is whole; attempts end |
| Blocks in files (`blocks/components/storage/implementations/filesystem/`) | files, paths, descriptors | createNewBlock, reserve, writeToIndex, free, save, destroy | every fs call is a step of its own; transfers of one block share a file; descriptor numbers are reused | a published file has the hash of its name, and stays; nothing leaks |
| Codec (`blocks/components/codec/`) | the root block, a queue of hashes | createBlocks, decode | lengths at the boundary of a block, links cut in two, order of reading | decode after encode is the identity |
| Values and key-value stores (`dht/components/kv-store/`) | a map in memory, or blocks; what remains of a read in the stream that cuts chunks | data streams, createPartialValue, getValue, forEachPartialValueChunk | reads that end anywhere; errors in wrapped streams | the length told is the length; chunks put together are the value |
| Peer server (`peer/server/`) | an HTTP server on a local socket; a tree of promises per request | save, fetch | uploads and downloads of all blocks of a file at once, some failing | what is fetched is what was posted; every request is answered, with the hash not before all is offered |
| Peer client (`peer/client/`) | none | one HTTP request | none | |

How they interact: the client streams a file to the peer server, whose save
endpoint has the codec make blocks in the storage, and uploads each block:
`KademliaDHT.upload` looks up the contacts near the hash (FIND_NODE requests)
and sends each a STORE. A value of more than 1024 characters is not in the
STORE: the receiver asks for it with PARTIAL_VALUE, and gets a message per chunk,
which it writes into a block or into memory. To fetch, `download` looks the hash
up with FIND_VALUE and gets the value the same way. All of a peer runs on one
event loop: interleaving happens between promises that wait for the network, for
timers, or for calls into the filesystem.

## Modules

| Module | What it models |
|---|---|
| `RoutingTableBucket` | One bucket and its cache, as operators on a record: `Save`, `FillFromCache` (the loop `FillLoop` in one go), `RemoveContact`, `CachePush`, `CachePull`, `Fetch`. |
| `RoutingTableOps` | The table as a function to buckets: the index of an id's bucket, `TableWith` (addCandidate), `TableWithout` (removeNode), `GetNode`, `GetClosestNodes`. |
| `RoutingTable` | The state machine: any calls of addCandidate and removeNode, with the history `heard` of who was heard when. |
| `PeerSets` | Abstract: per group of peers a set of live ones and a set of spare ones, each of limited size. `RoutingTable` implements it. |
| `KademliaDHT` | One peer's calls of bootstrap, refreshBuckets, upload and download, with the rounds of findClosestNodes, over `RoutingTableOps`; the other peers answer, or do not. |
| `RPC` | Peers over a network. One action per message handler, timer, and request a peer makes of its own accord; extends `RoutingTableOps`. |
| `PartialTransfer` | issuePartialValueRequest with the memory store, and the peer that serves it. |
| `BlockFiles` | Transfers into the filesystem, one action per fs call, with inodes, paths and descriptor numbers. |
| `BlockStore` | Abstract: a set of blocks that loses none but those that have come into doubt, and the answers given. `BlockFiles` implements it. |
| `Values` | Operators: the reads of a stream, the value offered for them, and the chunks cut from them. |
| `Codec` | createBlocks, round by round, and decode, block by block. |
| `Endpoints` | `Codec` with the save and fetch endpoints of the peer server over an abstract DHT, and the example of the blocks. |
| `MCRoutingTable`, `MCRPC`, `MCBlockFiles`, `MCPartialTransfer`, `MCKademliaDHT` | Values of constants for TLC; `MCPartialTransfer` also puts `Values` beside `PartialTransfer`, and the stream chunk by chunk (`Walked`) beside what it sends in the end (`Sent`). |
| `RoutingTableOpsProofs` | Lemmas about the operators of buckets and tables, for all the proofs that use them. |
| `FlattenProofs` | Lemmas about what texts are put together from: induction over a set of numbers, `FlattenSeq` by its cases, parts of parts of a sequence. |
| `RoutingTableProofs`, `RPCProofs`, `KademliaDHTProofs`, `BlockFilesProofs`, `PartialTransferProofs`, `EndpointsProofs` | The theorems about the modules of those names; those about `Values` are in `PartialTransferProofs`, those about `Codec` in `EndpointsProofs`. |

Correspondence with the code:

* **Ids** are sets of positions of one-bits, so that XOR is the symmetric
  difference. A **Node** is an id and an address: the address tells an old
  object of a contact from a newer one. `None`, `NoNode` stand for null and
  undefined.
* **RPC**: between the arrival of a message and its last send the code waits
  only for signatures and ciphers, so a handler is one step, written as a
  function on the local state of a peer (`Local`, `Commit`). The one wait for the
  network, for the key of an unknown sender, is a request with the purpose
  "key" that holds the message; the rest of receiveMessage is done when its
  answer comes. `sendMessageAndWait` files the request when the send callback
  runs; the answer is a later event of the loop, so sending and filing are one
  step. Messages are a bag; they are read only by the peer whose key they are
  encrypted with (`Arrives`), and a peer behind a NAT hears only from addresses
  it has sent to. Random request ids are never repeated: each has its peer's
  name and a number, and `count` survives a restart.
* **BlockFiles**: what follows a fs call in the code up to the next call belongs
  to the step of the first. `dir` maps paths to inodes, `open` descriptor numbers
  to inodes; a number is taken again when it is free, as in POSIX. The two timers
  that the code can have running are `timer` (the variable t) and `leaked`
  (overwritten while it ran). A transfer of a raw value goes through a write
  stream instead. Reading a file to hash it is one step. Blocks of a key have
  one length. Any call may fail: because what it is about is not there, or
  because the disk refuses (`Works`, `Fails`; `MaxErrors` bounds the latter). What
  fails does nothing: a write or a truncation that is done in part, and a
  failed writeFile that has created the file, are left out. `held` is this.fd; `lost`
  marks the descriptor of a transfer whose ftruncate failed, which nobody has
  (FilesystemBlock.js:80-88); the state "hung" is a write stream whose source
  could not be created (WrappedWriteStream.js:37-40). `spoilt` is history: the
  keys of which a transfer began while another was under way (`Start`), whose file
  was hashed while somebody could still write to it (`Hash`), or whose rename failed
  (`Rename`).
* **PartialTransfer**: with the memory store nothing waits but for messages and
  timers. `attempts` is the nesting of calls: on success each saves its value,
  the innermost first, so the outermost's remains (`Saved`). The stream sends a
  chunk that goes by if it is the next of the sorted ones; `Sent` says which those
  are in the end, and `WalkAssumption` that it is what the stream does, which TLC
  evaluates for every set of chunks asked for.
* **KademliaDHT**: between an answer and the next request a call waits for
  nothing, so an answer, the filing of its sender and how the call goes on are
  one step. A call is a record: `phase` says which Promise.all it is in,
  `waiting` which of its promises are not settled. `Round` is one call of
  findClosestNodes, `Asked` and `Met` are the `then`s after it. `Request` is what
  a STORE is known by; the other peer keeps the value (`Keep`) at a time of its
  own, also when the uploader's timer has rung. `Hear` and `Forget` are what
  receiveMessage does to the table meanwhile. A request to a peer that is not
  there fails; one to a peer that is there may (`Fault`).
* **Endpoints**: uploadWithLinks and downloadWithLinks call themselves for each
  link; each call is a task, named by its path in the tree. Promise.all is
  fulfilled with its last task, or rejected with the first that fails while the
  others go on: `Uploaded` and `Got` look at all tasks after each step. The one
  who fetches may have any of the blocks, which stands for any peer. A block is
  there, whole, or is not: how it gets there is in `BlockFiles`. But two downloads of one
  block that overlap (`shared`) have one temporary file between them, so that
  one can fail, and its destroy() unlink what the other has published, although
  nothing was lost (the last case of `DownloadFails`). A download that goes on with another
  holder after that, within itself, is not a step of its own. That
  res.end is called once more after an error changes no answer and is left out.
* **Values**: a text is the sequence of its places, so that a chunk shows where
  it was cut.
* **Codec**: characters are pairs, so that data and links, whole or cut, can be
  told apart; the hash of a text is its number in `blocks`.

Operators with a comment that begins with "Mutant" are plausible bugs: each
property of a passing run has one that breaks it (PROJECT.json).

## Runs

Every run is `tlc -config <cfg> <module>`. CHECK_DEADLOCK is FALSE in all but the
routing table's: requests, calls, transfers and data are finite there, and when all
is done nothing is left to do.

| Run (cfg) | Bounds | Shows |
|---|---|---|
| `RoutingTable_onebucket` | k = 2, the owner and five contacts, all in one bucket | `TableInv` (lists and maps agree), `CacheByRecency`, `FreshestPromoted`, `OnlyTheStalestForgotten`, `ImplementsPeerSets` |
| `RoutingTable_buckets` | k = 1, three buckets, four contacts with two addresses each | `FreshestObject`, `ClosestNodesEnough`, `NearestBucketsFirst` |
| `RPC_peers` | three peers, two behind NATs and in one bucket with one place, up to two requests of their own accord by each of two, no loss, one restart | until the restart `NothingFails` and `ContactsReachable`; `SettledOnce`, `RemovedHadLeft` |
| `RPC_restart` | three peers, two restarts, one message lost or repeated, timers at any time, fairness | `AnsweredByAsked`, `EveryRequestSettles` |
| `KademliaDHT` | three contacts in two buckets, k = 2, two asked at a time; a bootstrap, a refresh of all buckets, an upload and a download at once; one failure or departure, fairness | `NobodyMissed`, `SuccessIsStored`, `NotFoundIsTrue`, `EveryCallEnds` |
| `BlockFiles` | two transfers at once, of one block or of two, one of them raw, two chunks, two calls refused, one crash, fairness | `SoundUnlessSpoilt`, `DescriptorsClosed`, `ImplementsBlockStore`, `EveryTransferEnds` |
| `BlockFiles_lost` | two transfers of one block at once, nothing refused | **violation** of `AnsweredTrueStays` |
| `BlockFiles_published` | three transfers of one block at once, nothing refused | **violation** of `PublishedWhole` |
| `PartialTransfer_both` | two transfers, chunks 1, 2 and 10; values up to 16 places, reads of 5, chunks of 2 | `AllChunksCame`, `WholeUnlessRetried`, `AttemptsBounded` (one less is violated), `ChunksInPlace` |
| `PartialTransfer_stored` | one transfer, three chunks | **violation** of `StoredWhole` |
| `PartialTransfer_length` | as `PartialTransfer_both`, one transfer | **violation** of `LengthTold` |
| `Endpoints` | data up to 40 characters, blocks of 6, two links of three; those up to 13 posted and fetched, with two failures of downloads, or losses of blocks; fairness | `NothingLost`, `ReadInOrder`, `ToldAfterUploads`, `FetchedIsPosted`, `EveryRequestAnswered` |

Of the types, `TypeOK` of `RoutingTable`, `RPC`, `KademliaDHT`, `BlockFiles`,
`PartialTransfer` and `Endpoints` is checked in one run each.

Why these bounds are enough for the cases that matter: with two places and five
contacts a list overflows, its cache overflows, and contacts come back to either.
Three buckets make the walk of getClosestNodes run off both ends, and two addresses
make an older object of a contact differ from a newer one. Three peers are the least
for a forwarded ping, for eviction from a bucket of one place, and for a peer at
another's former address. Two transfers are the least for a file that two write, and
for a descriptor closed by one, taken by the other and then closed again by the
first; three, for a file that is removed and created anew between hash and rename,
are in `BlockFiles_published`, and any number in the proofs. Two chunks are the
least for two writes in flight and a forgotten timer; two refused calls for one that
fails while what another left is there. Two links, in blocks that links fill to the
last character, give trees several levels deep, roots that fit exactly, and rounds
where links are themselves cut off with a chunk. The chunks 1, 2 and 10 are at the
places 1024, 2048 and 10240, which sort as strings in another order. Reads of 5 and
chunks of 2 leave a remainder at every place of a chunk, and values of 16 have four
reads. In the lookups the seed knows one contact, and that one the third, which has
the value from the start and calls by itself: so a lookup has to go on over rounds,
the table learns of contacts from elsewhere, and a round is answered by someone with
the value and someone without. (No bucket overflows there: full buckets are in the
table's runs, in `RPC_peers`, and in the theorems about lookups.) One failure is any
one lost answer, one timer, one failed transfer or one peer that leaves. Thirteen
characters posted make trees of two levels, in which a block may be linked twice,
and downloaded twice at once; two failures are the least for two tasks that fail.

**Fairness.** RPC: weak fairness of timers, which is what setTimeout gives;
nothing is assumed of messages. BlockFiles: weak fairness of the calls of each
transfer and its timers; no chunk has to arrive. KademliaDHT: weak fairness of
`Work`, all that calls wait for, each of which has a timer or is a transfer that
ends; `EveryCallEnds` also supposes that contacts that do not answer are not
heard of their own accord for ever, since each message files them again and a
lookup asks them again. Endpoints: weak fairness of what has begun.

`Timely` in RPC says that timers ring only when no message is on its way; it is
set where the properties are about what happens when nothing goes wrong, and
about who is removed for not answering (`RPC_peers`).

The properties of `BlockFiles` that pass suppose nothing of how transfers run, of
the same block or of others, and of which calls fail. `SoundUnlessSpoilt` and the
refinement say what is left of "published blocks are whole and stay": it holds of
every block but those of which one of three things has happened, which the
history `spoilt` names, and which the code does nothing to prevent. Two of them
alone break it: transfers that overlap (`BlockFiles_lost`, `BlockFiles_published`), and
a rename that the disk refuses, whose destroy() unlinks a block that was there
before. The third is needed for raw values, whose
stream is closed after the file has been hashed: a write of an abandoned transfer
that is still in flight, to the number of a descriptor closed since, can land in
that file after the hash.

## What disagrees with the repository

1. `AnsweredTrueStays`: with two transfers of one block, the loser of the rename
   unlinks the block the winner has published and answered for.
2. `PublishedWhole`: of three transfers of one block, one hashes the file, another
   removes it, the third creates it anew, and the first publishes that one, which
   is empty, and answers true.
3. `StoredWhole`: in memory, a transfer that was retried succeeds with parts of
   the value missing.
4. `LengthTold`: the length of a value is told as that of the last read, so the
   blocks of larger files do not arrive.

Seen in `BlockFiles` on the way: after a timeout there is no retry for blocks,
because pause() returns nothing to go on with (`GaveUp`); and pause() and
destroy() then both close the descriptor, so that the second close fails and the
temporary file stays (`DestroyClose`). A failing ftruncate leaks the descriptor
(`Reserve`), and an error while the source of a write stream is created leaves the
stream, and the request it is for, without an end (`Create`). Both are what
`DescriptorsClosed` and `EveryTransferEnds` except. And in `Endpoints`: a GET of a file
in which one block is linked twice can fail though nothing was lost
(`DownloadFails`).

Seen while modelling, without a run: `Block.js` says "a maximum of 160 bytes" of a
SIZE of 262144. `getBucketIndex` counts all zero bits of the distance and not the
leading ones, so that the contacts a lookup takes first need not be the nearest,
as in Kademlia. An empty value makes `Value.js:33` throw in a callback where
nobody catches it. `FetchEndpoint.js:37` assigns the value of `500 && res.end(...)`
to statusCode, after an answer with 200 was sent. `start.js:51` keeps the
endpoint of the request before for methods that have none. The hourly refresh
of buckets is set once and not again, republishing is a todo.

## Proofs

The theorems are for every value of the constants that satisfies the ASSUME of
the modules; a hypothesis beyond that is stated in the theorem and named here.

### The routing table

`RoutingTableProofs` proves, for any set of ids, any owner, any number of
buckets and places:

* `TypeCorrect`: `Spec => []TypeOK`;
* `TableCorrect`: `Spec => []TableInv`;
* `EnoughCorrect`: `Spec => []ClosestNodesEnough`;
* `NearestCorrect`: `Spec => []NearestBucketsFirst`.

Assumed are `BucketAssumption`, `TableAssumption` and `RootAssumption`: there is at
least one place and one bucket, `undefined` is neither a node nor an address,
ids are sets of bit positions below IdBits, and the owner has an id.

The inductive invariant is `IndInv`: `TypeOK`, `TableInv`, and that the history
names nobody twice (without which removing a contact's entry from the history
would not remove the contact). `TableInv` itself had to have more than one wants
in the end: that the cache is empty unless the list is full
(`CacheOnlyBehindFullList`) and that nobody is in both (`LiveXorCached`); without
them the contact that fillFromCache promotes could be in the list already.

What the calls do is in `RoutingTableOpsProofs`, and holds of any table, so the
peers of `RPC` and `KademliaDHT` have it too (`TableOK`, kept by `TableWithOK` and
`TableWithoutOK`). Both calls touch one bucket (`OneBucketChanges`). `SaveFacts`,
`CachePushFacts` and `RemoveContactFacts` say of the bucket operators what they
keep and whom they know, from facts about sequences (`RemoveAtFacts`,
`InFrontFacts`, `WithoutFacts`). `BucketInRange` shows that the index is one, also
for an id that differs from the owner's in no bit or in all.

`FillIsLoop` ties `FillFromCache` to the code's loop: `FillLoop` takes the turns of
the loop one by one (pull, and save what came out), and is equal to `FillFromCache`
in every bucket out of which a contact may have been taken (`Fillable`: all that
`BucketOK` says but that the cache is empty unless the list is full). `MovedOne`
says what a turn does: save finds room, finds no older object, and moves one more
contact from the cache to the front of the list.

The walk of getClosestNodes is a recursive function over the turns it takes.
`Rank` is the turn in which the walk is at a bucket. `WalkOK` is an invariant of
the walk: until it has enough it is after t turns at the bucket of rank t, has
visited all those of a lower rank, and has collected everybody in them, once.
`WalkStarts`, `WalkGoesOn` and `SetInduction` (induction over a set of numbers,
from a least element) give `ClosestFacts`, from which both theorems follow.

Of when contacts were heard it proves, under the same assumptions:

* `FreshestCorrect`: `Spec => []FreshestObject`;
* `RecencyCorrect`: `Spec => []CacheByRecency`.

The inductive invariant is `AgeInv`: `IndInv`, every object a bucket has is one of
the history (`InHistory`; the history has one of each contact, the latest), and of
two ids in a cache the history has the first one before the second (`Sorted`, put
as an order so that nothing is said of the places themselves, which all move when
someone is heard). `SaveObjects` and `RemoveObjects` say which objects the two
calls leave in a bucket, `PushOrder` and `RemoveShape` in which order they leave
its cache, `HeardFacts` what hearing a contact does to the history.

And the refinement and the action properties, also for any constants:

* `SetsImplemented`: `Spec => ImplementsPeerSets`;
* `ForgottenCorrect`: `Spec => OnlyTheStalestForgotten`;
* `PromotedCorrect`: `Spec => FreshestPromoted`.

The refinement needs of the history nothing and of the table `IndInv`. What
PeerSets sees of a bucket is whom the list holds, whom the cache holds and what
`Fetch` finds (`FetchObject`, `FetchWho`): `LiveFacts`, `KnownFacts`, `LiveCount` and
`SpareFacts` say so of the table, `SaveWithRoom`, `SaveWithoutRoom`, `RemoveOther`
and `RemoveLive` what the calls do to the three. Then addCandidate is `HearLive`
or `HearSpare`, or nothing for the owner's own id, and removeNode is `Fail`, or
nothing of a contact that is not live. The action properties come from `AgeInv`: by
`CacheEnds` the id at the end of a cache is the one heard longest ago of those in
it and the one at its front the one heard last; the two calls take no other.

### Requests and messages

`RPCProofs` proves, for any peers, NATs, tables and requests, and whatever the
network loses, repeats or reorders:

* `TypeCorrect`: `Spec => []TypeOK`;
* `SettledOnceCorrect`: `Spec => []SettledOnce`;
* `AnsweredCorrect`: `Spec => []AnsweredByAsked`;
* `ReachableCorrect`: `Spec => []ContactsReachable`;
* `NothingFailsCorrect`: `Spec => []NothingFails`, if `Timely` and `MaxLost = 0`;
* `RemovedCorrect`: `Spec => RemovedHadLeft`, if `Timely`, `MaxLost = 0` and
  `MaxRestarts <= 1`.

Assumed is `RPCAssumption` beside the table's: peers have addresses of their own
at first, and the seed is not behind a NAT.

A handler is a function on the local state of a peer, and so is each piece it is
made of. `LocalOK` is what every piece preserves (`SendOK`, `AwaitOK`, `SettleOK`,
`AdmitOK` ...); `CommitOK` says once and for all that what a handler made keeps the
invariant, `Inv`, when it takes effect. The argument is about ids. An id with a
number of the peer's own is fresh, as no request or message has a number the
peer has not given out (`PendingOK`, `CountOK`, `MessageOK`). An id made for the
ping of a peer that an answer named (`ForwardedId`) is not counted: it is fresh
because the lookup it is made from is settled once, its answer names everyone
once, and the name is used up when the ping is sent (`ToPingOK`). So
`SettledOnce` cannot be proved of one kind of request without the others.
`AnsweredByAsked` needs in addition that whatever bears the id of a lookup went
to, or comes from, the contact asked (`AskedOne`); `ContactsReachable` that every
object in a table, its cache included, or in a request for a key, is of a contact
whose NAT this peer is through (`ReachOK`), and that a message comes from where
its sender is and its sender is open to its receiver (`SentOK`).

`NothingFails` is that, until a peer restarts, no timer rings for a request. With
`Timely` timers ring only when the network is empty, so it is to be shown that
nothing waits then. `QuietInv` says that every request is `Covered`: what it asks is
on its way to a peer that will take it (`Asking`), or its answer is (`Replied`), or,
for a ping to a peer behind a NAT, the message that has that peer expect it
(`Punching`): the ping itself may have been dropped at the NAT. On the way is also a
message that waits for the key of its sender, so it has to be said that the request
for the key is itself covered, by a message that nobody holds for a key; and that
only the sender of the message held can answer it (`KeyAsked`). Whoever a lookup
names can be met (`Met`): there is no NAT in the way, or the announcement is on its
way. `QuietLocal` and `KeysKept` are what the pieces of handlers keep of this,
`Effect` what any step amounts to, and `QuietStep` that it keeps `QuietInv`. Without
`Timely` a timer may ring at any time, and a request whose message is lost has
nothing else to end it.

`RemovedHadLeft` is about what goes on after a restart, when much of `QuietInv` is
gone: messages are on their way to where nobody is, a key may come from somebody
else, held messages are dropped. `LeftInv` keeps the argument for those requests
alone that are `Due`: their contact is where it was asked, and, unless they are for
a key, their own peer has not moved. For each of them the question is on its way,
or the answer (`AskedThere`, `AnsweredBack`). That this is inductive needs three
more things. A contact has been filed, and a message was sent, where its peer was
first or is now, and if it is there now, its NAT is open (`Known`, `Posted`). A
message is only dropped unanswered when its sender has left, since otherwise the
answer to the request for its key came from the sender (`KeyPut`, `KeysLeft`).
And what is held by a request that is not due is `Stale`, so no due request
depends on it. `Step` is what any handler's step amounts to, `StepLeft` that it
keeps `LeftInv`, and `RestartLeft` that the restart does: it only ends what was
due. When a timer rings the network is empty, and then nothing is due
(`NothingDue`): the requests for keys first, whose messages are never held, then
the others, whose messages could only be held by those. The restarts are at most
one because after two a peer can be back at its first address, where the property
cannot tell that it has moved: it would have to speak of a history of addresses.

### Lookups and the DHT

`KademliaDHTProofs` proves, for any ids, any table, any number of calls and any
failures:

* `SuccessCorrect`: `Spec => []SuccessIsStored`;
* `TypeCorrect`: `Spec => []TypeOK`;
* `NotFoundCorrect`: `Spec => []NotFoundIsTrue`;
* `NobodyMissedCorrect`: `Spec => []NobodyMissed`, if `Mute = {}`.

For the first the inductive invariant is `CountInv`, which needs nothing of
`DHTAssumption`, nor of the table. Of every call (`Counting`): before its
STOREs nobody is counted; while it stores, those waited for and those counted
are, each once, the contacts the lookup returned. Of every STORE that was kept
(`KeptInv`): the peer has the value. How a call goes on is in a lemma per operator
(`RoundCounting`, `MetCounting`, `AskedCounting`, `StoredCounting`), and what an
action does to all the calls in one per kind of call.

For the others it is `LookInv`: the types, with the table's `TableOK`, and, as long
as nothing failed, that all peers are there and how far each lookup has come
(`LookOK`). Of those whom a contact that answered has named, each is in the table,
or there was no room for it, or it is among those the lookup has yet to meet
(`Going`); this is an invariant although calls share the table, because what one
files stays filed while nobody is removed (`FamiliarGrows`, `Learns`). And a
download that has had no value has had no answer from anyone who had it from
the beginning.

`NobodyMissed` needs the hypothesis that all peers answer lookups. `Mute` are
peers that answer pings only: one is removed when it is asked, which nobody calls a
failure, also long after a lookup has ended, and may leave room where there
was none for someone the lookup was told of.

### Blocks in the filesystem

`BlockFilesProofs` proves, for any transfers, of the same block or of others, any
keys, raw or not, any chunks, refused calls and crashes:

* `FilesTyped`: `Spec => []TypeOK`;
* `AllClosed`: `Spec => []DescriptorsClosed`;
* `UnspoiltSound`: `Spec => []SoundUnlessSpoilt`;
* `FilesImplementBlockStore`: `Spec => ImplementsBlockStore`.

The invariant of the first two, `IInv`, is about every transfer: what each knows of
its descriptor at each call (`JobOK`), and that whoever's descriptor number is open
has a transfer of that number that has yet to close it, or has lost it
(`ClosedInTime`). It is said of numbers and not of files since a number that is
closed twice is taken by another transfer in between. For the types, a transfer
that opens a file must find a number free: there are as many as transfers, and
each open one has a transfer of its own (`SomeFree`).

`SafeInv` is about the keys that are not spoilt, whatever becomes of the others. A
file has one path (`Apart`), and such a key one transfer (`OnePerKey`). That
transfer works on the temporary file, also when it destroys it, and the file is
there and whole between hash and rename (`SafeJob`). And nobody who may yet write
has a number that stands for a file which is published or about to be (`Unwritten`,
`Kept`): those who write to the temporary file of the key are its one transfer,
which has closed it or was seen at the hash to be alone, and a number taken again is
that of a file not yet kept (`TempNotKept`). Transfers of spoilt keys keep out of it
because their files have other paths. `SafeStep` and `SafePaths` say what a step
that leaves the paths, or the files, as they are has to show, and `Refusing` what a
step that stores nothing is to BlockStore.

### Transfers in chunks

`PartialTransferProofs` proves, for any set of transfers, any value and any order
of the sort (`TransferAssumption`):

* `TypeCorrect`: `Spec => []TypeOK`;
* `AllCame`: `Spec => []AllChunksCame`;
* `Bounded`: `Spec => []AttemptsBounded`;
* `Whole`: `Spec => []WholeUnlessRetried`;
* `InPlace`: `Spec => []ChunksInPlace`, for any sizes of reads and chunks and any
  length of the value (`ValuesAssumption`).

The first four speak of all the attempts of a transfer, nested in each other. The
inductive invariants speak of the innermost alone: whatever it does not miss any
more has come to it or to one around it (`Progress`); what it was asked for is
smaller by at least the attempts made since the second (`Shrinks`); the first
attempt, if it is the only one, holds what it does not miss (`FirstHolds`).
`BeginFacts` and `ReceiveFacts` say what the steps do to it.

The last is about `Chunks`, a recursive function over the reads of a stream. That
it is defined as it is written is shown by induction (`StreamingExists`). After each
read the chunks sent are those of the text so far, cut at the multiples of their
size, and what remains is the rest of it, shorter than a chunk (`FirstIs`, from
`ReadsAre` for where a read ends and `WriteKeeps` for one more; `CutIs` and
`Division` are the arithmetic). So the chunks do not depend on where reads end
(`ChunksAreAll`, `EachInPlace`).

### Codec and endpoints

`EndpointsProofs` proves, for any size of blocks, number of links and length of
hashes that createBlocks accepts, any length of the data, any order of uploads and
downloads and any number of failures:

* `EndpointsTyped`: `Spec => []TypeOK`;
* `DataKept`: `Spec => []NothingLost`;
* `DataInOrder`: `Spec => []ReadInOrder`;
* `ToldLate`: `Spec => []ToldAfterUploads`;
* `FetchedRight`: `Spec => []FetchedIsPosted`.

Assumed are `CodecAssumption` (the links of a block fit into it, and one is shorter than
a block, without which createBlocks would not end) and `EndpointsAssumption`; both
say of `None` that it is no hash, no text and no answer.

The inductive invariant is `IInv`, in five parts.

`CodecInv` is about texts. Every text is some data and then whole links
(`Written`), and `TextIs` says what the newlines in it show of the two. A block
links only to blocks saved before it (`LinkedBefore`), so that `Reading`, which
calls itself for each link, is defined (`ReadingExists`, `ReadingIs`: strong
induction over the number of the block), and stays the same when more is saved
(`ReadingKept`). Of the links of a text only the last may lead to a block that has
links itself (`OnlyLast`). This is why decode, which goes through the tree level by
level with a queue, gives the data in their order, which it would not in trees of
another shape; and it holds because the chunks are cut off from the end, where
the links are (`CutsAre`, `ChunksAre`). What is cut is then read
back to the data: `CutOffKeeps` for a round, also one that cuts off all the data of
the root or whole links alone; `ReadBlockKeeps` for a block that goes by: what is
out, and what the queue stands for, are together the data.

`UploadsInv` and `FetchesInv` are about the trees of tasks (`TreeInv`): each task
but the first is that of a link of a task that waits, and has the hash the link
says; one that waits has a task for each link, and one that is done has no links; so
what is fulfilled has a task for every block that the hash stands for, and all of
them are through (`TaskGoesOn`, `TaskBranches`). `ValuesInv` is what is typed, and
`AnswerInv` what the answers mean for the blocks the peer has. A task only fails in
an undisturbed run if its block is not in the DHT; and as long as nothing was lost
the blocks of what is through are there, unless a task has failed, also when
downloads of one block disturb each other (`FetchesInv`): so decode, which begins
when none has, is never broken off. `FetchedIsPosted` speaks of `Needed`, the blocks
a hash stands for, which is shown to be defined as `Reading` is, and whose blocks
are those of the tasks.

### Only model-checked

* Liveness: `EveryRequestSettles`, `EveryTransferEnds`, `EveryCallEnds`,
  `EveryRequestAnswered`. The prover has no ENABLED.
* `WalkAssumption`: that the stream of chunks, one after the other, sends what the
  operator `Sent` says in one go. TLC evaluates it for every input of the runs'
  instances; no proof cites it.

## Not modelled

Ciphers, signatures, message formats and logging; the keep-alive timer, which
sends datagrams that change nothing, and the timer for republishing, which does
nothing; HTTP itself, methods other than GET and POST, and what a process does
after an error nobody catches; the memory block storage, which no program uses;
the peer client, which copies streams; the key generator and the helpers that only
call Node's libraries. Peers are honest throughout.

## Plan

Done, in this order: `RoutingTable` and its proofs, `RPC`, `BlockFiles`,
`PartialTransfer` and its proofs, `Codec`, `KademliaDHT` and the proof of what it
counts, `Values`, `Endpoints`; then the proofs of the walk of getClosestNodes, of
`BlockFiles` with its refinement, of `RPC`, of what lookups learn, of `Codec`,
`Endpoints` and `Values`, and of `RPC` with a restart. Every safety property of a
passing run is a theorem. Left is `KademliaDHT` composed with `PartialTransfer`, so that
the 10 seconds of a STORE and the 30 seconds of its transfer are timers of one model.
