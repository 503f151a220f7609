----------------------------- MODULE KademliaDHT -----------------------------
(***************************************************************************)
(* What a peer does with its requests (KademliaDHT.js): the rounds of      *)
(* findClosestNodes, which ask the contacts nearest to a subject until all *)
(* of them have answered, and on top of them bootstrap, refreshBuckets,    *)
(* upload and download. Several of these calls run at once, all on the one *)
(* table, which other messages change too.                                 *)
(*                                                                         *)
(* This is one peer, with RPC's view of the others abstracted: a request   *)
(* is answered, or its timer rings. Between an answer and the next request *)
(* a call waits for nothing, so the two are one step: a call is a record,  *)
(* s, and the operators from Asked on say how it goes on from a table, t.  *)
(***************************************************************************)
EXTENDS RoutingTableOps

CONSTANTS
  Root,          \* the id of this peer
  Home,          \* the address of each peer
  SeedId,        \* the peer it bootstraps with
  Key,           \* the key that is uploaded and downloaded
  Knows,         \* whom each of the others names: its own closest nodes
  Mute,          \* the peers that answer pings, but not lookups
  Callers,       \* the peers that send messages of their own accord
  HasIt,         \* the peers that have the value from the start
  Raw,           \* whether the value fits into the answer to a lookup
  Concurrency,   \* the contacts asked at a time
  Uploads,       \* bound: the calls of upload
  Downloads,     \* bound: the calls of download
  MaxRefreshes,  \* bound: the calls of refreshBuckets, one by bootstrap
  MaxFaults      \* bound: what fails, and the peers that go away

ASSUME DHTAssumption ==
  /\ {Root, SeedId} \subseteq NodeId /\ SeedId # Root
  /\ Home \in [NodeId -> Address]
  /\ Knows \in [NodeId -> SUBSET (NodeId \ {Root})]
  /\ {Mute, Callers, HasIt} \subseteq SUBSET NodeId
  /\ Key \subseteq 0 .. IdBits - 1
  /\ Raw \in BOOLEAN
  /\ Concurrency \in Nat \ {0}
  /\ {Uploads, Downloads, MaxRefreshes, MaxFaults} \subseteq Nat

VARIABLES
  buckets,    \* the table
  call,       \* the calls that wait for something
  stores,     \* the STORE requests on their way, and what became of them
  has,        \* the peers that have the value
  local,      \* whether this peer has it
  up,         \* the peers that are there
  refreshes,  \* how often refreshBuckets was called
  faults      \* how often something failed, or a peer went away

vars == <<buckets, call, stores, has, local, up, refreshes, faults>>

Others == NodeId \ {Root}

Contact(id) == [id |-> id, address |-> Home[id]]

Boot == <<"bootstrap", 0>>

Call == {Boot} \cup ({"refresh"} \X BucketIds)
          \cup ({"upload"} \X (1 .. Uploads)) \cup ({"download"} \X (1 .. Downloads))

Kind(c) == c[1]

\* waiting: the requests of the round, or the pings, or the STOREs, that are
\* not settled. responses: nodeIdsGottenResponsesFor. named: newNodesToPing.
\* holders: nodesWithValues. closest: what the lookup resolved with. success,
\* fail: whom upload counts as which. hadIt: history, who had the value when
\* the call began.
Progress ==
  [kind : {"bootstrap", "refresh", "upload", "download"},
   phase : {"idle", "pinging", "asking", "meeting", "storing", "fetching", "done"},
   subject : SUBSET (0 .. IdBits - 1),
   waiting : SUBSET Node, responses : SUBSET NodeId, named : SUBSET Node,
   holders : Seq(Node), closest : Seq(Node),
   success : SUBSET Node, fail : SUBSET Node, hadIt : SUBSET NodeId,
   outcome : {"none", "resolved", "not found", "rejected"}]

Idle(kind) ==
  [kind |-> kind, phase |-> "idle", subject |-> Root, waiting |-> {},
   responses |-> {}, named |-> {}, holders |-> <<>>, closest |-> <<>>,
   success |-> {}, fail |-> {}, hadIt |-> {}, outcome |-> "none"]

-----------------------------------------------------------------------------
(* findClosestNodes.                                                       *)

Done(s, outcome) == [s EXCEPT !.phase = "done", !.outcome = outcome]

\* Nobody near the subject is left to ask. An upload goes on with a STORE for
\* everyone, unless the value could not be read; a download has failed.
Resolved(s, nodes) ==
  LET r == [s EXCEPT !.closest = nodes, !.responses = {}]
  IN IF s.kind = "download" THEN Done(r, "not found")
     ELSE IF s.outcome = "rejected" THEN Done(r, "rejected")
     ELSE IF s.kind = "upload" /\ nodes # <<>>
     THEN [r EXCEPT !.phase = "storing", !.waiting = ToSet(nodes)]
     ELSE Done(r, "resolved")

\* The places of the contacts whose answer a lookup has not had.
Pending(s, closest) == {x \in DOMAIN closest : closest[x].id \notin s.responses}

First(pending) ==
  {x \in pending : Cardinality({y \in pending : y <= x}) <= Concurrency}

\* A round: of the closest contacts that have not answered yet, the first few
\* are asked.
Round(s, t) ==
  LET closest == GetClosestNodes(t, Root, s.subject, NodesPerBucket)
      pending == Pending(s, closest)
  IN IF pending = {} THEN Resolved(s, closest)
     ELSE [s EXCEPT !.phase   = "asking",
                    !.waiting = {closest[x] : x \in First(pending)},
                    !.holders = <<>>]

\* Mutant: the answers with the value are looked at no more than others.
MetIgnoresValue(s, t) == Round(s, t)

\* All the pings are settled.
Met(s, t) == IF s.holders # <<>>
             THEN [s EXCEPT !.phase = "fetching", !.responses = {}]
             ELSE Round(s, t)

\* Mutant: the next round does not wait for the pings.
AskedOnly(s, t) == Met(s, t)

\* All of the round is settled: those named who are not in the table by now
\* are pinged.
Asked(s, t) ==
  LET strangers == {node \in s.named : GetNode(t, Root, node.id) = NoNode}
      s1 == [s EXCEPT !.named = {}]
  IN IF strangers = {} THEN Met(s1, t)
     ELSE [s1 EXCEPT !.phase = "meeting", !.waiting = strangers]

\* What a call does when one of the things it waits for is settled.
GoOn(s, t) ==
  IF s.waiting # {} THEN s
  ELSE CASE s.phase = "pinging" -> Round(s, t)
         [] s.phase = "asking"  -> Asked(s, t)
         [] s.phase = "meeting" -> Met(s, t)
         [] OTHER               -> Done(s, "resolved")

\* Mutant: the addresses of those named are left out.
AnsweredIds(s, node) ==
  [s EXCEPT !.waiting   = @ \ {node},
            !.responses = @ \cup {node.id},
            !.named     = @ \cup {[id |-> id] : id \in Knows[node.id]}]

\* The answer to a lookup: from someone who has the value and was asked for it
\* the value, from anyone else the nodes nearest to the subject.
Answered(s, node) ==
  LET s1 == [s EXCEPT !.waiting   = @ \ {node},
                      !.responses = @ \cup {node.id}]
  IN IF s.kind = "download" /\ node.id \in has
     THEN [s1 EXCEPT !.holders = Append(@, node)]
     ELSE [s1 EXCEPT !.named = @ \cup {Contact(id) : id \in Knows[node.id]}]

-----------------------------------------------------------------------------
(* Calls begin.                                                            *)

\* bootstrap: the seed is pinged by its address alone.
Bootstrap ==
  /\ call[Boot].phase = "idle"
  /\ call' = [call EXCEPT ![Boot].phase   = "pinging",
                          ![Boot].waiting = {Contact(SeedId)}]
  /\ UNCHANGED <<buckets, stores, has, local, up, refreshes, faults>>

Ended(kind) ==
  \A c \in Call : Kind(c) = kind => call[c].phase \in {"idle", "done"}

\* refreshBuckets, by bootstrap when its lookup has ended, and by the one
\* timer that is set: one contact of each bucket is looked up, all at once.
RefreshBuckets ==
  LET filled == {i \in BucketIds : buckets[i].nodes # <<>>}
  IN /\ call[Boot].outcome = "resolved"
     /\ refreshes < MaxRefreshes
     /\ Ended("refresh")
     /\ \E place \in [filled -> 1 .. NodesPerBucket] :
          /\ \A i \in filled : place[i] \in DOMAIN buckets[i].nodes
          /\ call' = [c \in Call |->
               IF Kind(c) = "refresh" /\ c[2] \in filled
               THEN Round([Idle("refresh") EXCEPT !.subject =
                             buckets[c[2]].nodes[place[c[2]]].id], buckets)
               ELSE call[c]]
     /\ refreshes' = refreshes + 1
     /\ UNCHANGED <<buckets, stores, has, local, up, faults>>

\* The server listens when bootstrap is through, also if it failed.
Listening ==
  /\ call[Boot].phase = "done"
  /\ call[Boot].outcome = "resolved" => refreshes > 0
  /\ refreshes = 1 => Ended("refresh")

\* upload and download: the first round of their lookup. What upload reads in
\* the meantime is there or not.
Begin(c) ==
  LET s == [Idle(Kind(c)) EXCEPT
              !.subject = Key, !.hadIt = has,
              !.outcome = IF Kind(c) = "upload" /\ ~local THEN "rejected"
                          ELSE "none"]
  IN /\ Listening
     /\ Kind(c) \in {"upload", "download"} /\ call[c].phase = "idle"
     /\ call' = [call EXCEPT ![c] = Round(s, buckets)]
     /\ UNCHANGED <<buckets, stores, has, local, up, refreshes, faults>>

-----------------------------------------------------------------------------
(* What calls wait for is settled. An answer files its sender first          *)
(* (receiveMessage), and the call goes on from the table after that.       *)

\* Something that is there can fail, but not too often.
Fault == faults < MaxFaults /\ faults' = faults + 1

\* A request to a peer that is not there, or does not answer, is sure to fail.
Unanswered(id, there) == (id \notin there /\ UNCHANGED faults) \/ Fault

\* The answer to a ping, of bootstrap or of a lookup.
PingAnswered(c, node) ==
  LET t == TableWith(buckets, Root, node)
      s == [call[c] EXCEPT !.waiting = @ \ {node}]
  IN /\ call[c].phase \in {"pinging", "meeting"}
     /\ node \in call[c].waiting /\ node.id \in up
     /\ buckets' = t
     /\ call' = [call EXCEPT ![c] = GoOn(s, t)]
     /\ UNCHANGED <<stores, has, local, up, refreshes, faults>>

\* The end of bootstrap is to log the error; findClosestNodes ignores it.
PingTimeout(c, node) ==
  LET s == [call[c] EXCEPT !.waiting = @ \ {node}]
  IN /\ call[c].phase \in {"pinging", "meeting"}
     /\ node \in call[c].waiting
     /\ Unanswered(node.id, up)
     /\ call' = [call EXCEPT ![c] = IF s.phase = "pinging"
                                    THEN Done(s, "rejected")
                                    ELSE GoOn(s, buckets)]
     /\ UNCHANGED <<buckets, stores, has, local, up, refreshes>>

\* The answer to FIND_NODE or FIND_VALUE.
FindAnswered(c, node) ==
  LET t == TableWith(buckets, Root, node)
  IN /\ call[c].phase = "asking"
     /\ node \in call[c].waiting /\ node.id \in up \ Mute
     /\ buckets' = t
     /\ call' = [call EXCEPT ![c] = GoOn(Answered(@, node), t)]
     /\ UNCHANGED <<stores, has, local, up, refreshes, faults>>

\* Mutant: a contact that does not answer stays in the table.
FindTimeoutKeeps(c, node) ==
  LET s == [call[c] EXCEPT !.waiting = @ \ {node}]
  IN /\ call[c].phase = "asking"
     /\ node \in call[c].waiting
     /\ Unanswered(node.id, up \ Mute)
     /\ call' = [call EXCEPT ![c] = GoOn(s, buckets)]
     /\ UNCHANGED <<buckets, stores, has, local, up, refreshes>>

FindTimeout(c, node) ==
  LET t == TableWithout(buckets, Root, node.id)
      s == [call[c] EXCEPT !.waiting = @ \ {node}]
  IN /\ call[c].phase = "asking"
     /\ node \in call[c].waiting
     /\ Unanswered(node.id, up \ Mute)
     /\ buckets' = t
     /\ call' = [call EXCEPT ![c] = GoOn(s, t)]
     /\ UNCHANGED <<stores, has, local, up, refreshes>>

-----------------------------------------------------------------------------
(* upload.                                                                 *)

\* The STOREs leave when the lookup of the call has ended; at the other peer
\* the value is saved, or the transfer fails, also when nobody waits any more.
Request(c, node) == [call |-> c, node |-> node]

Keep(c, node) ==
  /\ call[c].kind = "upload" /\ node \in ToSet(call[c].closest)
  /\ call[c].phase = "storing" \/ node \in call[c].fail
  /\ \A r \in stores : [call |-> r.call, node |-> r.node] # Request(c, node)
  /\ node.id \in up
  /\ \/ /\ stores' = stores \cup {[call |-> c, node |-> node, kept |-> TRUE]}
        /\ has' = has \cup {node.id}
        /\ UNCHANGED faults
     \/ /\ stores' = stores \cup {[call |-> c, node |-> node, kept |-> FALSE]}
        /\ UNCHANGED has
        /\ Fault
  /\ UNCHANGED <<buckets, call, local, up, refreshes>>

\* The reply says whether the value was saved.
StoreAnswered(c, node, kept) ==
  LET t == TableWith(buckets, Root, node)
      s == [call[c] EXCEPT !.waiting = @ \ {node},
                           !.success = IF kept THEN @ \cup {node} ELSE @,
                           !.fail    = IF kept THEN @ ELSE @ \cup {node}]
  IN /\ call[c].phase = "storing" /\ node \in call[c].waiting
     /\ [call |-> c, node |-> node, kept |-> kept] \in stores
     /\ buckets' = t
     /\ call' = [call EXCEPT ![c] = GoOn(s, t)]
     /\ UNCHANGED <<stores, has, local, up, refreshes, faults>>

\* Mutant: whoever does not answer counts as one more that stored the value.
Uncounted(s, node) ==
  [s EXCEPT !.waiting = @ \ {node}, !.success = @ \cup {node}]

\* The catch turns an error into the content FALSE.
Counted(s, node) ==
  [s EXCEPT !.waiting = @ \ {node}, !.fail = @ \cup {node}]

StoreTimeout(c, node) ==
  LET t == TableWithout(buckets, Root, node.id)
  IN /\ call[c].phase = "storing" /\ node \in call[c].waiting
     /\ Unanswered(node.id, up)
     /\ buckets' = t
     /\ call' = [call EXCEPT ![c] = GoOn(Counted(@, node), t)]
     /\ UNCHANGED <<stores, has, local, up, refreshes>>

-----------------------------------------------------------------------------
(* download: the holders of the last round are tried from the last one on. *)

\* The value comes chunk by chunk from a holder, or came with its answer.
Fetched(c) ==
  LET s == [call[c] EXCEPT !.holders = <<>>]
  IN /\ call[c].phase = "fetching"
     /\ Raw \/ Last(call[c].holders).id \in up
     /\ local' = TRUE
     /\ call' = [call EXCEPT ![c] = Done(s, "resolved")]
     /\ UNCHANGED <<buckets, stores, has, up, refreshes, faults>>

\* The next one is tried, if there is one.
FetchFails(c) ==
  LET s == [call[c] EXCEPT !.holders = Front(@)]
  IN /\ call[c].phase = "fetching"
     /\ \/ ~Raw /\ Last(call[c].holders).id \notin up /\ UNCHANGED faults
        \/ Fault
     /\ call' = [call EXCEPT ![c] = IF s.holders = <<>>
                                    THEN Done(s, "not found") ELSE s]
     /\ UNCHANGED <<buckets, stores, has, local, up, refreshes>>

-----------------------------------------------------------------------------
(* What else happens to the table, and the others.                         *)

\* A message of any other kind files its sender (RPC's receiveMessage); so
\* does an answer that is late.
Hear(id) ==
  /\ id \in up
  /\ id \in Callers \/ faults > 0
  /\ UNCHANGED <<call, stores, has, local, up, refreshes, faults>>
  /\ buckets' = TableWith(buckets, Root, Contact(id))

\* RPC's receiveMessage removes contacts that do not answer when their bucket
\* is full, or whose signature is not good.
Forget(id) ==
  /\ GetNode(buckets, Root, id) # NoNode
  /\ Unanswered(id, up)
  /\ buckets' = TableWithout(buckets, Root, id)
  /\ UNCHANGED <<call, stores, has, local, up, refreshes>>

Leave(id) ==
  /\ id \in up
  /\ up' = up \ {id}
  /\ Fault
  /\ UNCHANGED <<buckets, call, stores, has, local, refreshes>>

-----------------------------------------------------------------------------

Init ==
  /\ buckets = EmptyTable
  /\ call = [c \in Call |-> Idle(Kind(c))]
  /\ stores = {}
  /\ has = HasIt
  /\ local \in BOOLEAN
  /\ up = Others
  /\ refreshes = 0 /\ faults = 0

\* One of the things c waits for is settled.
Settle(c) ==
  \/ \E node \in call[c].waiting :
       \/ PingAnswered(c, node) \/ PingTimeout(c, node)
       \/ FindAnswered(c, node) \/ FindTimeout(c, node)
       \/ \E kept \in BOOLEAN : StoreAnswered(c, node, kept)
       \/ StoreTimeout(c, node)
  \/ Fetched(c) \/ FetchFails(c)

Next ==
  \/ Bootstrap \/ RefreshBuckets
  \/ \E c \in Call : Begin(c) \/ Settle(c) \/ \E node \in Node : Keep(c, node)
  \/ \E id \in Others : Hear(id) \/ Forget(id) \/ Leave(id)

\* Timers ring; bootstrap goes on to refresh the buckets; and what a peer has
\* received it saves, or not.
Work ==
  \/ \E c \in Call : Settle(c) \/ \E node \in Node : Keep(c, node)
  \/ RefreshBuckets /\ refreshes = 0

Fairness == WF_vars(Work)

Spec == Init /\ [][Next]_vars /\ Fairness

-----------------------------------------------------------------------------
(* Properties.                                                             *)

TypeOK ==
  /\ buckets \in Table
  /\ \A c \in Call : call[c] \in Progress /\ call[c].kind = Kind(c)
  /\ stores \subseteq [call : Call, node : Node, kept : BOOLEAN]
  /\ has \subseteq NodeId /\ local \in BOOLEAN /\ up \subseteq Others
  /\ refreshes \in 0 .. MaxRefreshes
  /\ faults \in 0 .. MaxFaults

\* As long as nothing fails between peers that are there, a lookup misses
\* nobody: when it ends, the table knows whoever was named by a contact it
\* returns, or has no room for them. However many lookups run at once, in
\* whatever order answers and pings come (findClosestNodes pings those named
\* in a round, and waits for them, before it looks at the table again).
NobodyMissed ==
  faults = 0 =>
    \A c \in Call : \A x \in DOMAIN call[c].closest :
      \A id \in Knows[call[c].closest[x].id] \cap (up \ Mute) :
        \/ GetNode(buckets, Root, id) # NoNode
        \/ Len(buckets[BucketOf(Root, id)].nodes) = NodesPerBucket

\* What upload counts as a success is a peer that has the value, though
\* replies and timers race each other; and every contact the lookup returned
\* is counted once.
SuccessIsStored ==
  \A c \in Call :
    LET s == call[c]
    IN /\ \A node \in s.success : node.id \in has
       /\ s.success \cap s.fail = {}
       /\ s.kind = "upload" /\ s.outcome = "resolved" =>
            s.success \cup s.fail = ToSet(s.closest)

\* As long as nothing fails and nobody goes away, a download that ends
\* without the value was right: none of the contacts nearest to the key had it
\* when the download began.
NotFoundIsTrue ==
  faults = 0 =>
    \A c \in Call :
      LET s == call[c]
      IN s.kind = "download" /\ s.outcome = "not found" =>
           s.holders = <<>> /\ \A x \in DOMAIN s.closest :
                                 s.closest[x].id \notin s.hadIt

Busy(c) == call[c].phase \notin {"idle", "done"}

\* Every call ends, once contacts that do not answer are no longer filed again
\* and again because of what they send: a lookup does not ask for ever,
\* whoever names whom.
EveryCallEnds ==
  (<>[][\A id \in Others : ~Hear(id)]_vars) =>
    ((\E c \in Call : Busy(c)) ~> (\A c \in Call : ~Busy(c)))

=============================================================================
