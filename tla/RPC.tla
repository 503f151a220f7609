-------------------------------- MODULE RPC --------------------------------
(***************************************************************************)
(* Peers that talk over UDP (RPC.js): the messages, the requests that wait *)
(* for an answer and their timers, the pings by which a peer learns the    *)
(* key of someone it does not know, makes sure of its oldest contacts when *)
(* a bucket is full, and meets a peer behind a NAT that a third one told   *)
(* it of (PING_FORWARD). Every peer keeps a RoutingTable.                  *)
(*                                                                         *)
(* A handler runs to its end before the next event: the promises between   *)
(* the arrival of a message and its last send wait for nothing but         *)
(* signatures and ciphers, which only delay what is sent. It waits for     *)
(* the network in one place, for the key of an unknown sender, and there   *)
(* the model has another step. So a handler is a function on the state of  *)
(* the peer, "s", which also collects what the handler sends and settles.  *)
(*                                                                         *)
(* The network loses, repeats and reorders messages. NATs are external: a  *)
(* peer behind one hears only from addresses it has sent to.               *)
(***************************************************************************)
EXTENDS RoutingTableOps, Bags

CONSTANTS
  Concurrency,   \* the contacts of a full bucket that are pinged at a time
  Home,          \* the address each peer starts with
  Seed,          \* the peer every other one bootstraps with
  Hidden,        \* the peers behind a NAT
  Subject,       \* the ids that are looked for
  Timely,        \* whether timers outlast everything on its way
  MaxAsks,       \* bound: what each peer asks of its own accord, to start with
  MaxRequests,   \* bound: all the requests of one peer
  MaxLost,       \* bound: the messages that are lost or repeated
  MaxRestarts    \* bound: the restarts of peers

ASSUME RPCAssumption ==
  /\ Concurrency \in Nat \ {0}
  /\ Home \in [NodeId -> Address]
  /\ \A p, q \in NodeId : Home[p] = Home[q] => p = q
  /\ Seed \in NodeId \ Hidden
  /\ Hidden \subseteq NodeId
  /\ Subject \subseteq NodeId
  /\ NoNode \notin NodeId
  /\ Timely \in BOOLEAN
  /\ MaxAsks \in [NodeId -> Nat]
  /\ {MaxRequests, MaxLost, MaxRestarts} \subseteq Nat

VARIABLES
  address,    \* the address of each peer
  table,      \* routingTable of each peer
  pending,    \* pendingRequests of each peer, with what awaits the promise
  toPing,     \* newNodesToPing: whom the answers to a peer's lookups name
  count,      \* numRequests; never reset: Math.random makes ids unique
  asks,       \* how often a peer has asked on its own accord
  net,        \* the messages on their way
  opened,     \* the addresses each peer has sent to (what its NAT lets in)
  settled,    \* history: the requests whose promise has been settled
  lost,       \* how many messages were lost or repeated
  restarts    \* how often a peer has restarted

vars == <<address, table, pending, toPing, count, asks, net, opened, settled,
          lost, restarts>>

\* A message id: fresh ("n_random"), or one that the peer via has prefixed
\* with its own id to answer in place of another ("via_n_random").
MessageId == [by : NodeId, n : Nat, via : NodeId \cup {NoNode}]

Contact == [id : NodeId \cup {NoNode}, address : Address]

Type == {"PING", "PING_REPLY", "FIND_NODE", "FIND_NODE_REPLY", "PING_FORWARD"}

\* from, fromAddress: who sent it, and from where. to: whose key it is
\* encrypted with (all but PING). subject and nodes: the content.
Message == [type : Type, id : MessageId, from : NodeId, fromAddress : Address,
            to : NodeId \cup {NoNode}, toAddress : Address,
            subject : NodeId \cup {NoNode}, nodes : SUBSET Node]

\* purpose: who awaits the answer. "key": receiveMessage, to go on with the
\* message held; "evict": receiveMessage, about the oldest of a full bucket;
\* "find", "punch": findClosestNodes; "boot": bootstrap.
Request == [id : MessageId, type : {"PING", "FIND_NODE"}, to : Contact,
            purpose : {"key", "evict", "find", "punch", "boot"},
            held : Message \cup {NoNode}]

Settled == [request : Request, answer : NodeId \cup {NoNode}]

-----------------------------------------------------------------------------
(* Sending.                                                                *)

Local(p) == [table |-> table[p], pending |-> pending[p],
             toPing |-> toPing[p], count |-> count[p],
             out |-> EmptyBag, settled |-> {}]

Letter(p, to, type, id, subject, nodes) ==
  [type |-> type, id |-> id, from |-> p, fromAddress |-> address[p],
   to |-> to.id, toAddress |-> to.address, subject |-> subject, nodes |-> nodes]

\* sendMessage
Send(s, letters) == [s EXCEPT !.out = @ (+) SetToBag(letters)]

\* The ids of the next messages, x = 1, 2, ...
FreshId(s, p, x) == [by |-> p, n |-> s.count + x, via |-> NoNode]

Awaited(to, type, id, purpose, held) ==
  [id |-> id, type |-> type, to |-> to, purpose |-> purpose, held |-> held]

\* sendMessageAndWait: the answer to a message that has not left cannot come,
\* so sending it and filing the request are one step.
SendAndWait(s, p, requests, subject) ==
  [Send(s, {Letter(p, r.to, r.type, r.id, subject, {}) : r \in requests})
     EXCEPT !.pending = @ \cup requests]

\* As many more ids of the peer's own are taken.
Counted(s, number) == [s EXCEPT !.count = @ + number]

Ping(s, p, to, purpose, held) ==
  LET request == Awaited(to, "PING", FreshId(s, p, 1), purpose, held)
  IN Counted(SendAndWait(s, p, {request}, NoNode), 1)

Reply(s, p, to, m, nodes) ==
  LET type == IF m.type = "PING" THEN "PING_REPLY" ELSE "FIND_NODE_REPLY"
  IN Send(s, {Letter(p, to, type, m.id, NoNode, nodes)})

-----------------------------------------------------------------------------
(* receiveMessage, from the point where the sender's key is known.         *)

\* The first branch: the sender becomes a candidate, and when its bucket is
\* full the contacts heard longest ago are pinged.
Admit(s, p, node) ==
  LET full   == Overflows(s.table, p, node)
      after  == TableWith(s.table, p, node)
      oldest == IF full THEN GetLeastRecentNodes(after[BucketOf(p, node.id)],
                                                 Concurrency)
                ELSE <<>>
      pings  == {Awaited(oldest[x], "PING", FreshId(s, p, x), "evict", NoNode) :
                   x \in DOMAIN oldest}
  IN Counted(SendAndWait([s EXCEPT !.table = after], p, pings, NoNode),
             Len(oldest))

\* handleFindNodeRequest and getFindResponseContent: everyone who is named in
\* the answer is first told to expect the one who asks.
AnswerFind(s, p, node, m) ==
  LET nearest  == ToSet(GetClosestNodes(s.table, p, m.subject, NodesPerBucket))
      named    == {n \in nearest : n.id # node.id}
      forwards == {Letter(p, n, "PING_FORWARD", m.id, NoNode, {node}) :
                     n \in named}
  IN Reply(Send(s, forwards), p, node, m, named)

\* The id handlePingForwardRequest makes, which is also the one
\* findClosestNodes pings the same peer with.
ForwardedId(p, id) == [id EXCEPT !.via = p]

\* Mutant: the forwarded ping is answered under the id it came with.
AnswerForwardPlain(s, p, m) ==
  LET asker == CHOOSE node \in m.nodes : TRUE
  IN Send(s, {Letter(p, asker, "PING_REPLY", m.id, NoNode, {})})

AnswerForward(s, p, m) ==
  LET asker == CHOOSE node \in m.nodes : TRUE
  IN Send(s, {Letter(p, asker, "PING_REPLY", ForwardedId(p, m.id), NoNode, {})})

\* Mutant: the request stays in pendingRequests when it is resolved.
ResolveOnly(s, r, m) ==
  [s EXCEPT !.settled = @ \cup {[request |-> r, answer |-> m.from]}]

Resolve(s, r, m) ==
  [s EXCEPT !.pending = @ \ {r},
            !.settled = @ \cup {[request |-> r, answer |-> m.from]}]

\* Mutant: the type of a reply is compared without its suffix.
AnswersSameType(r, m) == r.id = m.id /\ r.type = m.type

Answers(r, m) ==
  /\ r.id = m.id
  /\ <<r.type, m.type>> \in {<<"PING", "PING_REPLY">>,
                            <<"FIND_NODE", "FIND_NODE_REPLY">>}

\* Mutant: the addresses of those named are left out.
NamedIds(p, m) ==
  {[node |-> [id |-> n.id], id |-> m.id] : n \in {x \in m.nodes : x.id # p}}

\* Those the answer to a lookup names, but the peer itself, are to be pinged.
Named(p, m) == {[node |-> n, id |-> m.id] : n \in {x \in m.nodes : x.id # p}}

\* Both branches, but for a PING_REPLY.
Handle(s, p, node, m) ==
  LET t  == Admit(s, p, node)
      rs == {r \in t.pending : Answers(r, m)}
  IN CASE m.type = "PING"         -> Reply(t, p, node, m, {})
       [] m.type = "FIND_NODE"    -> AnswerFind(t, p, node, m)
       [] m.type = "PING_FORWARD" -> AnswerForward(t, p, m)
       [] rs # {} -> LET r == CHOOSE r \in rs : TRUE
                     IN [Resolve(t, r, m) EXCEPT
                           !.toPing = @ \cup Named(p, m)]
       [] OTHER -> t

\* A PING_REPLY may bring the key that a held message waits for: its sender's,
\* and it is handled, or another's, the signature is not good, and the sender
\* is removed. The node the message was held with is the one admitted.
HandlePingReply(s, p, node, m) ==
  LET t  == Admit(s, p, node)
      rs == {r \in t.pending : Answers(r, m)}
  IN IF rs = {} THEN t
     ELSE LET r == CHOOSE r \in rs : TRUE
              u == Resolve(t, r, m)
          IN CASE r.purpose # "key" -> u
               [] r.purpose = "key" /\ r.held.from = m.from ->
                    Handle(u, p, r.to, r.held)
               [] OTHER -> [u EXCEPT !.table =
                              TableWithout(@, p, r.held.from)]

-----------------------------------------------------------------------------
(* Steps.                                                                  *)

\* What the handler made of the peer's state takes effect.
Commit(p, s) ==
  /\ s.count <= MaxRequests
  /\ table' = [table EXCEPT ![p] = s.table]
  /\ pending' = [pending EXCEPT ![p] = s.pending]
  /\ toPing' = [toPing EXCEPT ![p] = s.toPing]
  /\ count' = [count EXCEPT ![p] = s.count]
  /\ settled' = settled \cup s.settled
  /\ opened' = [opened EXCEPT ![p] = @ \cup {m.toAddress :
                                               m \in BagToSet(s.out)}]

\* The first call of bootstrap: the seed is known by its address alone.
Bootstrap(p) ==
  LET to == [id |-> NoNode, address |-> address[Seed]]
      s  == Ping(Local(p), p, to, "boot", NoNode)
  IN /\ p # Seed
     /\ asks[p] < MaxAsks[p]
     /\ Commit(p, s)
     /\ asks' = [asks EXCEPT ![p] = @ + 1]
     /\ net' = net (+) s.out
     /\ UNCHANGED <<address, lost, restarts>>

\* findClosestNodes asks one of the contacts nearest to the subject. Which
\* of them, and when, is the lookup's affair.
Find(p, to, subject) ==
  LET request == Awaited(to, "FIND_NODE", FreshId(Local(p), p, 1), "find", NoNode)
      s == Counted(SendAndWait(Local(p), p, {request}, subject), 1)
  IN /\ to \in ToSet(GetClosestNodes(table[p], p, subject, NodesPerBucket))
     /\ asks[p] < MaxAsks[p]
     /\ Commit(p, s)
     /\ asks' = [asks EXCEPT ![p] = @ + 1]
     /\ net' = net (+) s.out
     /\ UNCHANGED <<address, lost, restarts>>

\* Mutant: whoever is named in an answer becomes a contact unheard.
PingNamedUnheard(p, named) ==
  /\ named \in toPing[p]
  /\ Commit(p, [Local(p) EXCEPT !.toPing = @ \ {named},
                                !.table  = TableWith(@, p, named.node)])
  /\ UNCHANGED <<address, asks, net, lost, restarts>>

\* findClosestNodes goes through the nodes named in the answers and pings
\* those that are not in the table by then.
PingNamed(p, named) ==
  LET s == [Local(p) EXCEPT !.toPing = @ \ {named}]
      request == Awaited(named.node, "PING",
                         ForwardedId(named.node.id, named.id), "punch", NoNode)
      t == IF GetNode(s.table, p, named.node.id) # NoNode THEN s
           ELSE SendAndWait(s, p, {request}, NoNode)
  IN /\ named \in toPing[p]
     /\ Commit(p, t)
     /\ net' = net (+) t.out
     /\ UNCHANGED <<address, asks, lost, restarts>>

\* Mutant: lookups and their answers are not encrypted.
ArrivesPlain(p, m) ==
  /\ m.toAddress = address[p]
  /\ p \in Hidden => m.fromAddress \in opened[p]

\* Whether a message gets through to p, and p can read it.
Arrives(p, m) ==
  /\ m.toAddress = address[p]
  /\ p \in Hidden => m.fromAddress \in opened[p]
  /\ m.type = "PING" \/ m.to = p

\* receiveMessage
Receive(p, m) ==
  LET s      == Local(p)
      fresh  == [id |-> m.from, address |-> m.fromAddress]
      known  == GetNode(table[p], p, m.from)
      after  ==
        CASE m.type = "PING"       -> Handle(s, p, fresh, m)
          [] m.type = "PING_REPLY" -> HandlePingReply(s, p, fresh, m)
          [] m.type \notin {"PING", "PING_REPLY"} /\ known # NoNode
                                   -> Handle(s, p, known, m)
          [] OTHER                 -> Ping(s, p, fresh, "key", m)
  IN /\ Arrives(p, m)
     /\ Commit(p, after)
     /\ net' = (net (-) SetToBag({m})) (+) after.out
     /\ UNCHANGED <<address, asks, lost, restarts>>

\* Mutant: a request that has timed out stays in pendingRequests.
RejectKeeps(s, p, r) ==
  [s EXCEPT !.settled = @ \cup {[request |-> r, answer |-> NoNode]}]

\* A timer rings before the answer has come, and the request is rejected: the
\* oldest of a full bucket and a contact that does not answer a lookup are
\* removed, a held message is dropped.
Reject(s, p, r) ==
  [s EXCEPT !.pending = @ \ {r},
            !.settled = @ \cup {[request |-> r, answer |-> NoNode]},
            !.table   = IF r.purpose \in {"evict", "find"}
                        THEN TableWithout(@, p, r.to.id) ELSE @]

Timeout(p, r) ==
  /\ r \in pending[p]
  /\ Timely => net = EmptyBag
  /\ Commit(p, Reject(Local(p), p, r))
  /\ UNCHANGED <<address, asks, net, lost, restarts>>

-----------------------------------------------------------------------------
(* What the network and the machines do.                                   *)

\* A message that nobody can read, where it is going, or that a NAT stops.
Undeliverable(m) ==
  /\ \A p \in NodeId : ~Arrives(p, m)
  /\ net' = net (-) SetToBag({m})
  /\ UNCHANGED <<address, table, pending, toPing, count, asks, opened,
                 settled, lost, restarts>>

Lose(m) ==
  /\ lost < MaxLost
  /\ lost' = lost + 1
  /\ net' = net (-) SetToBag({m})
  /\ UNCHANGED <<address, table, pending, toPing, count, asks, opened,
                 settled, restarts>>

Repeat(m) ==
  /\ lost < MaxLost
  /\ lost' = lost + 1
  /\ net' = net (+) SetToBag({m})
  /\ UNCHANGED <<address, table, pending, toPing, count, asks, opened,
                 settled, restarts>>

\* A peer comes back with its keys (they are on disk), on another port that is
\* free (only the seed is told which one to take), and with nothing else.
Restart(p, a) ==
  /\ restarts < MaxRestarts
  /\ p # Seed
  /\ \A q \in NodeId : address[q] # a
  /\ restarts' = restarts + 1
  /\ address' = [address EXCEPT ![p] = a]
  /\ table' = [table EXCEPT ![p] = EmptyTable]
  /\ pending' = [pending EXCEPT ![p] = {}]
  /\ toPing' = [toPing EXCEPT ![p] = {}]
  /\ opened' = [opened EXCEPT ![p] = {}]
  /\ UNCHANGED <<count, asks, net, settled, lost>>

-----------------------------------------------------------------------------

Init ==
  /\ address = Home
  /\ table = [p \in NodeId |-> EmptyTable]
  /\ pending = [p \in NodeId |-> {}]
  /\ toPing = [p \in NodeId |-> {}]
  /\ count = [p \in NodeId |-> 0]
  /\ asks = [p \in NodeId |-> 0]
  /\ net = EmptyBag
  /\ opened = [p \in NodeId |-> {}]
  /\ settled = {}
  /\ lost = 0
  /\ restarts = 0

Next ==
  \/ \E p \in NodeId :
       \/ Bootstrap(p)
       \/ \E q \in NodeId, subject \in Subject :
            Find(p, GetNode(table[p], p, q), subject)
       \/ \E named \in toPing[p] : PingNamed(p, named)
       \/ \E m \in BagToSet(net) : Receive(p, m)
       \/ \E r \in pending[p] : Timeout(p, r)
       \/ \E a \in Address : Restart(p, a)
  \/ \E m \in BagToSet(net) : Undeliverable(m) \/ Lose(m) \/ Repeat(m)

\* Timers ring (setTimeout).
Fairness == \A p \in NodeId : WF_vars(\E r \in pending[p] : Timeout(p, r))

Spec == Init /\ [][Next]_vars /\ Fairness

-----------------------------------------------------------------------------
(* Properties.                                                             *)

TypeOK ==
  /\ address \in [NodeId -> Address]
  /\ table \in [NodeId -> Table]
  /\ \A p \in NodeId :
       /\ pending[p] \subseteq Request
       /\ toPing[p] \subseteq [node : Node, id : MessageId]
  /\ count \in [NodeId -> 0 .. MaxRequests]
  /\ \A p \in NodeId : asks[p] \in 0 .. MaxAsks[p]
  /\ IsABag(net) /\ BagToSet(net) \subseteq Message
  /\ opened \in [NodeId -> SUBSET Address]
  /\ settled \subseteq Settled
  /\ lost \in 0 .. MaxLost /\ restarts \in 0 .. MaxRestarts

\* The promise of a request is settled at most once, though its answer may
\* come twice, under the same id from two peers' hands (a forwarded and a
\* direct ping), and after its timer; what is settled waits no more.
SettledOnce ==
  /\ \A a, b \in settled : a.request.id = b.request.id => a = b
  /\ \A p \in NodeId : \A r \in pending[p], a \in settled :
       a.request.id # r.id

\* Only the contact a lookup asked resolves its request, even when another
\* peer has taken over the contact's address.
AnsweredByAsked ==
  \A a \in settled :
    a.request.type = "FIND_NODE" => a.answer \in {a.request.to.id, NoNode}

\* As long as timers outlast the messages, none is lost and no peer restarts,
\* every request is answered, in whatever order the messages come: no message
\* is dropped for its sender's unknown key, no contact is removed from a full
\* bucket, and a peer behind a NAT that was named in an answer is met by the
\* ping, the forwarded ping or both (issuePingForwardRequest,
\* handlePingForwardRequest, findClosestNodes).
NothingFails == restarts = 0 => \A a \in settled : a.answer # NoNode

\* As long as no peer restarts, a peer can reach everyone it hands out to
\* others (getFindResponseContent tells them to expect a ping): at that
\* address, and through their NAT.
ContactsReachable ==
  restarts = 0 =>
    \A p \in NodeId : \A i \in BucketIds :
      \A x \in DOMAIN table[p][i].nodes :
        LET node == table[p][i].nodes[x]
        IN /\ node.address = address[node.id]
           /\ node.id \in Hidden => address[p] \in opened[node.id]

\* As long as timers outlast the messages and none is lost, a contact is only
\* removed for its silence, to a ping or a lookup, when one of the two has
\* moved: the contact is no longer where it was asked, or the peer that asked
\* has restarted, and the contact answers, or its NAT lets in, a former address.
RemovedHadLeft ==
  [][\A p \in NodeId : \A r \in pending[p] :
       Timeout(p, r) /\ table[p] # table'[p] =>
         address[r.to.id] # r.to.address \/ address[p] # Home[p]]_vars

\* Every request is settled in the end: answered, rejected by its timer, or
\* gone with its peer's restart. What waits for it, a held message or a
\* lookup, does not wait for ever. A ping to someone a lookup named bears the
\* number of the lookup.
EveryRequestSettles ==
  \A p \in NodeId, n \in 1 .. MaxRequests :
    (\E r \in pending[p] : r.id.n = n) ~> (\A r \in pending[p] : r.id.n # n)

=============================================================================
