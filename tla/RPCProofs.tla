------------------------------ MODULE RPCProofs ------------------------------
(***************************************************************************)
(* Theorems about RPC, for any number of peers, ids, buckets and requests, *)
(* whatever the network loses, repeats or reorders, and with peers that    *)
(* restart: states have their types, no promise is settled twice, and only *)
(* the contact a lookup asked resolves its request. As long as no message  *)
(* is lost, timers outlast them all and no peer restarts, no request fails *)
(* (QuietInv, in the second part); if one peer restarts, a contact is only *)
(* removed for its silence when one of the two has moved (LeftInv, in the  *)
(* third).                                                                 *)
(*                                                                         *)
(* A handler is a function on the local state "s" of a peer, so the proof  *)
(* is in two parts. What holds of a peer (PeerOK, LocalOK) is preserved by *)
(* every piece a handler is made of; then what it made takes effect in one *)
(* step (Commit), which keeps the inductive invariant, Inv.                *)
(*                                                                         *)
(* The ids carry the argument. One with a number of the peer's own is      *)
(* fresh as its counter only grows. One made from a lookup's (ForwardedId) *)
(* is fresh as the lookup is settled once and names everyone once, and the *)
(* name is used up when its ping is sent.                                  *)
(***************************************************************************)
EXTENDS RPC, RoutingTableOpsProofs

-----------------------------------------------------------------------------
(* The invariant.                                                          *)

Base(id) == [id EXCEPT !.via = NoNode]

IdsOf(done) == {a.request.id : a \in done}

\* Every place an object of a contact is filed in: list or cache.
Filed(t) == UNION {ObjectsOf(t[i]) : i \in BucketIds}

RequestOK(p, r, done) ==
  /\ r \in Request
  /\ r.id.by = p
  /\ r.type = "FIND_NODE" <=> r.purpose = "find"
  /\ IF r.purpose = "punch" THEN Base(r.id) \in IdsOf(done)
                            ELSE r.id.via = NoNode
  /\ r.purpose # "boot" => r.to \in Node
  /\ r.purpose = "key" => /\ r.held \in Message
                          /\ r.held.type \notin {"PING", "PING_REPLY"}
                          /\ r.held.to = p

\* What waits: every request under an id of its own, which no settled one had.
PendingOK(p, s, done) ==
  /\ \A r \in s.pending : /\ RequestOK(p, r, done)
                          /\ r.id.n <= s.count
                          /\ r.id \notin IdsOf(done)
  /\ \A q, r \in s.pending : q.id = r.id => q = r

\* Whoever is to be pinged was named in the answer to a settled lookup, under
\* one address, and the id of the ping is not used.
ToPingOK(p, s, done) ==
  /\ \A e \in s.toPing :
       /\ e \in [node : Node, id : MessageId]
       /\ e.id.by = p /\ e.id.via = NoNode
       /\ e.id \in IdsOf(done)
       /\ ForwardedId(e.node.id, e.id) \notin IdsOf(done)
       /\ \A r \in s.pending : r.id # ForwardedId(e.node.id, e.id)
  /\ \A e, f \in s.toPing :
       e.id = f.id /\ e.node.id = f.node.id => e = f

\* No settled request had a number the peer has yet to give out.
CountOK(p, s, done) ==
  /\ s.count \in Nat
  /\ \A a \in done : a.request.id.by = p => a.request.id.n <= s.count

PeerOK(p, s, done) ==
  /\ TableOK(s.table, p)
  /\ PendingOK(p, s, done)
  /\ ToPingOK(p, s, done)
  /\ CountOK(p, s, done)

\* The history.
DoneOK(done) ==
  /\ done \subseteq Settled
  /\ \A a, b \in done : a.request.id = b.request.id => a = b
  /\ \A a \in done :
       /\ a.request.type = "FIND_NODE" => a.answer \in {a.request.to.id, NoNode}
       /\ a.request.id.via # NoNode => Base(a.request.id) \in IdsOf(done)

\* On the way: in the network, or held for the key of its sender.
Held(waiting) == {r.held : r \in {q \in waiting : q.purpose = "key"}}

OnTheWay == BagToSet(net) \cup UNION {Held(pending[p]) : p \in NodeId}

NamesOnce(nodes) == \A x, y \in nodes : x.id = y.id => x = y

\* A message has a number that its peer has given out.
MessageOK(m, numbers) ==
  /\ m \in Message
  /\ m.id.n <= numbers[m.id.by]
  /\ NamesOnce(m.nodes)
  /\ m.type = "PING_FORWARD" => m.nodes # {}
  /\ m.type = "FIND_NODE" => m.subject \in NodeId

\* A lookup's request went to the contact it asks, and comes from there.
AskedOne(r, m) ==
  r.type = "FIND_NODE" /\ r.id = m.id =>
    /\ m.type = "FIND_NODE" => m.to = r.to.id
    /\ m.type = "FIND_NODE_REPLY" => m.from = r.to.id

\* The peer p can be reached by the object's contact, and the contact by p.
Reached(p, o) == o.address = address[o.id] /\ address[p] \in opened[o.id]

ReachOK(p, s) ==
  restarts = 0 =>
    /\ \A o \in Filed(s.table) : Reached(p, o)
    /\ \A r \in s.pending : r.purpose = "key" => Reached(p, r.to)

SentOK(m) ==
  restarts = 0 =>
    m.fromAddress = address[m.from] /\ m.toAddress \in opened[m.from]

BoundsOK ==
  /\ address \in [NodeId -> Address]
  /\ table \in [NodeId -> Table]
  /\ pending \in [NodeId -> SUBSET Request]
  /\ toPing \in [NodeId -> SUBSET [node : Node, id : MessageId]]
  /\ count \in [NodeId -> 0 .. MaxRequests]
  /\ asks \in [NodeId -> Nat]
  /\ \A p \in NodeId : asks[p] <= MaxAsks[p]
  /\ IsABag(net)
  /\ opened \in [NodeId -> SUBSET Address]
  /\ lost \in 0 .. MaxLost /\ restarts \in 0 .. MaxRestarts

Inv ==
  /\ BoundsOK
  /\ DoneOK(settled)
  /\ \A p \in NodeId : PeerOK(p, Local(p), settled)
  /\ \A p \in NodeId : ReachOK(p, Local(p))
  /\ \A m \in OnTheWay : MessageOK(m, count) /\ SentOK(m)
  /\ \A p \in NodeId : \A r \in pending[p], m \in OnTheWay : AskedOne(r, m)

-----------------------------------------------------------------------------
(* What holds of the state a handler works on.                             *)

Shape(s) ==
  s = [table |-> s.table, pending |-> s.pending, toPing |-> s.toPing,
       count |-> s.count, out |-> s.out, settled |-> s.settled]

Done(s) == settled \cup s.settled

Numbers(p, s) == [count EXCEPT ![p] = s.count]

\* A letter the peer has sent: it asks what a request waits for, under a fresh
\* number, or answers what was on the way.
LetterOK(p, s, m) ==
  /\ MessageOK(m, Numbers(p, s))
  /\ m.from = p /\ m.fromAddress = address[p]
  /\ m.type = "FIND_NODE" => /\ m.id.by = p /\ m.id.n > count[p]
                             /\ \A r \in s.pending : AskedOne(r, m)
  /\ m.type = "FIND_NODE_REPLY" =>
       \E f \in OnTheWay : f.type = "FIND_NODE" /\ f.id = m.id /\ f.to = p

OutOK(p, s) == IsABag(s.out) /\ \A m \in BagToSet(s.out) : LetterOK(p, s, m)

\* What the peer waits for, it waited for before, or has asked just now.
NewOK(p, s) ==
  /\ s.count >= count[p]
  /\ \A a \in s.settled : a.request.id.by = p
  /\ \A r \in s.pending :
       /\ r.type = "FIND_NODE" => r \in pending[p] \/ r.id.n > count[p]
       /\ r.purpose = "key" => r.held \in OnTheWay

LocalOK(p, s) ==
  /\ Shape(s)
  /\ PeerOK(p, s, Done(s))
  /\ DoneOK(Done(s))
  /\ ReachOK(p, s)
  /\ OutOK(p, s)
  /\ NewOK(p, s)

\* A message that is handled.
HandledOK(p, m) ==
  /\ m \in OnTheWay
  /\ MessageOK(m, count)
  /\ m.type = "FIND_NODE" => m.to = p
  /\ \A r \in pending[p] : AskedOne(r, m)

-----------------------------------------------------------------------------
(* Pieces of a handler.                                                    *)

\* The table becomes another one, with nobody out of reach.
LEMMA TableChanges ==
  ASSUME NEW p, NEW s, LocalOK(p, s), NEW t, TableOK(t, p),
         restarts = 0 => \A o \in Filed(t) : Reached(p, o)
  PROVE  LocalOK(p, [s EXCEPT !.table = t])
<1> DEFINE u == [s EXCEPT !.table = t]
<1>1. /\ Shape(u) /\ u.table = t /\ u.pending = s.pending
      /\ u.toPing = s.toPing /\ u.count = s.count /\ u.out = s.out
      /\ u.settled = s.settled
  <2>1. Shape(s)
    BY DEF LocalOK
  <2> QED BY <2>1 DEF Shape
<1> HIDE DEF u
<1>2. Done(u) = Done(s)
  BY <1>1 DEF Done
<1>3. PeerOK(p, u, Done(u))
  BY <1>1, <1>2 DEF LocalOK, PeerOK, PendingOK, ToPingOK, CountOK
<1>4. ReachOK(p, u)
  BY <1>1 DEF LocalOK, ReachOK
<1>5. OutOK(p, u)
  BY <1>1 DEF LocalOK, OutOK, LetterOK, Numbers
<1>6. NewOK(p, u)
  BY <1>1 DEF LocalOK, NewOK
<1> QED BY <1>1, <1>2, <1>3, <1>4, <1>5, <1>6 DEF LocalOK, u

\* Letters are sent.
LEMMA SendOK ==
  ASSUME NEW p, NEW s, LocalOK(p, s), NEW letters,
         \A m \in letters : LetterOK(p, s, m)
  PROVE  LocalOK(p, Send(s, letters))
<1> DEFINE u == Send(s, letters)
<1>1. /\ Shape(u) /\ u.table = s.table /\ u.pending = s.pending
      /\ u.toPing = s.toPing /\ u.count = s.count
      /\ u.out = s.out (+) SetToBag(letters) /\ u.settled = s.settled
  <2>1. Shape(s)
    BY DEF LocalOK
  <2> QED BY <2>1 DEF Shape, Send
<1> HIDE DEF u
<1>2. Done(u) = Done(s)
  BY <1>1 DEF Done
<1>3. PeerOK(p, u, Done(u))
  BY <1>1, <1>2 DEF LocalOK, PeerOK, PendingOK, ToPingOK, CountOK
<1>4. ReachOK(p, u)
  BY <1>1 DEF LocalOK, ReachOK
<1>5. OutOK(p, u)
  <2>1. IsABag(s.out) /\ IsABag(u.out)
    BY <1>1 DEF LocalOK, OutOK, IsABag, SetToBag, (+)
  <2>2. BagToSet(u.out) = BagToSet(s.out) \cup letters
    BY <1>1 DEF BagToSet, SetToBag, (+)
  <2> QED BY <1>1, <2>1, <2>2 DEF LocalOK, OutOK, LetterOK, Numbers
<1>6. NewOK(p, u)
  BY <1>1 DEF LocalOK, NewOK
<1> QED BY <1>1, <1>2, <1>3, <1>4, <1>5, <1>6 DEF LocalOK, u

\* Numbers are given out.
LEMMA CountedOK ==
  ASSUME NEW p \in NodeId, NEW s, LocalOK(p, s), NEW number \in Nat,
         count \in [NodeId -> Nat]
  PROVE  LocalOK(p, Counted(s, number))
<1> DEFINE u == Counted(s, number)
<1>1. /\ Shape(u) /\ u.table = s.table /\ u.pending = s.pending
      /\ u.toPing = s.toPing /\ u.count = s.count + number
      /\ u.out = s.out /\ u.settled = s.settled
  <2>1. Shape(s)
    BY DEF LocalOK
  <2> QED BY <2>1 DEF Shape, Counted
<1> HIDE DEF u
<1>2. Done(u) = Done(s)
  BY <1>1 DEF Done
<1>3. s.count \in Nat /\ u.count \in Nat /\ u.count >= s.count
  BY <1>1 DEF LocalOK, PeerOK, CountOK
<1>4. PeerOK(p, u, Done(u))
  <2>1. PendingOK(p, u, Done(u))
    <3>1. \A r \in s.pending : r.id.n \in Nat
      BY DEF LocalOK, PeerOK, PendingOK, RequestOK, Request, MessageId
    <3> QED BY <1>1, <1>2, <1>3, <3>1 DEF LocalOK, PeerOK, PendingOK
  <2>2. ToPingOK(p, u, Done(u))
    BY <1>1, <1>2 DEF LocalOK, PeerOK, ToPingOK
  <2>3. CountOK(p, u, Done(u))
    <3>1. \A a \in Done(s) : a.request.id.n \in Nat
      BY DEF LocalOK, DoneOK, Settled, Request, MessageId
    <3> QED BY <1>1, <1>2, <1>3, <3>1 DEF LocalOK, PeerOK, CountOK
  <2> QED BY <1>1, <2>1, <2>2, <2>3 DEF LocalOK, PeerOK
<1>5. ReachOK(p, u)
  BY <1>1 DEF LocalOK, ReachOK
<1>6. OutOK(p, u)
  <2>1. ASSUME NEW m \in BagToSet(s.out)
        PROVE  LetterOK(p, u, m)
    <3>1. LetterOK(p, s, m) /\ m \in Message /\ m.id.n \in Nat /\ m.id.by \in NodeId
      BY DEF LocalOK, OutOK, LetterOK, MessageOK, Message, MessageId
    <3>2. m.id.n <= Numbers(p, u)[m.id.by]
      BY <1>3, <3>1 DEF LetterOK, MessageOK, Numbers
    <3> QED BY <1>1, <3>1, <3>2 DEF LetterOK, MessageOK
  <2> QED BY <1>1, <2>1 DEF LocalOK, OutOK
<1>7. NewOK(p, u)
  BY <1>1, <1>3 DEF LocalOK, NewOK
<1> QED BY <1>1, <1>2, <1>4, <1>5, <1>6, <1>7 DEF LocalOK, u

\* More is settled: what is known of the requests that wait stays.
LEMMA RequestStays ==
  ASSUME NEW p, NEW r, NEW done, NEW more, RequestOK(p, r, done), done \subseteq more
  PROVE  RequestOK(p, r, more)
<1>1. IdsOf(done) \subseteq IdsOf(more)
  BY DEF IdsOf
<1> QED BY <1>1 DEF RequestOK

\* Requests are sent, each under an id that nothing has had.
LEMMA AwaitOK ==
  ASSUME NEW p \in NodeId, NEW s, LocalOK(p, s), NEW requests,
         NEW subject \in NodeId \cup {NoNode},
         address \in [NodeId -> Address], count \in [NodeId -> Nat],
         \A r \in requests :
           /\ RequestOK(p, r, Done(s))
           /\ r.id.n <= s.count
           /\ r.id \notin IdsOf(Done(s))
           /\ \A q \in s.pending : q.id # r.id
           /\ \A e \in s.toPing : r.id # ForwardedId(e.node.id, e.id)
           /\ r.purpose = "key" =>
                r.held \in OnTheWay /\ (restarts = 0 => Reached(p, r.to))
           /\ r.type = "FIND_NODE" =>
                /\ r.id.n > count[p] /\ subject \in NodeId
                /\ \A m \in BagToSet(s.out) : m.id # r.id,
         \A q, r \in requests : q.id = r.id => q = r
  PROVE  LocalOK(p, SendAndWait(s, p, requests, subject))
<1> DEFINE letters == {Letter(p, r.to, r.type, r.id, subject, {}) : r \in requests}
           u == [s EXCEPT !.pending = s.pending \cup requests]
<1>1. /\ Shape(u) /\ u.table = s.table /\ u.pending = s.pending \cup requests
      /\ u.toPing = s.toPing /\ u.count = s.count
      /\ u.out = s.out /\ u.settled = s.settled
  <2>1. Shape(s)
    BY DEF LocalOK
  <2> QED BY <2>1 DEF Shape
<1>2. SendAndWait(s, p, requests, subject) = Send(u, letters)
  <2>1. Shape(s)
    BY DEF LocalOK
  <2>2. Send(s, letters) = [s EXCEPT !.out = s.out (+) SetToBag(letters)]
    BY DEF Send
  <2>3. Send(u, letters) = [u EXCEPT !.out = s.out (+) SetToBag(letters)]
    BY <1>1 DEF Send
  <2>4. SendAndWait(s, p, requests, subject)
          = [Send(s, letters) EXCEPT !.pending = @ \cup requests]
    BY DEF SendAndWait
  <2> HIDE DEF letters
  <2> QED BY <2>1, <2>2, <2>3, <2>4 DEF Shape
<1> HIDE DEF u, letters
<1>3. Done(u) = Done(s)
  BY <1>1 DEF Done
<1>4. PeerOK(p, u, Done(u))
  <2>1. PendingOK(p, u, Done(u))
    BY <1>1, <1>3 DEF LocalOK, PeerOK, PendingOK
  <2>2. ToPingOK(p, u, Done(u))
    BY <1>1, <1>3 DEF LocalOK, PeerOK, ToPingOK
  <2> QED BY <1>1, <1>3, <2>1, <2>2 DEF LocalOK, PeerOK, CountOK
<1>5. ReachOK(p, u)
  BY <1>1 DEF LocalOK, ReachOK
<1>6. OutOK(p, u)
  <2>1. ASSUME NEW m \in BagToSet(s.out)
        PROVE  LetterOK(p, u, m)
    BY <1>1 DEF LocalOK, OutOK, LetterOK, Numbers, AskedOne
  <2> QED BY <1>1, <2>1 DEF LocalOK, OutOK
<1>7. NewOK(p, u)
  BY <1>1 DEF LocalOK, NewOK
<1>8. LocalOK(p, u)
  BY <1>1, <1>3, <1>4, <1>5, <1>6, <1>7 DEF LocalOK
<1>9. ASSUME NEW r \in requests
      PROVE  LetterOK(p, u, Letter(p, r.to, r.type, r.id, subject, {}))
  <2> DEFINE m == Letter(p, r.to, r.type, r.id, subject, {})
  <2>1. /\ m.type = r.type /\ m.id = r.id /\ m.from = p /\ m.to = r.to.id
        /\ m.fromAddress = address[p] /\ m.subject = subject /\ m.nodes = {}
    BY DEF Letter
  <2>2. RequestOK(p, r, Done(s)) /\ r \in Request /\ r.id.by = p
    BY DEF RequestOK
  <2>3. m \in Message
    <3>1. /\ r.type \in Type /\ r.id \in MessageId
          /\ r.to.id \in NodeId \cup {NoNode} /\ r.to.address \in Address
      BY <2>2 DEF Request, Type, Contact
    <3>2. address[p] \in Address
      OBVIOUS
    <3> QED BY <3>1, <3>2 DEF Letter, Message
  <2>4. MessageOK(m, Numbers(p, u))
    <3>1. Numbers(p, u)[m.id.by] = s.count
      BY <1>1, <2>1, <2>2 DEF Numbers
    <3>2. m.type # "PING_FORWARD"
      BY <2>1, <2>2 DEF Request
    <3>3. m.type = "FIND_NODE" => m.subject \in NodeId
      BY <2>1
    <3>4. NamesOnce(m.nodes)
      BY <2>1 DEF NamesOnce
    <3> HIDE DEF m
    <3> QED BY <2>1, <2>3, <3>1, <3>2, <3>3, <3>4 DEF MessageOK
  <2> HIDE DEF m
  <2>5. m.type = "FIND_NODE" => \A q \in u.pending : AskedOne(q, m)
    BY <1>1, <2>1 DEF AskedOne
  <2>6. m.type # "FIND_NODE_REPLY"
    BY <2>1, <2>2 DEF Request
  <2> QED BY <2>1, <2>2, <2>4, <2>5, <2>6 DEF LetterOK, m
<1> QED
  <2>1. \A m \in letters : LetterOK(p, u, m)
    BY <1>9 DEF letters
  <2> QED BY <1>2, <1>8, <2>1, SendOK

\* An id with a number that has not been given out is nowhere.
LEMMA FreshFacts ==
  ASSUME NEW p \in NodeId, NEW s, LocalOK(p, s), NEW id \in MessageId,
         id.by = p, id.n > s.count
  PROVE  /\ id \notin IdsOf(Done(s))
         /\ \A q \in s.pending : q.id # id
         /\ \A e \in s.toPing : id # ForwardedId(e.node.id, e.id)
<1>1. s.count \in Nat /\ id.n \in Nat
  BY DEF LocalOK, PeerOK, CountOK, MessageId
<1>2. \A i \in IdsOf(Done(s)) : i.by = p => i.n <= s.count /\ i.n \in Nat
  <2>1. \A a \in Done(s) : a.request.id.n \in Nat
    BY DEF LocalOK, DoneOK, Settled, Request, MessageId
  <2> QED BY <2>1 DEF LocalOK, PeerOK, CountOK, IdsOf
<1>3. \A q \in s.pending : q.id.n <= s.count /\ q.id.n \in Nat
  BY DEF LocalOK, PeerOK, PendingOK, RequestOK, Request, MessageId
<1>4. ASSUME NEW e \in s.toPing
      PROVE  id # ForwardedId(e.node.id, e.id)
  <2>1. e.id \in MessageId /\ e.id.by = p /\ e.id \in IdsOf(Done(s))
    BY DEF LocalOK, PeerOK, ToPingOK
  <2>2. ForwardedId(e.node.id, e.id).n = e.id.n
    BY <2>1 DEF ForwardedId, MessageId
  <2> QED BY <1>1, <1>2, <2>1, <2>2
<1> QED BY <1>1, <1>2, <1>3, <1>4

Settle(s, r, answer) ==
  [s EXCEPT !.pending = @ \ {r},
            !.settled = @ \cup {[request |-> r, answer |-> answer]}]

\* A request is settled, by an answer or without one.
LEMMA SettleOK ==
  ASSUME NEW p \in NodeId, NEW s, LocalOK(p, s), NEW r \in s.pending,
         NEW answer \in NodeId \cup {NoNode},
         r.type = "FIND_NODE" => answer \in {r.to.id, NoNode}
  PROVE  LET u == Settle(s, r, answer)
         IN /\ LocalOK(p, u)
            /\ Done(u) = Done(s) \cup {[request |-> r, answer |-> answer]}
            /\ u.table = s.table /\ u.pending = s.pending \ {r}
            /\ u.toPing = s.toPing
<1> DEFINE a == [request |-> r, answer |-> answer]
           waiting == s.pending \ {r}
           over == s.settled \cup {a}
           u == [s EXCEPT !.pending = waiting, !.settled = over]
<1>1. /\ Shape(u) /\ u.table = s.table /\ u.pending = s.pending \ {r}
      /\ u.toPing = s.toPing /\ u.count = s.count
      /\ u.out = s.out /\ u.settled = s.settled \cup {a}
  <2>1. Shape(s)
    BY DEF LocalOK
  <2>2. s.pending \ {r} = waiting /\ s.settled \cup {a} = over
    OBVIOUS
  <2> HIDE DEF waiting, over
  <2>3. /\ Shape(u) /\ u.table = s.table /\ u.pending = waiting
        /\ u.toPing = s.toPing /\ u.count = s.count
        /\ u.out = s.out /\ u.settled = over
    <3> DEFINE v == [s EXCEPT !.pending = waiting]
    <3>1. /\ Shape(v) /\ v.table = s.table /\ v.pending = waiting
          /\ v.toPing = s.toPing /\ v.count = s.count
          /\ v.out = s.out /\ v.settled = s.settled
      BY <2>1 DEF Shape
    <3>2. u = [v EXCEPT !.settled = over]
      BY <2>1 DEF Shape
    <3> HIDE DEF u, v
    <3> QED BY <3>1, <3>2 DEF Shape
  <2> HIDE DEF u
  <2> QED BY <2>2, <2>3
<1>2. a.request = r /\ a.answer = answer
  OBVIOUS
<1> HIDE DEF u, a
<1>3. Done(u) = Done(s) \cup {a} /\ IdsOf(Done(u)) = IdsOf(Done(s)) \cup {r.id}
  BY <1>1, <1>2 DEF Done, IdsOf
<1>4. /\ RequestOK(p, r, Done(s)) /\ r.id.n <= s.count
      /\ r.id \notin IdsOf(Done(s)) /\ r.id.by = p /\ r \in Request
      /\ \A q \in s.pending : q.id = r.id => q = r
  BY DEF LocalOK, PeerOK, PendingOK, RequestOK
<1>5. PeerOK(p, u, Done(u))
  <2>1. PendingOK(p, u, Done(u))
    <3>1. \A q \in s.pending : RequestOK(p, q, Done(u))
      BY <1>3, RequestStays DEF LocalOK, PeerOK, PendingOK
    <3> QED BY <1>1, <1>3, <1>4, <3>1 DEF LocalOK, PeerOK, PendingOK
  <2>2. ToPingOK(p, u, Done(u))
    BY <1>1, <1>3 DEF LocalOK, PeerOK, ToPingOK
  <2>3. CountOK(p, u, Done(u))
    BY <1>1, <1>2, <1>3, <1>4 DEF LocalOK, PeerOK, CountOK
  <2> QED BY <1>1, <2>1, <2>2, <2>3 DEF LocalOK, PeerOK
<1>6. DoneOK(Done(u))
  <2>1. a \in Settled
    BY <1>4 DEF a, Settled
  <2>2. \A b \in Done(s) : b.request.id # r.id
    BY <1>4 DEF IdsOf
  <2>3. r.id.via # NoNode => Base(r.id) \in IdsOf(Done(s))
    BY <1>4 DEF RequestOK
  <2> QED BY <1>2, <1>3, <2>1, <2>2, <2>3 DEF LocalOK, DoneOK
<1>7. ReachOK(p, u)
  BY <1>1 DEF LocalOK, ReachOK
<1>8. OutOK(p, u)
  BY <1>1 DEF LocalOK, OutOK, LetterOK, Numbers
<1>9. NewOK(p, u)
  BY <1>1, <1>2, <1>4 DEF LocalOK, NewOK
<1>10. LocalOK(p, u)
  BY <1>1, <1>5, <1>6, <1>7, <1>8, <1>9 DEF LocalOK
<1>11. u = Settle(s, r, answer)
  BY DEF u, a, waiting, over, Settle
<1>12. Done(u) = Done(s) \cup {[request |-> r, answer |-> answer]}
  BY <1>3 DEF a
<1> QED BY <1>1, <1>10, <1>11, <1>12

\* The answer to a settled lookup names contacts.
LEMMA NamedOK ==
  ASSUME NEW p \in NodeId, NEW s, LocalOK(p, s), NEW id \in IdsOf(Done(s)),
         id.by = p, id.via = NoNode, NoNode \notin NodeId,
         \A e \in s.toPing : e.id # id,
         \A i \in IdsOf(Done(s)) : Base(i) = id => i = id,
         \A q \in s.pending : Base(q.id) # id,
         NEW new \in SUBSET [node : Node, id : {id}],
         \A e, f \in new : e.node.id = f.node.id => e = f
  PROVE  LocalOK(p, [s EXCEPT !.toPing = @ \cup new])
<1> DEFINE named == s.toPing \cup new
           u == [s EXCEPT !.toPing = named]
<1>1. /\ Shape(u) /\ u.table = s.table /\ u.pending = s.pending
      /\ u.toPing = s.toPing \cup new /\ u.count = s.count
      /\ u.out = s.out /\ u.settled = s.settled
  <2>1. Shape(s)
    BY DEF LocalOK
  <2>2. s.toPing \cup new = named
    OBVIOUS
  <2> HIDE DEF named
  <2> QED BY <2>1, <2>2 DEF Shape
<1> HIDE DEF u
<1>2. Done(u) = Done(s)
  BY <1>1 DEF Done
<1>3. id \in MessageId
  BY DEF LocalOK, DoneOK, IdsOf, Settled, Request
<1>4. ToPingOK(p, u, Done(u))
  <2>1. ASSUME NEW e \in new
        PROVE  /\ e \in [node : Node, id : MessageId]
               /\ e.id = id
               /\ ForwardedId(e.node.id, e.id) \notin IdsOf(Done(s))
               /\ \A r \in s.pending : r.id # ForwardedId(e.node.id, e.id)
    <3>1. e.id = id /\ e.node \in Node /\ e.node.id \in NodeId
      BY DEF Node
    <3> DEFINE f == ForwardedId(e.node.id, e.id)
    <3>2. f.via = e.node.id /\ f # id /\ Base(f) = id
      BY <1>3, <3>1 DEF ForwardedId, Base, MessageId
    <3> QED BY <1>3, <3>1, <3>2
  <2> QED BY <1>1, <1>2, <2>1 DEF LocalOK, PeerOK, ToPingOK
<1>5. PeerOK(p, u, Done(u))
  BY <1>1, <1>2, <1>4 DEF LocalOK, PeerOK, PendingOK, CountOK
<1>6. ReachOK(p, u)
  BY <1>1 DEF LocalOK, ReachOK
<1>7. OutOK(p, u)
  <2>1. \A m \in BagToSet(s.out) : LetterOK(p, s, m)
    BY DEF LocalOK, OutOK
  <2>2. ASSUME NEW m, LetterOK(p, s, m)
        PROVE  LetterOK(p, u, m)
    BY <1>1, <2>2 DEF LetterOK, Numbers
  <2> QED BY <1>1, <2>1, <2>2 DEF LocalOK, OutOK
<1>8. NewOK(p, u)
  BY <1>1 DEF LocalOK, NewOK
<1> QED BY <1>1, <1>2, <1>5, <1>6, <1>7, <1>8 DEF LocalOK, u

LEMMA BoundsFacts ==
  ASSUME BoundsOK
  PROVE  /\ address \in [NodeId -> Address] /\ count \in [NodeId -> Nat]
         /\ NoNode \notin NodeId
BY RPCAssumption DEF BoundsOK

LEMMA CountFirst ==
  ASSUME NEW p, NEW s, Shape(s), NEW requests, NEW subject, NEW number
  PROVE  Counted(SendAndWait(s, p, requests, subject), number)
           = SendAndWait(Counted(s, number), p, requests, subject)
<1> DEFINE letters == {Letter(p, r.to, r.type, r.id, subject, {}) : r \in requests}
           out == s.out (+) SetToBag(letters)
           waiting == s.pending \cup requests
           given == s.count + number
<1>1. SendAndWait(s, p, requests, subject)
        = [[s EXCEPT !.out = out] EXCEPT !.pending = waiting]
  <2>1. [s EXCEPT !.out = out].pending = s.pending
    <3> HIDE DEF out
    <3> QED BY DEF Shape
  <2> QED BY <2>1 DEF SendAndWait, Send
<1>2. SendAndWait(Counted(s, number), p, requests, subject)
        = [[[s EXCEPT !.count = given] EXCEPT !.out = out] EXCEPT !.pending = waiting]
  <2>1. Counted(s, number) = [s EXCEPT !.count = given]
    BY DEF Counted
  <2>2. [s EXCEPT !.count = given].out = s.out
    <3> HIDE DEF given
    <3> QED BY DEF Shape
  <2>3. [[s EXCEPT !.count = given] EXCEPT !.out = out].pending = s.pending
    <3> HIDE DEF given, out
    <3> QED BY DEF Shape
  <2> QED BY <2>1, <2>2, <2>3 DEF SendAndWait, Send
<1>3. Counted(SendAndWait(s, p, requests, subject), number)
        = [[[s EXCEPT !.out = out] EXCEPT !.pending = waiting] EXCEPT !.count = given]
  <2>1. [[s EXCEPT !.out = out] EXCEPT !.pending = waiting].count = s.count
    <3> HIDE DEF out, waiting
    <3> QED BY DEF Shape
  <2> QED BY <1>1, <2>1 DEF Counted
<1>4. [[[s EXCEPT !.out = out] EXCEPT !.pending = waiting] EXCEPT !.count = given]
        = [[[s EXCEPT !.count = given] EXCEPT !.out = out] EXCEPT !.pending = waiting]
  <2> HIDE DEF out, waiting, given
  <2> QED BY DEF Shape
<1> QED BY <1>2, <1>3, <1>4

\* Requests with the next numbers are sent.
LEMMA FreshOK ==
  ASSUME NEW p \in NodeId, NEW s, LocalOK(p, s), BoundsOK, NEW requests,
         NEW subject \in NodeId \cup {NoNode}, NEW number \in Nat,
         \A r \in requests :
           /\ RequestOK(p, r, Done(s))
           /\ s.count < r.id.n /\ r.id.n <= s.count + number
           /\ r.purpose = "key" =>
                r.held \in OnTheWay /\ (restarts = 0 => Reached(p, r.to))
           /\ r.type = "FIND_NODE" => subject \in NodeId,
         \A q, r \in requests : q.id = r.id => q = r
  PROVE  LocalOK(p, Counted(SendAndWait(s, p, requests, subject), number))
<1> DEFINE u == Counted(s, number)
<1>1. /\ Shape(u) /\ u.table = s.table /\ u.pending = s.pending
      /\ u.toPing = s.toPing /\ u.count = s.count + number
      /\ u.out = s.out /\ u.settled = s.settled /\ Shape(s)
  <2>1. Shape(s)
    BY DEF LocalOK
  <2> QED BY <2>1 DEF Shape, Counted
<1>2. LocalOK(p, u)
  BY CountedOK, BoundsFacts
<1> HIDE DEF u
<1>3. Done(u) = Done(s)
  BY <1>1 DEF Done
<1>4. s.count \in Nat /\ count[p] \in Nat /\ s.count >= count[p]
  BY BoundsFacts DEF LocalOK, PeerOK, CountOK, NewOK
<1>5. ASSUME NEW r \in requests
      PROVE  /\ r.id.n <= u.count
             /\ r.id \notin IdsOf(Done(u))
             /\ \A q \in u.pending : q.id # r.id
             /\ \A e \in u.toPing : r.id # ForwardedId(e.node.id, e.id)
             /\ r.id.n > count[p]
             /\ \A m \in BagToSet(u.out) : m.id # r.id
  <2>1. r.id \in MessageId /\ r.id.by = p /\ r.id.n \in Nat
    BY DEF RequestOK, Request, MessageId
  <2>2. /\ r.id \notin IdsOf(Done(s))
        /\ \A q \in s.pending : q.id # r.id
        /\ \A e \in s.toPing : r.id # ForwardedId(e.node.id, e.id)
    BY <1>4, <2>1, FreshFacts
  <2>3. ASSUME NEW m \in BagToSet(s.out)
        PROVE  m.id # r.id
    <3>1. LetterOK(p, s, m) /\ m.id \in MessageId
      BY DEF LocalOK, OutOK, LetterOK, MessageOK, Message
    <3>2. m.id.by = p => m.id.n <= s.count
      BY <3>1, BoundsFacts DEF LetterOK, MessageOK, Numbers
    <3> QED BY <1>4, <2>1, <3>2
  <2> QED BY <1>1, <1>3, <1>4, <2>1, <2>2, <2>3
<1>6. LocalOK(p, SendAndWait(u, p, requests, subject))
  BY <1>2, <1>3, <1>5, AwaitOK, BoundsFacts
<1> QED BY <1>1, <1>6, CountFirst DEF u

LEMMA PingOK ==
  ASSUME NEW p \in NodeId, NEW s, LocalOK(p, s), BoundsOK, NEW to \in Contact,
         NEW purpose \in {"key", "boot"}, NEW held \in Message \cup {NoNode},
         purpose = "key" =>
           /\ to \in Node /\ held \in Message /\ held.to = p
           /\ held.type \notin {"PING", "PING_REPLY"}
           /\ held \in OnTheWay
           /\ restarts = 0 => Reached(p, to)
  PROVE  LocalOK(p, Ping(s, p, to, purpose, held))
<1> DEFINE r == Awaited(to, "PING", FreshId(s, p, 1), purpose, held)
<1>1. s.count \in Nat
  BY DEF LocalOK, PeerOK, CountOK
<1>2. FreshId(s, p, 1) = [by |-> p, n |-> s.count + 1, via |-> NoNode]
  BY DEF FreshId
<1>3. r = [id |-> FreshId(s, p, 1), type |-> "PING", to |-> to,
           purpose |-> purpose, held |-> held]
  BY DEF Awaited
<1>4. FreshId(s, p, 1) \in MessageId
  BY <1>1, <1>2 DEF MessageId
<1> HIDE DEF r
<1>5. r \in Request
  BY <1>3, <1>4 DEF Request
<1>6. RequestOK(p, r, Done(s))
  BY <1>2, <1>3, <1>5 DEF RequestOK
<1>7. LocalOK(p, Counted(SendAndWait(s, p, {r}, NoNode), 1))
  <2>1. s.count < r.id.n /\ r.id.n <= s.count + 1
    BY <1>1, <1>2, <1>3
  <2>2. r.type # "FIND_NODE" /\ r.purpose = purpose /\ r.held = held /\ r.to = to
    BY <1>3
  <2> QED BY <1>6, <2>1, <2>2, FreshOK
<1> QED BY <1>7 DEF Ping, r

LEMMA LeastRecentFacts ==
  ASSUME NEW b \in Bucket
  PROVE  GetLeastRecentNodes(b, Concurrency) \in Seq(Node)
<1> DEFINE s == Reverse(b.nodes)
           n == IF Concurrency < Len(b.nodes) THEN Concurrency ELSE Len(b.nodes)
<1>1. /\ b.nodes \in Seq(Node) /\ Len(b.nodes) \in Nat
      /\ DOMAIN b.nodes = 1 .. Len(b.nodes)
      /\ \A i \in 1 .. Len(b.nodes) : b.nodes[i] \in Node
  BY LenProperties, ElementOfSeq DEF Bucket
<1>2. n \in Nat /\ n <= Len(b.nodes)
  BY <1>1, RPCAssumption
<1>3. \A i \in 1 .. n : s[i] \in Node
  <2>1. \A i \in 1 .. Len(b.nodes) : s[i] = b.nodes[(Len(b.nodes) - i) + 1]
    BY DEF Reverse
  <2> HIDE DEF s, n
  <2> QED BY <1>1, <1>2, <2>1
<1>4. 1 \in Int /\ n \in Int
  BY <1>2
<1> HIDE DEF s, n
<1>5. SubSeq(s, 1, n) \in Seq(Node)
  BY <1>3, <1>4, SubSeqProperties
<1> QED BY <1>5 DEF s, n, GetLeastRecentNodes

LEMMA AdmitOK ==
  ASSUME NEW p \in NodeId, NEW s, LocalOK(p, s), BoundsOK, NEW node \in Node,
         restarts = 0 => Reached(p, node)
  PROVE  /\ LocalOK(p, Admit(s, p, node))
         /\ Admit(s, p, node).settled = s.settled
         /\ \A r \in Admit(s, p, node).pending : r \in s.pending \/ r.purpose = "evict"
<1> DEFINE after  == TableWith(s.table, p, node)
           b      == after[BucketOf(p, node.id)]
           oldest == IF Overflows(s.table, p, node)
                     THEN GetLeastRecentNodes(b, Concurrency) ELSE <<>>
           Evict(x) == Awaited(oldest[x], "PING", FreshId(s, p, x), "evict", NoNode)
           pings  == {Evict(x) : x \in DOMAIN oldest}
           t      == [s EXCEPT !.table = after]
           u      == Counted(SendAndWait(t, p, pings, NoNode), Len(oldest))
<1>1. node.id \in NodeId
  BY DEF Node
<1>2. TableOK(s.table, p) /\ Shape(s) /\ s.count \in Nat
  BY DEF LocalOK, PeerOK, CountOK
<1>3. TableOK(after, p) /\ \A o \in Filed(after) : o = node \/ o \in Filed(s.table)
  BY <1>2, TableWithOK DEF Filed
<1>4. LocalOK(p, t)
  <2>1. restarts = 0 => \A o \in Filed(after) : Reached(p, o)
    BY <1>3 DEF LocalOK, ReachOK
  <2> HIDE DEF after
  <2> QED BY <1>3, <2>1, TableChanges
<1>5. /\ Shape(t) /\ t.table = after /\ t.pending = s.pending
      /\ t.count = s.count /\ t.out = s.out /\ t.settled = s.settled
  <2> HIDE DEF after
  <2> QED BY <1>2 DEF Shape
<1>6. oldest \in Seq(Node)
  <2>1. b \in Bucket
    BY <1>1, <1>3, BucketInRange DEF TableOK, Table
  <2> HIDE DEF b
  <2>2. GetLeastRecentNodes(b, Concurrency) \in Seq(Node)
    BY <2>1, LeastRecentFacts
  <2> QED BY <2>2, EmptySeq
<1>7. Admit(s, p, node) = u
  BY DEF Admit
<1> HIDE DEF t, oldest
<1>8. /\ Len(oldest) \in Nat /\ DOMAIN oldest = 1 .. Len(oldest)
      /\ \A x \in DOMAIN oldest : oldest[x] \in Node
  BY <1>6, LenProperties, ElementOfSeq
<1>9. ASSUME NEW x \in DOMAIN oldest
      PROVE  /\ RequestOK(p, Evict(x), Done(t))
             /\ Evict(x).id.n = t.count + x /\ Evict(x).purpose = "evict"
             /\ Evict(x).type = "PING"
  <2>1. x \in Nat /\ oldest[x] \in Node
    BY <1>8
  <2>2. FreshId(s, p, x) = [by |-> p, n |-> s.count + x, via |-> NoNode]
    BY DEF FreshId
  <2>3. FreshId(s, p, x) \in MessageId
    BY <1>2, <2>1, <2>2 DEF MessageId
  <2>4. oldest[x] \in Contact
    BY <2>1 DEF Node, Contact
  <2>5. Evict(x) = [id |-> FreshId(s, p, x), type |-> "PING", to |-> oldest[x],
                    purpose |-> "evict", held |-> NoNode]
    BY DEF Awaited
  <2> HIDE DEF Evict
  <2>6. Evict(x) \in Request
    BY <2>3, <2>4, <2>5 DEF Request
  <2> QED BY <1>5, <2>1, <2>2, <2>5, <2>6 DEF RequestOK
<1> HIDE DEF Evict
<1>10. LocalOK(p, u)
  <2>1. ASSUME NEW q \in pings, NEW r \in pings, q.id = r.id
        PROVE  q = r
    <3>1. PICK x \in DOMAIN oldest : q = Evict(x)
      OBVIOUS
    <3>2. PICK y \in DOMAIN oldest : r = Evict(y)
      OBVIOUS
    <3>3. t.count + x = t.count + y
      BY <2>1, <1>9, <3>1, <3>2
    <3> QED BY <1>2, <1>5, <1>8, <3>1, <3>2, <3>3
  <2>2. ASSUME NEW r \in pings
        PROVE  /\ RequestOK(p, r, Done(t))
               /\ t.count < r.id.n /\ r.id.n <= t.count + Len(oldest)
               /\ r.purpose # "key" /\ r.type # "FIND_NODE"
    <3>1. PICK x \in DOMAIN oldest : r = Evict(x)
      OBVIOUS
    <3>2. x \in Nat /\ 1 <= x /\ x <= Len(oldest) /\ t.count \in Nat
      BY <1>2, <1>5, <1>8
    <3> QED BY <1>8, <1>9, <3>1, <3>2
  <2> HIDE DEF pings
  <2> QED BY <1>4, <1>8, <2>1, <2>2, FreshOK
<1>11. u.settled = s.settled /\ u.pending = s.pending \cup pings
  <2> DEFINE letters == {Letter(p, r.to, r.type, r.id, NoNode, {}) : r \in pings}
             out == t.out (+) SetToBag(letters)
             waiting == t.pending \cup pings
             given == t.count + Len(oldest)
  <2>1. SendAndWait(t, p, pings, NoNode)
          = [[t EXCEPT !.out = out] EXCEPT !.pending = waiting]
    <3>1. [t EXCEPT !.out = out].pending = t.pending
      <4> HIDE DEF out
      <4> QED BY <1>5 DEF Shape
    <3> QED BY <3>1 DEF SendAndWait, Send
  <2>2. [[t EXCEPT !.out = out] EXCEPT !.pending = waiting].count = t.count
    <3> HIDE DEF out, waiting
    <3> QED BY <1>5 DEF Shape
  <2>3. u = [[[t EXCEPT !.out = out] EXCEPT !.pending = waiting] EXCEPT !.count = given]
    BY <2>1, <2>2 DEF Counted
  <2>4. u.settled = t.settled /\ u.pending = waiting
    <3> HIDE DEF out, waiting, given, u
    <3> QED BY <1>5, <2>3 DEF Shape
  <2> QED BY <1>5, <2>4
<1>12. \A r \in pings : r.purpose = "evict"
  BY <1>9
<1> HIDE DEF u, pings
<1> QED BY <1>7, <1>10, <1>11, <1>12

-----------------------------------------------------------------------------
(* Handlers.                                                               *)

\* A letter that answers a message, or passes it on.
LEMMA AnswerLetterOK ==
  ASSUME NEW p \in NodeId, NEW s, LocalOK(p, s), BoundsOK, NEW m, HandledOK(p, m),
         NEW to \in Node,
         NEW type \in {"PING_REPLY", "FIND_NODE_REPLY", "PING_FORWARD"},
         NEW id \in MessageId, id.by = m.id.by, id.n = m.id.n,
         NEW nodes \in SUBSET Node, NamesOnce(nodes),
         type = "PING_FORWARD" => nodes # {},
         type = "FIND_NODE_REPLY" => m.type = "FIND_NODE" /\ id = m.id
  PROVE  LetterOK(p, s, Letter(p, to, type, id, NoNode, nodes))
<1> DEFINE l == Letter(p, to, type, id, NoNode, nodes)
<1>1. /\ l.type = type /\ l.id = id /\ l.from = p /\ l.fromAddress = address[p]
      /\ l.nodes = nodes
  BY DEF Letter
<1>2. l \in Message
  <2>1. address[p] \in Address /\ to.id \in NodeId /\ to.address \in Address
    BY BoundsFacts DEF Node
  <2> QED BY <2>1 DEF Letter, Message, Type
<1> HIDE DEF l
<1>3. l.id.n <= Numbers(p, s)[l.id.by]
  <2>1. m.id.n <= count[m.id.by] /\ m.id \in MessageId /\ m.id.by \in NodeId
    BY DEF HandledOK, MessageOK, Message, MessageId
  <2>2. s.count \in Nat /\ s.count >= count[p] /\ count \in [NodeId -> Nat]
    BY BoundsFacts DEF LocalOK, PeerOK, CountOK, NewOK
  <2>3. m.id.n \in Nat
    BY <2>1 DEF MessageId
  <2>4. m.id.n <= Numbers(p, s)[m.id.by]
    BY <2>1, <2>2, <2>3 DEF Numbers
  <2> QED BY <1>1, <2>4
<1>4. MessageOK(l, Numbers(p, s))
  BY <1>1, <1>2, <1>3 DEF MessageOK
<1>5. l.type = "FIND_NODE_REPLY" =>
        \E f \in OnTheWay : f.type = "FIND_NODE" /\ f.id = l.id /\ f.to = p
  BY <1>1 DEF HandledOK
<1> QED BY <1>1, <1>4, <1>5 DEF LetterOK, l

LEMMA ReplyOK ==
  ASSUME NEW p \in NodeId, NEW s, LocalOK(p, s), BoundsOK, NEW m, HandledOK(p, m),
         m.type \in {"PING", "FIND_NODE"}, NEW to \in Node,
         NEW nodes \in SUBSET Node, NamesOnce(nodes)
  PROVE  LocalOK(p, Reply(s, p, to, m, nodes))
<1> DEFINE type == IF m.type = "PING" THEN "PING_REPLY" ELSE "FIND_NODE_REPLY"
<1>1. m.id \in MessageId
  BY DEF HandledOK, MessageOK, Message
<1>2. LetterOK(p, s, Letter(p, to, type, m.id, NoNode, nodes))
  <2>1. type = "PING_REPLY" \/ (type = "FIND_NODE_REPLY" /\ m.type = "FIND_NODE")
    OBVIOUS
  <2> HIDE DEF type
  <2> QED BY <1>1, <2>1, AnswerLetterOK
<1> HIDE DEF type
<1>3. LocalOK(p, Send(s, {Letter(p, to, type, m.id, NoNode, nodes)}))
  BY <1>2, SendOK
<1> QED BY <1>3 DEF Reply, type

LEMMA AnswerFindOK ==
  ASSUME NEW p \in NodeId, NEW s, LocalOK(p, s), BoundsOK, NEW m, HandledOK(p, m),
         m.type = "FIND_NODE", NEW node \in Node
  PROVE  LocalOK(p, AnswerFind(s, p, node, m))
<1> DEFINE closest == GetClosestNodes(s.table, p, m.subject, NodesPerBucket)
           named == {n \in ToSet(closest) : n.id # node.id}
           forwards == {Letter(p, n, "PING_FORWARD", m.id, NoNode, {node}) :
                          n \in named}
<1>1. m.id \in MessageId /\ m.subject \in NodeId
  BY DEF HandledOK, MessageOK, Message
<1>2. TableOK(s.table, p)
  BY DEF LocalOK, PeerOK
<1>3. closest \in Seq(Node) /\ Distinct(closest)
  BY <1>1, <1>2, ClosestFacts, BucketInRange
<1> HIDE DEF closest
<1>4. named \in SUBSET Node /\ NamesOnce(named)
  <2>1. DOMAIN closest = 1 .. Len(closest) /\ \A x \in DOMAIN closest : closest[x] \in Node
    BY <1>3, LenProperties, ElementOfSeq
  <2>2. \A x, y \in ToSet(closest) : x.id = y.id => x = y
    BY <1>3 DEF ToSet, Distinct
  <2> QED BY <2>1, <2>2 DEF NamesOnce, ToSet
<1>5. AnswerFind(s, p, node, m) = Reply(Send(s, forwards), p, node, m, named)
  BY DEF AnswerFind, closest
<1> HIDE DEF named
<1>6. LocalOK(p, Send(s, forwards))
  <2>1. ASSUME NEW n \in named
        PROVE  LetterOK(p, s, Letter(p, n, "PING_FORWARD", m.id, NoNode, {node}))
    <3>1. NamesOnce({node})
      BY DEF NamesOnce
    <3>2. n \in Node
      BY <1>4
    <3> QED BY <1>1, <3>1, <3>2, AnswerLetterOK
  <2>2. \A l \in forwards : LetterOK(p, s, l)
    BY <2>1
  <2> HIDE DEF forwards
  <2> QED BY <2>2, SendOK
<1> HIDE DEF forwards
<1>7. LocalOK(p, Reply(Send(s, forwards), p, node, m, named))
  BY <1>4, <1>6, ReplyOK
<1> QED BY <1>5, <1>7

LEMMA AnswerForwardOK ==
  ASSUME NEW p \in NodeId, NEW s, LocalOK(p, s), BoundsOK, NEW m, HandledOK(p, m),
         m.type = "PING_FORWARD"
  PROVE  LocalOK(p, AnswerForward(s, p, m))
<1> DEFINE asker == CHOOSE node \in m.nodes : TRUE
<1>1. m.id \in MessageId /\ m.nodes \in SUBSET Node /\ m.nodes # {}
  BY DEF HandledOK, MessageOK, Message
<1>2. asker \in Node
  BY <1>1
<1> HIDE DEF asker
<1>3. LetterOK(p, s, Letter(p, asker, "PING_REPLY", ForwardedId(p, m.id), NoNode, {}))
  <2>1. /\ ForwardedId(p, m.id) \in MessageId
        /\ ForwardedId(p, m.id).by = m.id.by /\ ForwardedId(p, m.id).n = m.id.n
    BY <1>1 DEF ForwardedId, MessageId
  <2>2. NamesOnce({})
    BY DEF NamesOnce
  <2> QED BY <1>2, <2>1, <2>2, AnswerLetterOK
<1>4. LocalOK(p, Send(s, {Letter(p, asker, "PING_REPLY", ForwardedId(p, m.id),
                                 NoNode, {})}))
  BY <1>3, SendOK
<1> QED BY <1>4 DEF AnswerForward, asker

LEMMA ResolveOK ==
  ASSUME NEW p \in NodeId, NEW s, LocalOK(p, s), BoundsOK, NEW m, HandledOK(p, m),
         NEW r \in s.pending, Answers(r, m)
  PROVE  LET a == [request |-> r, answer |-> m.from]
         IN /\ LocalOK(p, Resolve(s, r, m))
            /\ Done(Resolve(s, r, m)) = Done(s) \cup {a}
            /\ Resolve(s, r, m).table = s.table
            /\ Resolve(s, r, m).pending = s.pending \ {r}
            /\ Resolve(s, r, m).toPing = s.toPing
<1>1. m.from \in NodeId
  BY DEF HandledOK, MessageOK, Message
<1>2. r.type = "FIND_NODE" => m.from = r.to.id
  <2>1. SUFFICES ASSUME r.type = "FIND_NODE" PROVE m.from = r.to.id
    OBVIOUS
  <2>2. r.id = m.id /\ m.type = "FIND_NODE_REPLY"
    BY <2>1 DEF Answers
  <2>3. r.id \in MessageId /\ r.id.by = p /\ r.id.n \in Nat
    BY DEF LocalOK, PeerOK, PendingOK, RequestOK, Request, MessageId
  <2>4. m.id.n <= count[p] /\ count[p] \in Nat
    BY <2>2, <2>3, BoundsFacts DEF HandledOK, MessageOK
  <2>5. r \in pending[p]
    BY <2>1, <2>2, <2>3, <2>4 DEF LocalOK, NewOK
  <2> QED BY <2>1, <2>2, <2>5 DEF HandledOK, AskedOne
<1>3. r.type = "FIND_NODE" => m.from \in {r.to.id, NoNode}
  BY <1>2
<1>4. Resolve(s, r, m) = Settle(s, r, m.from)
  BY DEF Resolve, Settle
<1> QED BY <1>1, <1>3, <1>4, SettleOK

LEMMA HandleOK ==
  ASSUME NEW p \in NodeId, NEW s, LocalOK(p, s), BoundsOK, NEW m, HandledOK(p, m),
         m.type # "PING_REPLY", NEW node \in Node, restarts = 0 => Reached(p, node)
  PROVE  LocalOK(p, Handle(s, p, node, m))
<1> DEFINE t  == Admit(s, p, node)
           rs == {r \in t.pending : Answers(r, m)}
           r  == CHOOSE r \in rs : TRUE
           u  == Resolve(t, r, m)
           v  == [u EXCEPT !.toPing = @ \cup Named(p, m)]
           replied   == Reply(t, p, node, m, {})
           found     == AnswerFind(t, p, node, m)
           forwarded == AnswerForward(t, p, m)
<1>1. LocalOK(p, t)
  BY AdmitOK
<1>7. Handle(s, p, node, m) = CASE m.type = "PING" -> replied
                                [] m.type = "FIND_NODE" -> found
                                [] m.type = "PING_FORWARD" -> forwarded
                                [] rs # {} -> v
                                [] OTHER -> t
  BY DEF Handle
<1>8. rs # {} => m.type \in {"PING_REPLY", "FIND_NODE_REPLY"}
  BY DEF Answers
<1> HIDE DEF t, r, u, v, replied, found, forwarded, rs
<1>2. CASE m.type = "PING"
  <2>1. Handle(s, p, node, m) = Reply(t, p, node, m, {})
    BY <1>2, <1>7, <1>8 DEF replied
  <2>2. NamesOnce({})
    BY DEF NamesOnce
  <2> QED BY <1>1, <1>2, <2>1, <2>2, ReplyOK
<1>3. CASE m.type = "FIND_NODE"
  <2>1. Handle(s, p, node, m) = AnswerFind(t, p, node, m)
    BY <1>3, <1>7, <1>8 DEF found
  <2> QED BY <1>1, <1>3, <2>1, AnswerFindOK
<1>4. CASE m.type = "PING_FORWARD"
  <2>1. Handle(s, p, node, m) = AnswerForward(t, p, m)
    BY <1>4, <1>7, <1>8 DEF forwarded
  <2> QED BY <1>1, <1>4, <2>1, AnswerForwardOK
<1>5. CASE m.type \notin {"PING", "FIND_NODE", "PING_FORWARD"} /\ rs # {}
  <2> DEFINE nodes == {n \in m.nodes : n.id # p}
             new == {[node |-> n, id |-> m.id] : n \in nodes}
  <2>1. Handle(s, p, node, m) = v
    BY <1>5, <1>7
  <2>2. r \in t.pending /\ Answers(r, m)
    BY <1>5 DEF r, rs
  <2>3. /\ LocalOK(p, u) /\ u.pending = t.pending \ {r} /\ u.toPing = t.toPing
        /\ Done(u) = Done(t) \cup {[request |-> r, answer |-> m.from]}
    BY <1>1, <2>2, ResolveOK DEF u
  <2>4. r.id = m.id /\ r.type = "FIND_NODE"
    <3>1. m.type # "PING_REPLY"
      OBVIOUS
    <3> QED BY <2>2, <3>1 DEF Answers
  <2>5. /\ r.id \in MessageId /\ r.id.by = p /\ r.id.via = NoNode
        /\ r.id \notin IdsOf(Done(t))
        /\ \A q \in t.pending : q.id = r.id => q = r
        /\ \A q \in t.pending : RequestOK(p, q, Done(t))
    <3>1. RequestOK(p, r, Done(t)) /\ r.purpose = "find"
      BY <1>1, <2>2, <2>4 DEF LocalOK, PeerOK, PendingOK, RequestOK
    <3> QED BY <1>1, <2>2, <3>1 DEF LocalOK, PeerOK, PendingOK, RequestOK, Request
  <2>6. IdsOf(Done(u)) = IdsOf(Done(t)) \cup {r.id}
    <3>1. \A a : a = [request |-> r, answer |-> m.from] => a.request.id = r.id
      OBVIOUS
    <3> QED BY <2>3, <3>1 DEF IdsOf
  <2>7. \A e \in u.toPing : e.id # m.id
    BY <1>1, <2>3, <2>4, <2>5 DEF LocalOK, PeerOK, ToPingOK
  <2>8. ASSUME NEW i \in IdsOf(Done(u)), Base(i) = m.id
        PROVE  i = m.id
    <3>1. CASE i.via = NoNode
      <4>1. i \in MessageId
        BY <2>3 DEF LocalOK, DoneOK, IdsOf, Settled, Request
      <4>2. Base(i) = i
        BY <3>1, <4>1 DEF Base, MessageId
      <4> QED BY <2>8, <4>2
    <3>2. CASE i.via # NoNode /\ i \in IdsOf(Done(t))
      <4>1. Base(i) \in IdsOf(Done(t))
        BY <1>1, <3>2 DEF LocalOK, DoneOK, IdsOf
      <4> QED BY <2>4, <2>5, <2>8, <4>1
    <3> QED BY <2>4, <2>5, <2>6, <3>1, <3>2
  <2>9. ASSUME NEW q \in u.pending
        PROVE  Base(q.id) # m.id
    <3>1. q \in t.pending /\ q # r /\ RequestOK(p, q, Done(t))
      BY <2>3, <2>5
    <3>2. CASE q.purpose = "punch"
      BY <2>4, <2>5, <3>1, <3>2 DEF RequestOK
    <3>3. CASE q.purpose # "punch"
      <4>1. q.id.via = NoNode /\ q.id \in MessageId
        BY <3>1, <3>3 DEF RequestOK, Request
      <4>2. Base(q.id) = q.id
        BY <4>1 DEF Base, MessageId
      <4> QED BY <2>4, <2>5, <3>1, <4>2
    <3> QED BY <3>2, <3>3
  <2>10. nodes \in SUBSET Node /\ NamesOnce(nodes)
    BY DEF HandledOK, MessageOK, Message, NamesOnce
  <2>11. m.id \in IdsOf(Done(u)) /\ m.id.by = p /\ m.id.via = NoNode
    BY <2>4, <2>5, <2>6
  <2>14. new \in SUBSET [node : Node, id : {m.id}]
    BY <2>10
  <2>15. \A e, f \in new : e.node.id = f.node.id => e = f
    BY <2>10 DEF NamesOnce
  <2> HIDE DEF new
  <2>12. LocalOK(p, [u EXCEPT !.toPing = @ \cup new])
    BY <2>3, <2>7, <2>8, <2>9, <2>11, <2>14, <2>15, NamedOK, BoundsFacts
  <2>13. v = [u EXCEPT !.toPing = @ \cup new]
    BY DEF v, Named, nodes, new
  <2> QED BY <2>1, <2>12, <2>13
<1>6. CASE m.type \notin {"PING", "FIND_NODE", "PING_FORWARD"} /\ rs = {}
  <2>1. Handle(s, p, node, m) = t
    BY <1>6, <1>7
  <2> QED BY <1>1, <2>1
<1> QED BY <1>2, <1>3, <1>4, <1>5, <1>6

LEMMA HandlePingReplyOK ==
  ASSUME NEW p \in NodeId, NEW s, LocalOK(p, s), BoundsOK, NEW m, HandledOK(p, m),
         m.type = "PING_REPLY", NEW node \in Node, restarts = 0 => Reached(p, node),
         \A h \in OnTheWay : MessageOK(h, count),
         \A r \in pending[p], h \in OnTheWay : AskedOne(r, h)
  PROVE  LocalOK(p, HandlePingReply(s, p, node, m))
<1> DEFINE t  == Admit(s, p, node)
           rs == {r \in t.pending : Answers(r, m)}
           r  == CHOOSE r \in rs : TRUE
           u  == Resolve(t, r, m)
<1>1. LocalOK(p, t)
  BY AdmitOK
<1> HIDE DEF t
<1>2. CASE rs = {}
  <2>1. HandlePingReply(s, p, node, m) = t
    BY <1>2 DEF HandlePingReply, t
  <2> QED BY <1>1, <2>1
<1>3. CASE rs # {}
  <2>1. r \in t.pending /\ Answers(r, m)
    BY <1>3
  <2>2. HandlePingReply(s, p, node, m) =
          CASE r.purpose # "key" -> u
            [] r.purpose = "key" /\ r.held.from = m.from -> Handle(u, p, r.to, r.held)
            [] OTHER -> [u EXCEPT !.table = TableWithout(@, p, r.held.from)]
    BY <1>3 DEF HandlePingReply, t
  <2> HIDE DEF r
  <2>3. LocalOK(p, u) /\ u.table = t.table
    BY <1>1, <2>1, ResolveOK
  <2> HIDE DEF u
  <2>4. CASE r.purpose # "key"
    BY <2>2, <2>3, <2>4
  <2>5. ASSUME r.purpose = "key"
        PROVE  /\ r.to \in Node /\ r.held \in OnTheWay
               /\ r.held.type \notin {"PING", "PING_REPLY"}
               /\ r.held.to = p /\ r.held.from \in NodeId
               /\ restarts = 0 => Reached(p, r.to)
    <3>1. RequestOK(p, r, Done(t)) /\ r.held \in OnTheWay
      BY <1>1, <2>1, <2>5 DEF LocalOK, PeerOK, PendingOK, NewOK
    <3>2. restarts = 0 => Reached(p, r.to)
      BY <1>1, <2>1, <2>5 DEF LocalOK, ReachOK
    <3> QED BY <2>5, <3>1, <3>2 DEF RequestOK, Message
  <2>6. CASE r.purpose = "key" /\ r.held.from = m.from
    <3>1. HandlePingReply(s, p, node, m) = Handle(u, p, r.to, r.held)
      BY <2>2, <2>6
    <3>2. HandledOK(p, r.held)
      BY <2>5, <2>6 DEF HandledOK
    <3> QED BY <2>3, <2>5, <2>6, <3>1, <3>2, HandleOK
  <2>7. CASE r.purpose = "key" /\ r.held.from # m.from
    <3> DEFINE tab == TableWithout(u.table, p, r.held.from)
    <3>1. HandlePingReply(s, p, node, m) = [u EXCEPT !.table = tab]
      BY <2>2, <2>7
    <3>2. TableOK(u.table, p) /\ (restarts = 0 => \A o \in Filed(u.table) : Reached(p, o))
      BY <2>3 DEF LocalOK, PeerOK, ReachOK
    <3>3. TableOK(tab, p) /\ Filed(tab) \subseteq Filed(u.table)
      <4>1. /\ TableOK(tab, p)
            /\ \A i \in BucketIds : ObjectsOf(tab[i]) \subseteq ObjectsOf(u.table[i])
        BY <2>5, <2>7, <3>2, TableWithoutOK
      <4> HIDE DEF tab
      <4> QED BY <4>1 DEF Filed
    <3> HIDE DEF tab
    <3> QED BY <2>3, <3>1, <3>2, <3>3, TableChanges
  <2> QED BY <2>4, <2>6, <2>7
<1> QED BY <1>2, <1>3

LEMMA FiledFacts ==
  ASSUME NEW t, NEW root, TableOK(t, root), NEW o \in Filed(t)
  PROVE  o \in Node /\ o.id \in NodeId
<1>1. PICK i \in BucketIds : o \in ObjectsOf(t[i])
  BY DEF Filed
<1>2. t[i] \in Bucket
  BY DEF TableOK, Table
<1>3. o \in Node
  <2>1. \A x \in DOMAIN t[i].nodes : t[i].nodes[x] \in Node
    BY <1>2, LenProperties, ElementOfSeq DEF Bucket
  <2>2. \A id \in NodeId : t[i].cacheNodes[id] \in Node \cup {NoNode}
    BY <1>2 DEF Bucket
  <2> QED BY <1>1, <2>1, <2>2 DEF ObjectsOf
<1> QED BY <1>3 DEF Node

-----------------------------------------------------------------------------
(* Steps.                                                                  *)

LEMMA LocalStarts ==
  ASSUME Inv, NEW p \in NodeId
  PROVE  LocalOK(p, Local(p))
<1> DEFINE s == Local(p)
<1>1. /\ s.table = table[p] /\ s.pending = pending[p] /\ s.toPing = toPing[p]
      /\ s.count = count[p] /\ s.out = EmptyBag /\ s.settled = {} /\ Shape(s)
  BY DEF Local, Shape
<1>2. PeerOK(p, s, settled) /\ DoneOK(settled) /\ ReachOK(p, s)
  BY DEF Inv
<1> HIDE DEF s
<1>3. Done(s) = settled
  BY <1>1 DEF Done
<1>4. OutOK(p, s)
  <2>1. IsABag(EmptyBag) /\ BagToSet(EmptyBag) = {}
    BY DEF IsABag, EmptyBag, SetToBag, BagToSet
  <2> QED BY <1>1, <2>1 DEF OutOK
<1>5. NewOK(p, s)
  <2>1. count[p] \in Nat
    BY BoundsFacts DEF Inv
  <2>2. ASSUME NEW r \in pending[p], r.purpose = "key"
        PROVE  r.held \in OnTheWay
    BY <2>2 DEF OnTheWay, Held
  <2> QED BY <1>1, <2>1, <2>2 DEF NewOK
<1> QED BY <1>1, <1>2, <1>3, <1>4, <1>5 DEF LocalOK, s

\* A peer is as well off when more is settled of others.
LEMMA OthersStay ==
  ASSUME NEW p, NEW s, NEW done, NEW more, PeerOK(p, s, done), done \subseteq more,
         \A a \in more : a \in done \/ a.request.id.by # p
  PROVE  PeerOK(p, s, more)
<1>1. IdsOf(done) \subseteq IdsOf(more)
  BY DEF IdsOf
<1>2. \A i \in IdsOf(more) : i \in IdsOf(done) \/ i.by # p
  BY DEF IdsOf
<1>3. PendingOK(p, s, more)
  <2>1. \A r \in s.pending : RequestOK(p, r, done) /\ RequestOK(p, r, more) /\ r.id.by = p
    BY RequestStays DEF PeerOK, PendingOK, RequestOK
  <2> QED BY <1>2, <2>1 DEF PeerOK, PendingOK
<1>4. ToPingOK(p, s, more)
  <2>1. \A e \in s.toPing : ForwardedId(e.node.id, e.id).by = p
    BY DEF PeerOK, ToPingOK, ForwardedId, MessageId
  <2> QED BY <1>1, <1>2, <2>1 DEF PeerOK, ToPingOK
<1>5. CountOK(p, s, more)
  BY DEF PeerOK, CountOK
<1> QED BY <1>3, <1>4, <1>5 DEF PeerOK

\* What a handler made takes effect.
LEMMA CommitOK ==
  ASSUME Inv, NEW p \in NodeId, NEW s, LocalOK(p, s), Commit(p, s),
         address' = address, restarts' = restarts, lost' = lost,
         asks' \in [NodeId -> Nat], \A q \in NodeId : asks'[q] <= MaxAsks[q],
         IsABag(net)', BagToSet(net)' \subseteq BagToSet(net) \cup BagToSet(s.out)
  PROVE  Inv'
<1>1. /\ table' = [table EXCEPT ![p] = s.table]
      /\ pending' = [pending EXCEPT ![p] = s.pending]
      /\ toPing' = [toPing EXCEPT ![p] = s.toPing]
      /\ count' = [count EXCEPT ![p] = s.count]
      /\ settled' = Done(s)
      /\ opened' = [opened EXCEPT ![p] = @ \cup {m.toAddress : m \in BagToSet(s.out)}]
      /\ s.count <= MaxRequests
  BY DEF Commit, Done
<1>2. /\ PeerOK(p, s, Done(s)) /\ DoneOK(Done(s)) /\ ReachOK(p, s)
      /\ OutOK(p, s) /\ NewOK(p, s)
  BY DEF LocalOK
<1>3. BoundsOK
  BY DEF Inv
<1>4. BoundsOK'
  <2>1. s.table \in Table
    BY <1>2 DEF PeerOK, TableOK
  <2>2. s.pending \in SUBSET Request
    BY <1>2 DEF PeerOK, PendingOK, RequestOK
  <2>3. s.toPing \in SUBSET [node : Node, id : MessageId]
    BY <1>2 DEF PeerOK, ToPingOK
  <2>4. s.count \in 0 .. MaxRequests
    BY <1>1, <1>2, RPCAssumption DEF PeerOK, CountOK
  <2>5. {m.toAddress : m \in BagToSet(s.out)} \subseteq Address
    BY <1>2 DEF OutOK, LetterOK, MessageOK, Message
  <2>6. table' \in [NodeId -> Table]
    BY <1>1, <1>3, <2>1 DEF BoundsOK
  <2>7. pending' \in [NodeId -> SUBSET Request]
    BY <1>1, <1>3, <2>2 DEF BoundsOK
  <2>8. toPing' \in [NodeId -> SUBSET [node : Node, id : MessageId]]
    BY <1>1, <1>3, <2>3 DEF BoundsOK
  <2>9. count' \in [NodeId -> 0 .. MaxRequests]
    BY <1>1, <1>3, <2>4 DEF BoundsOK
  <2>10. opened' \in [NodeId -> SUBSET Address]
    BY <1>1, <1>3, <2>5 DEF BoundsOK
  <2> QED BY <1>3, <2>6, <2>7, <2>8, <2>9, <2>10 DEF BoundsOK
<1>5. DoneOK(settled)'
  BY <1>1, <1>2 DEF DoneOK, IdsOf
<1>6. ASSUME NEW q \in NodeId
      PROVE  Local(q)'.table = table'[q] /\ Local(q)'.pending = pending'[q]
             /\ Local(q)'.toPing = toPing'[q] /\ Local(q)'.count = count'[q]
             /\ Local(q).table = table[q] /\ Local(q).pending = pending[q]
             /\ Local(q).toPing = toPing[q] /\ Local(q).count = count[q]
  BY DEF Local
<1>7. /\ table'[p] = s.table /\ pending'[p] = s.pending
      /\ toPing'[p] = s.toPing /\ count'[p] = s.count
      /\ \A q \in NodeId \ {p} : /\ table'[q] = table[q] /\ pending'[q] = pending[q]
                                 /\ toPing'[q] = toPing[q] /\ count'[q] = count[q]
  BY <1>1, <1>3 DEF BoundsOK
<1>8. ASSUME NEW q \in NodeId
      PROVE  PeerOK(q, Local(q), settled)'
  <2>1. CASE q = p
    BY <1>1, <1>2, <1>6, <1>7, <2>1
       DEF PeerOK, PendingOK, ToPingOK, CountOK, RequestOK, IdsOf, TableOK
  <2>2. CASE q # p
    <3>1. PeerOK(q, Local(q), settled)
      BY DEF Inv
    <3>2. \A a \in Done(s) : a \in settled \/ a.request.id.by # q
      BY <1>2, <2>2 DEF Done, NewOK
    <3>3. PeerOK(q, Local(q), Done(s))
      BY <3>1, <3>2, OthersStay DEF Done
    <3> QED BY <1>1, <1>6, <1>7, <2>2, <3>3
            DEF PeerOK, PendingOK, ToPingOK, CountOK, RequestOK, IdsOf, TableOK
  <2> QED BY <2>1, <2>2
<1>9. \A q \in NodeId : opened[q] \subseteq opened'[q]
  BY <1>1, <1>3 DEF BoundsOK
<1>10. ASSUME NEW q \in NodeId
       PROVE  ReachOK(q, Local(q))'
  <2>1. SUFFICES ASSUME restarts = 0
                 PROVE  /\ \A o \in Filed(table'[q]) : Reached(q, o)'
                        /\ \A r \in pending'[q] : r.purpose = "key" => Reached(q, r.to)'
    BY <1>6 DEF ReachOK, Filed, ObjectsOf
  <2>2. /\ \A o \in Filed(table'[q]) : Reached(q, o)
        /\ \A r \in pending'[q] : r.purpose = "key" => Reached(q, r.to)
    <3>1. CASE q = p
      BY <1>2, <1>7, <2>1, <3>1 DEF ReachOK
    <3>2. CASE q # p
      <4>1. ReachOK(q, Local(q))
        BY DEF Inv
      <4> QED BY <1>6, <1>7, <2>1, <3>2, <4>1 DEF ReachOK
    <3> QED BY <3>1, <3>2
  <2>3. \A o \in Filed(table'[q]) : o.id \in NodeId
    <3>1. PeerOK(q, Local(q), settled)'
      BY <1>8
    <3>2. TableOK(table'[q], q)
      BY <1>6, <3>1 DEF PeerOK, TableOK
    <3> QED BY <3>2, FiledFacts
  <2>4. \A r \in pending'[q] : r.purpose = "key" => r.to.id \in NodeId
    <3>1. \A r \in pending'[q] : r.purpose = "key" => r.to \in Node
      BY <1>6, <1>8 DEF PeerOK, PendingOK, RequestOK
    <3> QED BY <3>1 DEF Node
  <2> QED BY <1>9, <2>2, <2>3, <2>4 DEF Reached
<1>11. OnTheWay' \subseteq OnTheWay \cup BagToSet(s.out)
  <2>1. ASSUME NEW q \in NodeId, NEW h \in Held(pending'[q])
        PROVE  h \in OnTheWay
    <3>1. PICK r \in pending'[q] : r.purpose = "key" /\ h = r.held
      BY DEF Held
    <3>2. CASE q = p
      BY <1>2, <1>7, <3>1, <3>2 DEF NewOK
    <3>3. CASE q # p
      BY <1>7, <3>1, <3>3 DEF OnTheWay, Held
    <3> QED BY <3>2, <3>3
  <2>2. \A q \in NodeId : Held(pending[q])' = Held(pending'[q])
    BY DEF Held
  <2>3. OnTheWay' = BagToSet(net)' \cup UNION {Held(pending[q])' : q \in NodeId}
    BY DEF OnTheWay
  <2> QED BY <2>1, <2>2, <2>3 DEF OnTheWay
<1>12. ASSUME NEW m \in OnTheWay'
       PROVE  MessageOK(m, count)' /\ SentOK(m)'
  <2>1. CASE m \in OnTheWay
    <3>1. MessageOK(m, count) /\ SentOK(m)
      BY <2>1 DEF Inv
    <3>2. m.id.by \in NodeId /\ m.id.n \in Nat /\ m.from \in NodeId
      BY <3>1 DEF MessageOK, Message, MessageId
    <3>3. count[m.id.by] <= count'[m.id.by]
      <4>1. s.count \in Nat /\ s.count >= count[p] /\ count \in [NodeId -> Nat]
        BY <1>2, <1>3, BoundsFacts DEF PeerOK, CountOK, NewOK
      <4> QED BY <1>1, <3>2, <4>1
    <3>4. m.id.n <= count'[m.id.by]
      <4>1. m.id.n <= count[m.id.by]
        BY <3>1 DEF MessageOK
      <4>2. count[m.id.by] \in Nat /\ count'[m.id.by] \in Nat
        BY <1>3, <1>4, <3>2, RPCAssumption DEF BoundsOK
      <4> QED BY <3>2, <3>3, <4>1, <4>2
    <3>5. MessageOK(m, count)'
      BY <3>1, <3>4 DEF MessageOK
    <3>6. SentOK(m)'
      BY <1>9, <3>1, <3>2 DEF SentOK
    <3> QED BY <3>5, <3>6
  <2>2. CASE m \in BagToSet(s.out)
    <3>1. LetterOK(p, s, m)
      BY <1>2, <2>2 DEF OutOK
    <3>2. MessageOK(m, count)'
      BY <1>1, <3>1 DEF LetterOK, MessageOK, Numbers
    <3>3. m.toAddress \in opened'[p]
      BY <1>1, <1>3, <2>2 DEF BoundsOK
    <3>4. SentOK(m)'
      BY <3>1, <3>3 DEF SentOK, LetterOK
    <3> QED BY <3>2, <3>4
  <2> QED BY <1>11, <2>1, <2>2
<1>13. ASSUME NEW q \in NodeId, NEW r \in pending'[q], NEW m \in OnTheWay'
       PROVE  AskedOne(r, m)
  <2>1. SUFFICES ASSUME r.type = "FIND_NODE", r.id = m.id
                 PROVE  AskedOne(r, m)
    BY DEF AskedOne
  <2>2. r.id.by = q /\ r.id.n \in Nat
    BY <1>6, <1>8 DEF PeerOK, PendingOK, RequestOK, Request, MessageId
  <2>3. ASSUME NEW f \in OnTheWay
        PROVE  /\ f.id.by = p => f.id.n <= count[p] /\ f.id.n \in Nat
               /\ \A x \in NodeId : \A y \in pending[x] : AskedOne(y, f)
    <3>1. MessageOK(f, count)
      BY DEF Inv
    <3> QED BY <3>1 DEF Inv, MessageOK, Message, MessageId
  <2>4. count[p] \in Nat
    BY <1>3, BoundsFacts
  \* A request that is new has an id that nothing on the way has.
  <2>5. q = p /\ r \notin pending[p] => r.id.n > count[p]
    BY <1>2, <1>7, <2>1 DEF NewOK
  <2>6. q # p => r \in pending[q]
    BY <1>7
  <2>7. CASE m \in OnTheWay
    <3>1. r \in pending[q]
      BY <2>1, <2>2, <2>3, <2>4, <2>5, <2>6, <2>7
    <3> QED BY <2>3, <2>7, <3>1
  <2>8. CASE m \in BagToSet(s.out)
    <3>1. LetterOK(p, s, m)
      BY <1>2, <2>8 DEF OutOK
    <3>2. CASE m.type = "FIND_NODE"
      <4>1. q = p
        BY <2>1, <2>2, <3>1, <3>2 DEF LetterOK
      <4> QED BY <1>7, <3>1, <3>2, <4>1 DEF LetterOK
    <3>3. CASE m.type = "FIND_NODE_REPLY"
      <4>1. PICK f \in OnTheWay : f.type = "FIND_NODE" /\ f.id = m.id /\ f.to = p
        BY <3>1, <3>3 DEF LetterOK
      <4>2. r \in pending[q]
        BY <2>1, <2>2, <2>3, <2>4, <2>5, <2>6, <4>1
      <4>3. AskedOne(r, f)
        BY <2>3, <4>2
      <4> QED BY <2>1, <3>1, <3>3, <4>1, <4>3 DEF AskedOne, LetterOK
    <3> QED BY <3>2, <3>3 DEF AskedOne
  <2> QED BY <1>11, <2>7, <2>8
<1>14. \A q \in NodeId : \A r \in pending'[q], m \in OnTheWay' : AskedOne(r, m)'
  BY <1>13 DEF AskedOne
<1> QED BY <1>4, <1>5, <1>8, <1>10, <1>12, <1>14 DEF Inv

LEMMA BagFacts ==
  ASSUME NEW a, IsABag(a), NEW b, IsABag(b)
  PROVE  /\ IsABag(a (+) b) /\ BagToSet(a (+) b) = BagToSet(a) \cup BagToSet(b)
         /\ IsABag(a (-) b) /\ BagToSet(a (-) b) \subseteq BagToSet(a)
<1>1. IsABag(a (+) b)
  BY DEF IsABag, (+)
<1>2. BagToSet(a (+) b) = BagToSet(a) \cup BagToSet(b)
  BY DEF BagToSet, (+)
<1>3. IsABag(a (-) b)
  <2> DEFINE f == [e \in DOMAIN a |-> IF e \in DOMAIN b THEN a[e] - b[e] ELSE a[e]]
  <2>1. \A e \in DOMAIN f : f[e] \in Int
    BY DEF IsABag
  <2>2. a (-) b = [e \in {d \in DOMAIN f : f[d] > 0} |-> f[e]]
    BY DEF (-)
  <2> HIDE DEF f
  <2> QED BY <2>1, <2>2 DEF IsABag
<1>4. BagToSet(a (-) b) \subseteq BagToSet(a)
  BY DEF BagToSet, (-)
<1> QED BY <1>1, <1>2, <1>3, <1>4

LEMMA OneLetterBag == ASSUME NEW m PROVE IsABag(SetToBag({m}))
BY DEF IsABag, SetToBag

LEMMA AsksFacts ==
  ASSUME BoundsOK, NEW p \in NodeId, asks[p] < MaxAsks[p],
         asks' = [asks EXCEPT ![p] = @ + 1]
  PROVE  asks' \in [NodeId -> Nat] /\ \A q \in NodeId : asks'[q] <= MaxAsks[q]
<1>1. MaxAsks \in [NodeId -> Nat] /\ asks \in [NodeId -> Nat]
  BY RPCAssumption DEF BoundsOK
<1>2. asks' \in [NodeId -> Nat]
  BY <1>1
<1>3. ASSUME NEW q \in NodeId
      PROVE  asks'[q] <= MaxAsks[q]
  <2>1. CASE q = p
    <3>1. asks'[p] = asks[p] + 1 /\ asks[p] \in Nat /\ MaxAsks[p] \in Nat
      BY <1>1
    <3> QED BY <2>1, <3>1
  <2>2. CASE q # p
    <3>1. asks'[q] = asks[q]
      BY <1>1, <2>2
    <3> QED BY <3>1 DEF BoundsOK
  <2> QED BY <2>1, <2>2
<1> QED BY <1>2, <1>3

LEMMA BootstrapOK ==
  ASSUME Inv, NEW p \in NodeId, Bootstrap(p)
  PROVE  Inv'
<1> DEFINE to == [id |-> NoNode, address |-> address[Seed]]
<1>1. PICK s : s = Ping(Local(p), p, to, "boot", NoNode)
  OBVIOUS
<1>2. BoundsOK /\ address \in [NodeId -> Address] /\ Seed \in NodeId
  BY BoundsFacts, RPCAssumption DEF Inv
<1>3. to \in Contact
  BY <1>2 DEF Contact
<1>4. LocalOK(p, s)
  BY <1>1, <1>2, <1>3, LocalStarts, PingOK
<1>5. /\ Commit(p, s) /\ asks[p] < MaxAsks[p]
      /\ asks' = [asks EXCEPT ![p] = @ + 1] /\ net' = net (+) s.out
      /\ UNCHANGED <<address, lost, restarts>>
  BY <1>1 DEF Bootstrap, Commit
<1>6. IsABag(net') /\ BagToSet(net') = BagToSet(net) \cup BagToSet(s.out)
  BY <1>2, <1>4, <1>5, BagFacts DEF BoundsOK, LocalOK, OutOK
<1>7. IsABag(net)' /\ BagToSet(net)' \subseteq BagToSet(net) \cup BagToSet(s.out)
  BY <1>6 DEF IsABag, BagToSet
<1>8. asks' \in [NodeId -> Nat] /\ \A q \in NodeId : asks'[q] <= MaxAsks[q]
  BY <1>2, <1>5, AsksFacts
<1> QED BY <1>4, <1>5, <1>7, <1>8, CommitOK

LEMMA FindOK ==
  ASSUME Inv, NEW p \in NodeId, NEW q, NEW subject \in Subject,
         Find(p, GetNode(table[p], p, q), subject)
  PROVE  Inv'
<1>1. PICK to : to = GetNode(table[p], p, q)
  OBVIOUS
<1>2. PICK r : r = Awaited(to, "FIND_NODE", FreshId(Local(p), p, 1), "find", NoNode)
  OBVIOUS
<1>3. PICK s : s = Counted(SendAndWait(Local(p), p, {r}, subject), 1)
  OBVIOUS
<1>4. BoundsOK /\ subject \in NodeId /\ LocalOK(p, Local(p))
  BY LocalStarts, RPCAssumption DEF Inv
<1>5. to \in Node
  <2>1. to \in ToSet(GetClosestNodes(table[p], p, subject, NodesPerBucket))
    BY <1>1 DEF Find
  <2>2. TableOK(table[p], p)
    BY DEF Inv, PeerOK, Local
  <2>3. GetClosestNodes(table[p], p, subject, NodesPerBucket) \in Seq(Node)
    BY <1>4, <2>2, ClosestFacts, BucketInRange
  <2> QED BY <2>1, <2>3, LenProperties, ElementOfSeq DEF ToSet
<1>6. LocalOK(p, s)
  <2>1. Local(p).count \in Nat
    BY <1>4 DEF LocalOK, PeerOK, CountOK
  <2>2. FreshId(Local(p), p, 1) = [by |-> p, n |-> Local(p).count + 1, via |-> NoNode]
    BY DEF FreshId
  <2>3. r = [id |-> FreshId(Local(p), p, 1), type |-> "FIND_NODE", to |-> to,
             purpose |-> "find", held |-> NoNode]
    BY <1>2 DEF Awaited
  <2>4. FreshId(Local(p), p, 1) \in MessageId
    BY <2>1, <2>2 DEF MessageId
  <2>5. to \in Contact
    BY <1>5 DEF Node, Contact
  <2>6. r \in Request
    BY <2>3, <2>4, <2>5 DEF Request
  <2>7. RequestOK(p, r, Done(Local(p)))
    BY <1>5, <2>2, <2>3, <2>6 DEF RequestOK
  <2>8. r.id.n = Local(p).count + 1 /\ r.purpose # "key"
    BY <2>2, <2>3
  <2> QED BY <1>3, <1>4, <2>1, <2>7, <2>8, FreshOK
<1>7. /\ Commit(p, s) /\ asks[p] < MaxAsks[p]
      /\ asks' = [asks EXCEPT ![p] = @ + 1] /\ net' = net (+) s.out
      /\ UNCHANGED <<address, lost, restarts>>
  BY <1>1, <1>2, <1>3 DEF Find, Commit
<1>8. IsABag(net') /\ BagToSet(net') = BagToSet(net) \cup BagToSet(s.out)
  BY <1>4, <1>6, <1>7, BagFacts DEF BoundsOK, LocalOK, OutOK
<1>9. IsABag(net)' /\ BagToSet(net)' \subseteq BagToSet(net) \cup BagToSet(s.out)
  BY <1>8 DEF IsABag, BagToSet
<1>10. asks' \in [NodeId -> Nat] /\ \A x \in NodeId : asks'[x] <= MaxAsks[x]
  BY <1>4, <1>7, AsksFacts
<1> QED BY <1>6, <1>7, <1>9, <1>10, CommitOK

\* A name that is used up makes an id that is free.
LEMMA NamedFree ==
  ASSUME NEW p \in NodeId, NEW s, LocalOK(p, s), NEW e \in s.toPing
  PROVE  LET u  == [s EXCEPT !.toPing = @ \ {e}]
             id == ForwardedId(e.node.id, e.id)
         IN /\ LocalOK(p, u)
            /\ u.table = s.table /\ u.out = s.out
            /\ e.node \in Node
            /\ id \in MessageId /\ id.by = p /\ id.n <= u.count
            /\ Base(id) \in IdsOf(Done(u))
            /\ id \notin IdsOf(Done(u))
            /\ \A q \in u.pending : q.id # id
            /\ \A f \in u.toPing : id # ForwardedId(f.node.id, f.id)
<1> DEFINE left == s.toPing \ {e}
           u  == [s EXCEPT !.toPing = left]
           id == ForwardedId(e.node.id, e.id)
<1>1. /\ Shape(u) /\ u.table = s.table /\ u.pending = s.pending
      /\ u.toPing = left /\ u.count = s.count
      /\ u.out = s.out /\ u.settled = s.settled
  <2>1. Shape(s)
    BY DEF LocalOK
  <2> HIDE DEF left
  <2> QED BY <2>1 DEF Shape
<1> HIDE DEF u
<1>2. Done(u) = Done(s)
  BY <1>1 DEF Done
<1>3. PeerOK(p, u, Done(u))
  BY <1>1, <1>2 DEF LocalOK, PeerOK, PendingOK, ToPingOK, CountOK
<1>4. ReachOK(p, u)
  BY <1>1 DEF LocalOK, ReachOK
<1>5. OutOK(p, u)
  <2>1. \A m \in BagToSet(s.out) : LetterOK(p, s, m)
    BY DEF LocalOK, OutOK
  <2>2. ASSUME NEW m, LetterOK(p, s, m)
        PROVE  LetterOK(p, u, m)
    BY <1>1, <2>2 DEF LetterOK, Numbers
  <2> QED BY <1>1, <2>1, <2>2 DEF LocalOK, OutOK
<1>6. NewOK(p, u)
  BY <1>1 DEF LocalOK, NewOK
<1>7. LocalOK(p, u)
  BY <1>1, <1>2, <1>3, <1>4, <1>5, <1>6 DEF LocalOK
<1>8. \A f \in s.toPing :
        /\ f.node \in Node /\ f.node.id \in NodeId /\ f.id \in MessageId
        /\ f.id.by = p /\ f.id.via = NoNode /\ f.id \in IdsOf(Done(s))
  BY DEF LocalOK, PeerOK, ToPingOK, Node
<1>9. \A f \in s.toPing :
        LET i == ForwardedId(f.node.id, f.id)
        IN /\ i \in MessageId /\ i.via = f.node.id /\ Base(i) = f.id
           /\ i.by = p /\ i.n = f.id.n
  BY <1>8 DEF ForwardedId, Base, MessageId
<1>10. e.id.n <= s.count
  BY <1>8 DEF LocalOK, PeerOK, CountOK, IdsOf
<1>11. \A f \in left : id # ForwardedId(f.node.id, f.id)
  <2>1. SUFFICES ASSUME NEW f \in left, id = ForwardedId(f.node.id, f.id)
                 PROVE  FALSE
    OBVIOUS
  <2>2. f \in s.toPing /\ f # e
    OBVIOUS
  <2>3. f.id = e.id /\ f.node.id = e.node.id
    <3> HIDE DEF id
    <3>1. Base(id) = e.id /\ id.via = e.node.id
      BY <1>9 DEF id
    <3>2. Base(id) = f.id /\ id.via = f.node.id
      BY <1>9, <2>1, <2>2
    <3> QED BY <3>1, <3>2
  <2>4. f = e
    BY <2>2, <2>3 DEF LocalOK, PeerOK, ToPingOK
  <2> QED BY <2>2, <2>4
<1>12. id \notin IdsOf(Done(s)) /\ \A q \in s.pending : q.id # id
  BY DEF LocalOK, PeerOK, ToPingOK
<1>13. /\ id \in MessageId /\ id.by = p /\ id.n <= u.count /\ Base(id) \in IdsOf(Done(u))
  BY <1>1, <1>2, <1>8, <1>9, <1>10
<1> HIDE DEF id
<1>14. /\ id \notin IdsOf(Done(u)) /\ \A q \in u.pending : q.id # id
       /\ \A f \in u.toPing : id # ForwardedId(f.node.id, f.id)
  BY <1>1, <1>2, <1>11, <1>12
<1> QED BY <1>1, <1>7, <1>8, <1>13, <1>14 DEF u, id

LEMMA PingNamedOK ==
  ASSUME Inv, NEW p \in NodeId, NEW e, PingNamed(p, e)
  PROVE  Inv'
<1>1. PICK s : s = [Local(p) EXCEPT !.toPing = @ \ {e}]
  OBVIOUS
<1>2. PICK r : r = Awaited(e.node, "PING", ForwardedId(e.node.id, e.id), "punch", NoNode)
  OBVIOUS
<1>3. PICK t : t = IF GetNode(s.table, p, e.node.id) # NoNode THEN s
                   ELSE SendAndWait(s, p, {r}, NoNode)
  OBVIOUS
<1>4. /\ Commit(p, t) /\ net' = net (+) t.out
      /\ UNCHANGED <<address, asks, lost, restarts>>
      /\ e \in toPing[p]
  BY <1>1, <1>2, <1>3 DEF PingNamed, Commit
<1>5. BoundsOK /\ LocalOK(p, Local(p)) /\ Local(p).toPing = toPing[p]
  BY LocalStarts DEF Inv, Local
<1>6. /\ LocalOK(p, s) /\ e.node \in Node
      /\ ForwardedId(e.node.id, e.id) \in MessageId
      /\ ForwardedId(e.node.id, e.id).by = p
      /\ ForwardedId(e.node.id, e.id).n <= s.count
      /\ Base(ForwardedId(e.node.id, e.id)) \in IdsOf(Done(s))
      /\ ForwardedId(e.node.id, e.id) \notin IdsOf(Done(s))
      /\ \A q \in s.pending : q.id # ForwardedId(e.node.id, e.id)
      /\ \A f \in s.toPing : ForwardedId(e.node.id, e.id) # ForwardedId(f.node.id, f.id)
  BY <1>1, <1>4, <1>5, NamedFree
<1>7. LocalOK(p, SendAndWait(s, p, {r}, NoNode))
  <2>1. r = [id |-> ForwardedId(e.node.id, e.id), type |-> "PING", to |-> e.node,
             purpose |-> "punch", held |-> NoNode]
    BY <1>2 DEF Awaited
  <2>2. e.node \in Contact
    BY <1>6 DEF Node, Contact
  <2>3. r \in Request
    BY <1>6, <2>1, <2>2 DEF Request
  <2>4. /\ r.id = ForwardedId(e.node.id, e.id) /\ r.type = "PING" /\ r.to = e.node
        /\ r.purpose = "punch"
    BY <2>1
  <2>5. RequestOK(p, r, Done(s))
    BY <1>6, <2>3, <2>4 DEF RequestOK
  <2>6. /\ r.id.n <= s.count /\ r.id \notin IdsOf(Done(s))
        /\ \A q \in s.pending : q.id # r.id
        /\ \A f \in s.toPing : r.id # ForwardedId(f.node.id, f.id)
    BY <1>6, <2>4
  <2> QED BY <1>5, <1>6, <2>4, <2>5, <2>6, AwaitOK, BoundsFacts
<1>8. LocalOK(p, t)
  BY <1>3, <1>6, <1>7
<1>9. IsABag(net') /\ BagToSet(net') = BagToSet(net) \cup BagToSet(t.out)
  BY <1>4, <1>5, <1>8, BagFacts DEF BoundsOK, LocalOK, OutOK
<1>10. IsABag(net)' /\ BagToSet(net)' \subseteq BagToSet(net) \cup BagToSet(t.out)
  BY <1>9 DEF IsABag, BagToSet
<1>11. asks' \in [NodeId -> Nat] /\ \A x \in NodeId : asks'[x] <= MaxAsks[x]
  BY <1>4, <1>5 DEF BoundsOK
<1> QED BY <1>4, <1>8, <1>10, <1>11, CommitOK

LEMMA ReceiveOK ==
  ASSUME Inv, NEW p \in NodeId, NEW m \in BagToSet(net), Receive(p, m)
  PROVE  Inv'
<1> DEFINE s     == Local(p)
           fresh == [id |-> m.from, address |-> m.fromAddress]
           known == GetNode(table[p], p, m.from)
<1>1. PICK after : after =
        CASE m.type = "PING"       -> Handle(s, p, fresh, m)
          [] m.type = "PING_REPLY" -> HandlePingReply(s, p, fresh, m)
          [] m.type \notin {"PING", "PING_REPLY"} /\ known # NoNode
                                   -> Handle(s, p, known, m)
          [] OTHER                 -> Ping(s, p, fresh, "key", m)
  OBVIOUS
<1>2. /\ Arrives(p, m) /\ Commit(p, after)
      /\ net' = (net (-) SetToBag({m})) (+) after.out
      /\ UNCHANGED <<address, asks, lost, restarts>>
  BY <1>1 DEF Receive, Commit
<1>3. BoundsOK /\ LocalOK(p, s)
  BY LocalStarts DEF Inv
<1>4. /\ m \in OnTheWay /\ MessageOK(m, count) /\ SentOK(m)
      /\ m.from \in NodeId /\ m.fromAddress \in Address /\ m \in Message
  <2>1. m \in OnTheWay
    BY DEF OnTheWay
  <2>2. MessageOK(m, count) /\ SentOK(m)
    BY <2>1 DEF Inv
  <2> QED BY <2>1, <2>2 DEF MessageOK, Message
<1>5. HandledOK(p, m)
  BY <1>2, <1>4 DEF HandledOK, Arrives, Inv
<1>6. fresh \in Node /\ (restarts = 0 => Reached(p, fresh))
  <2>1. fresh \in Node
    BY <1>4 DEF Node
  <2>2. restarts = 0 => address[p] \in opened[m.from] /\ m.fromAddress = address[m.from]
    BY <1>2, <1>4 DEF SentOK, Arrives
  <2> QED BY <2>1, <2>2 DEF Reached
<1>7. known # NoNode => known \in Node /\ (restarts = 0 => Reached(p, known))
  <2>1. SUFFICES ASSUME known # NoNode
                 PROVE  known \in Node /\ (restarts = 0 => Reached(p, known))
    OBVIOUS
  <2>2. TableOK(table[p], p) /\ ReachOK(p, s) /\ s.table = table[p]
    BY DEF Inv, PeerOK, Local
  <2>3. known \in Node /\ known \in Filed(table[p])
    BY <1>4, <2>1, <2>2, GetNodeFacts DEF Filed
  <2> QED BY <2>2, <2>3 DEF ReachOK
<1> HIDE DEF s, fresh, known
<1>8. LocalOK(p, after)
  <2>1. CASE m.type = "PING"
    <3>1. after = Handle(s, p, fresh, m) /\ m.type # "PING_REPLY"
      BY <1>1, <2>1
    <3> QED BY <1>3, <1>5, <1>6, <3>1, HandleOK
  <2>2. CASE m.type = "PING_REPLY"
    <3>1. after = HandlePingReply(s, p, fresh, m)
      BY <1>1, <2>2
    <3>2. /\ \A h \in OnTheWay : MessageOK(h, count)
          /\ \A r \in pending[p], h \in OnTheWay : AskedOne(r, h)
      BY DEF Inv
    <3> QED BY <1>3, <1>5, <1>6, <2>2, <3>1, <3>2, HandlePingReplyOK
  <2>3. CASE m.type \notin {"PING", "PING_REPLY"} /\ known # NoNode
    <3>1. after = Handle(s, p, known, m) /\ m.type # "PING_REPLY"
      BY <1>1, <2>3
    <3> QED BY <1>3, <1>5, <1>7, <2>3, <3>1, HandleOK
  <2>4. CASE m.type \notin {"PING", "PING_REPLY"} /\ known = NoNode
    <3>1. after = Ping(s, p, fresh, "key", m)
      BY <1>1, <2>4
    <3>2. m.to = p
      BY <1>2, <2>4 DEF Arrives
    <3>3. fresh \in Contact
      BY <1>6 DEF Node, Contact
    <3> QED BY <1>3, <1>4, <1>6, <2>4, <3>1, <3>2, <3>3, PingOK
  <2> QED BY <2>1, <2>2, <2>3, <2>4
<1>9. IsABag(net') /\ BagToSet(net') \subseteq BagToSet(net) \cup BagToSet(after.out)
  <2>1. PICK left : left = net (-) SetToBag({m})
    OBVIOUS
  <2>2. IsABag(left) /\ BagToSet(left) \subseteq BagToSet(net)
    BY <1>3, <2>1, BagFacts, OneLetterBag DEF BoundsOK
  <2>3. net' = left (+) after.out /\ IsABag(after.out)
    BY <1>2, <1>8, <2>1 DEF LocalOK, OutOK
  <2> QED BY <2>2, <2>3, BagFacts
<1>10. IsABag(net)' /\ BagToSet(net)' \subseteq BagToSet(net) \cup BagToSet(after.out)
  BY <1>9 DEF IsABag, BagToSet
<1>11. asks' \in [NodeId -> Nat] /\ \A x \in NodeId : asks'[x] <= MaxAsks[x]
  BY <1>2, <1>3 DEF BoundsOK
<1> QED BY <1>2, <1>8, <1>10, <1>11, CommitOK

LEMMA TimeoutOK ==
  ASSUME Inv, NEW p \in NodeId, NEW r, Timeout(p, r)
  PROVE  Inv'
<1>1. PICK s : s = Reject(Local(p), p, r)
  OBVIOUS
<1>2. PICK u : u = Settle(Local(p), r, NoNode)
  OBVIOUS
<1>3. /\ Commit(p, s) /\ r \in pending[p]
      /\ UNCHANGED <<address, asks, net, lost, restarts>>
  BY <1>1 DEF Timeout, Commit
<1>4. BoundsOK /\ LocalOK(p, Local(p)) /\ r \in Local(p).pending
  BY <1>3, LocalStarts DEF Inv, Local
<1>5. LocalOK(p, u) /\ u.table = Local(p).table
  BY <1>2, <1>4, SettleOK
<1>6. LocalOK(p, s)
  <2> DEFINE without == TableWithout(u.table, p, r.to.id)
  <2>1. s = [u EXCEPT !.table = IF r.purpose \in {"evict", "find"}
                                THEN without ELSE u.table]
    <3>1. Local(p) = [table |-> table[p], pending |-> pending[p], toPing |-> toPing[p],
                      count |-> count[p], out |-> EmptyBag, settled |-> {}]
      BY DEF Local
    <3> QED BY <1>1, <1>2, <1>5, <3>1 DEF Reject, Settle
  <2>2. TableOK(u.table, p) /\ (restarts = 0 => \A o \in Filed(u.table) : Reached(p, o))
    BY <1>5 DEF LocalOK, PeerOK, ReachOK
  <2>3. CASE r.purpose \in {"evict", "find"}
    <3>1. r.to.id \in NodeId
      BY <1>4, <2>3 DEF LocalOK, PeerOK, PendingOK, RequestOK, Node
    <3>2. TableOK(without, p) /\ \A i \in BucketIds :
                                   ObjectsOf(without[i]) \subseteq ObjectsOf(u.table[i])
      BY <2>2, <3>1, TableWithoutOK
    <3> HIDE DEF without
    <3>3. restarts = 0 => \A o \in Filed(without) : Reached(p, o)
      BY <2>2, <3>2 DEF Filed
    <3> QED BY <1>5, <2>1, <2>3, <3>2, <3>3, TableChanges
  <2>4. CASE r.purpose \notin {"evict", "find"}
    <3>1. s = [u EXCEPT !.table = u.table]
      BY <2>1, <2>4
    <3> QED BY <1>5, <2>2, <3>1, TableChanges
  <2> QED BY <2>3, <2>4
<1>7. IsABag(net)' /\ BagToSet(net)' \subseteq BagToSet(net) \cup BagToSet(s.out)
  BY <1>3, <1>4 DEF IsABag, BagToSet, BoundsOK
<1>8. asks' \in [NodeId -> Nat] /\ \A x \in NodeId : asks'[x] <= MaxAsks[x]
  BY <1>3, <1>4 DEF BoundsOK
<1> QED BY <1>3, <1>6, <1>7, <1>8, CommitOK

\* Messages get lost or come twice.
LEMMA NetworkOK ==
  ASSUME Inv, IsABag(net)', BagToSet(net)' \subseteq BagToSet(net),
         UNCHANGED <<address, table, pending, toPing, count, asks, opened, settled,
                     restarts>>,
         lost' \in 0 .. MaxLost
  PROVE  Inv'
<1>1. OnTheWay' \subseteq OnTheWay
  BY DEF OnTheWay, Held
<1>2. BoundsOK'
  BY DEF Inv, BoundsOK
<1>3. DoneOK(settled)'
  BY DEF Inv
<1>4. \A p \in NodeId : Local(p)' = Local(p)
  BY DEF Local
<1>5. \A p \in NodeId : PeerOK(p, Local(p), settled)'
  BY <1>4 DEF Inv, PeerOK, PendingOK, ToPingOK, CountOK
<1>6. \A p \in NodeId : ReachOK(p, Local(p))'
  BY <1>4 DEF Inv, ReachOK, Reached
<1>7. \A m \in OnTheWay' : MessageOK(m, count)' /\ SentOK(m)'
  BY <1>1 DEF Inv, MessageOK, SentOK
<1>8. \A p \in NodeId : \A r \in pending'[p], m \in OnTheWay' : AskedOne(r, m)'
  BY <1>1 DEF Inv, AskedOne
<1> QED BY <1>2, <1>3, <1>5, <1>6, <1>7, <1>8 DEF Inv

LEMMA LettersOK ==
  ASSUME Inv, NEW m \in BagToSet(net), Undeliverable(m) \/ Lose(m) \/ Repeat(m)
  PROVE  Inv'
<1>1. IsABag(net) /\ IsABag(SetToBag({m})) /\ BagToSet(SetToBag({m})) = {m}
  BY OneLetterBag DEF Inv, BoundsOK, BagToSet, SetToBag
<1>2. net' = net (-) SetToBag({m}) \/ net' = net (+) SetToBag({m})
  BY DEF Undeliverable, Lose, Repeat
<1>3. IsABag(net') /\ BagToSet(net') \subseteq BagToSet(net)
  <2>1. PICK b : b = SetToBag({m})
    OBVIOUS
  <2>2. /\ IsABag(net (+) b) /\ BagToSet(net (+) b) = BagToSet(net) \cup {m}
        /\ IsABag(net (-) b) /\ BagToSet(net (-) b) \subseteq BagToSet(net)
    BY <1>1, <2>1, BagFacts
  <2> QED BY <1>2, <2>1, <2>2
<1>4. IsABag(net)' /\ BagToSet(net)' \subseteq BagToSet(net)
  BY <1>3 DEF IsABag, BagToSet
<1>5. lost' \in 0 .. MaxLost
  BY RPCAssumption DEF Inv, BoundsOK, Undeliverable, Lose, Repeat
<1>6. UNCHANGED <<address, table, pending, toPing, count, asks, opened, settled, restarts>>
  BY DEF Undeliverable, Lose, Repeat
<1> QED BY <1>4, <1>5, <1>6, NetworkOK

LEMMA RestartOK ==
  ASSUME Inv, NEW p \in NodeId, NEW a \in Address, Restart(p, a)
  PROVE  Inv'
<1>1. /\ restarts < MaxRestarts /\ restarts' = restarts + 1
      /\ address' = [address EXCEPT ![p] = a]
      /\ table' = [table EXCEPT ![p] = EmptyTable]
      /\ pending' = [pending EXCEPT ![p] = {}]
      /\ toPing' = [toPing EXCEPT ![p] = {}]
      /\ opened' = [opened EXCEPT ![p] = {}]
      /\ UNCHANGED <<count, asks, net, settled, lost>>
  BY DEF Restart
<1>2. BoundsOK /\ TableOK(EmptyTable, p)
  BY EmptyTableOK DEF Inv
<1>3. BoundsOK'
  <2>1. EmptyTable \in Table
    BY <1>2 DEF TableOK
  <2>2. restarts' \in 0 .. MaxRestarts
    BY <1>1, <1>2, RPCAssumption DEF BoundsOK
  <2>3. IsABag(net)'
    BY <1>1, <1>2 DEF BoundsOK
  <2> QED BY <1>1, <1>2, <2>1, <2>2, <2>3 DEF BoundsOK
<1>4. restarts' # 0
  BY <1>1, <1>2 DEF BoundsOK
<1>5. OnTheWay' \subseteq OnTheWay
  <2>1. \A q \in NodeId : pending'[q] \subseteq pending[q]
    BY <1>1, <1>2 DEF BoundsOK
  <2>2. BagToSet(net)' = BagToSet(net)
    BY <1>1
  <2>3. \A q \in NodeId : Held(pending[q])' \subseteq Held(pending[q])
    BY <2>1 DEF Held
  <2> QED BY <2>2, <2>3 DEF OnTheWay
<1>6. DoneOK(settled)'
  BY <1>1 DEF Inv
<1>7. ASSUME NEW q \in NodeId
      PROVE  PeerOK(q, Local(q), settled)'
  <2>1. PeerOK(q, Local(q), settled)
    BY DEF Inv
  <2>2. CASE q = p
    <3>1. /\ Local(p)'.table = EmptyTable /\ Local(p)'.pending = {}
          /\ Local(p)'.toPing = {} /\ Local(p)'.count = Local(p).count
      BY <1>1, <1>2 DEF Local, BoundsOK
    <3> QED BY <1>1, <1>2, <2>1, <2>2, <3>1
            DEF PeerOK, PendingOK, ToPingOK, CountOK
  <2>3. CASE q # p
    <3>1. Local(q)' = Local(q)
      BY <1>1, <1>2, <2>3 DEF Local, BoundsOK
    <3> QED BY <1>1, <2>1, <3>1 DEF PeerOK, PendingOK, ToPingOK, CountOK
  <2> QED BY <2>2, <2>3
<1>8. \A q \in NodeId : ReachOK(q, Local(q))'
  BY <1>4 DEF ReachOK
<1>9. \A m \in OnTheWay' : MessageOK(m, count)' /\ SentOK(m)'
  BY <1>1, <1>4, <1>5 DEF Inv, MessageOK, SentOK
<1>10. \A q \in NodeId : \A r \in pending'[q], m \in OnTheWay' : AskedOne(r, m)'
  <2>1. \A q \in NodeId : pending'[q] \subseteq pending[q]
    BY <1>1, <1>2 DEF BoundsOK
  <2> QED BY <1>5, <2>1 DEF Inv, AskedOne
<1> QED BY <1>3, <1>6, <1>7, <1>8, <1>9, <1>10 DEF Inv

LEMMA InvStarts ==
  ASSUME Init
  PROVE  Inv
<1>1. BoundsOK
  <2>1. EmptyTable \in Table
    BY EmptyTableOK DEF TableOK
  <2>2. IsABag(EmptyBag)
    BY DEF IsABag, EmptyBag, SetToBag
  <2> QED BY <2>1, <2>2, RPCAssumption DEF Init, BoundsOK
<1>2. DoneOK(settled)
  BY DEF Init, DoneOK
<1>3. OnTheWay = {}
  BY DEF Init, OnTheWay, Held, EmptyBag, SetToBag, BagToSet
<1>4. ASSUME NEW p \in NodeId
      PROVE  PeerOK(p, Local(p), settled)
  <2>1. /\ Local(p).table = EmptyTable /\ Local(p).pending = {}
        /\ Local(p).toPing = {} /\ Local(p).count = 0
    BY DEF Local, Init
  <2> QED BY <2>1, EmptyTableOK DEF Init, PeerOK, PendingOK, ToPingOK, CountOK
<1>5. ASSUME NEW p \in NodeId
      PROVE  ReachOK(p, Local(p))
  <2>1. Local(p).table = EmptyTable /\ Local(p).pending = {}
    BY DEF Local, Init
  <2>2. Filed(EmptyTable) = {}
    <3>1. \A i \in BucketIds : EmptyTable[i] = EmptyBucket
      BY DEF EmptyTable
    <3>2. ObjectsOf(EmptyBucket) = {}
      BY DEF ObjectsOf, EmptyBucket
    <3> QED BY <3>1, <3>2 DEF Filed
  <2> QED BY <2>1, <2>2 DEF ReachOK
<1> QED BY <1>1, <1>2, <1>3, <1>4, <1>5 DEF Inv, Init

LEMMA InvStays ==
  ASSUME Inv, [Next]_vars
  PROVE  Inv'
<1>1. ASSUME NEW p \in NodeId, Bootstrap(p)
      PROVE  Inv'
  BY <1>1, BootstrapOK
<1>2. ASSUME NEW p \in NodeId, NEW q \in NodeId, NEW subject \in Subject,
             Find(p, GetNode(table[p], p, q), subject)
      PROVE  Inv'
  BY <1>2, FindOK
<1>3. ASSUME NEW p \in NodeId, NEW named \in toPing[p], PingNamed(p, named)
      PROVE  Inv'
  <2>1. PICK e : e = named
    OBVIOUS
  <2> QED BY <1>3, PingNamedOK
<1>4. ASSUME NEW p \in NodeId, NEW m \in BagToSet(net), Receive(p, m)
      PROVE  Inv'
  BY <1>4, ReceiveOK
<1>5. ASSUME NEW p \in NodeId, NEW r \in pending[p], Timeout(p, r)
      PROVE  Inv'
  BY <1>5, TimeoutOK
<1>6. ASSUME NEW p \in NodeId, NEW a \in Address, Restart(p, a)
      PROVE  Inv'
  BY <1>6, RestartOK
<1>7. ASSUME NEW m \in BagToSet(net), Undeliverable(m) \/ Lose(m) \/ Repeat(m)
      PROVE  Inv'
  BY <1>7, LettersOK
<1>8. CASE UNCHANGED vars
  <2>1. IsABag(net)' /\ BagToSet(net)' \subseteq BagToSet(net) /\ lost' \in 0 .. MaxLost
    BY <1>8 DEF vars, Inv, BoundsOK, IsABag, BagToSet
  <2> QED BY <1>8, <2>1, NetworkOK DEF vars
<1> QED BY <1>1, <1>2, <1>3, <1>4, <1>5, <1>6, <1>7, <1>8 DEF Next

-----------------------------------------------------------------------------
(* Theorems.                                                               *)

LEMMA InvCorrect == Spec => []Inv
<1>1. Init => Inv
  BY InvStarts
<1>2. Inv /\ [Next]_vars => Inv'
  BY InvStays
<1> QED BY <1>1, <1>2, PTL DEF Spec

\* Every state has its type: tables, requests, those to be pinged, messages
\* and history, for any number of peers and requests.
THEOREM TypeCorrect == Spec => []TypeOK
<1>1. Inv => TypeOK
  <2>1. SUFFICES ASSUME Inv PROVE TypeOK
    OBVIOUS
  <2>2. BoundsOK /\ settled \subseteq Settled
    BY <2>1 DEF Inv, DoneOK
  <2>3. BagToSet(net) \subseteq Message
    BY <2>1 DEF Inv, OnTheWay, MessageOK
  <2>4. \A p \in NodeId : asks[p] \in 0 .. MaxAsks[p]
    BY <2>2, RPCAssumption DEF BoundsOK
  <2> QED BY <2>2, <2>3, <2>4 DEF BoundsOK, TypeOK
<1> QED BY <1>1, InvCorrect, PTL

\* No promise of sendMessageAndWait is settled twice, whatever comes twice,
\* under the same id from two hands, or after the timer (receiveMessage and
\* the timer both delete the request before they settle it).
THEOREM SettledOnceCorrect == Spec => []SettledOnce
<1>1. Inv => SettledOnce
  <2>1. SUFFICES ASSUME Inv PROVE SettledOnce
    OBVIOUS
  <2>2. \A p \in NodeId : \A r \in pending[p] : r.id \notin IdsOf(settled)
    BY <2>1 DEF Inv, PeerOK, PendingOK, Local
  <2> QED BY <2>1, <2>2 DEF Inv, DoneOK, SettledOnce, IdsOf
<1> QED BY <1>1, InvCorrect, PTL

\* The answer that resolves a lookup's request comes from the contact it
\* asked, also when that one has left its address to another, and though
\* receiveMessage compares ids and types and not senders.
THEOREM AnsweredCorrect == Spec => []AnsweredByAsked
<1>1. Inv => AnsweredByAsked
  BY DEF Inv, DoneOK, AnsweredByAsked
<1> QED BY <1>1, InvCorrect, PTL

\* As long as no peer restarts, the objects that a peer hands out to others
\* have the addresses of their contacts, and their NATs let the peer in:
\* whoever is filed has written to the peer from there.
THEOREM ReachableCorrect == Spec => []ContactsReachable
<1>1. Inv => ContactsReachable
  <2>1. SUFFICES ASSUME Inv, restarts = 0, NEW p \in NodeId, NEW i \in BucketIds,
                        NEW x \in DOMAIN table[p][i].nodes
                 PROVE  LET node == table[p][i].nodes[x]
                        IN /\ node.address = address[node.id]
                           /\ node.id \in Hidden => address[p] \in opened[node.id]
    BY DEF ContactsReachable
  <2>2. table[p][i].nodes[x] \in Filed(table[p])
    BY DEF Filed, ObjectsOf
  <2>3. ReachOK(p, Local(p)) /\ Local(p).table = table[p]
    BY <2>1 DEF Inv, Local
  <2> QED BY <2>1, <2>2, <2>3 DEF ReachOK, Reached
<1> QED BY <1>1, InvCorrect, PTL

-----------------------------------------------------------------------------
(* NothingFails: why nobody's timer rings when nothing goes wrong. For each *)
(* request that waits there is a message on the way that asks, answers or   *)
(* announces; what is held for a key waits on such a request itself, so when *)
(* the network is empty, nothing waits.                                     *)

\* The message m is on its way to the peer q, or q holds it.
OnWayTo(q, m) ==
  (m \in BagToSet(net) /\ Arrives(q, m)) \/ m \in Held(pending[q])

\* What the request r of p asks is on its way.
Asking(p, r) ==
  \E q \in NodeId, m \in OnTheWay :
    OnWayTo(q, m) /\ m.type = r.type /\ m.id = r.id /\ m.from = p

Replied(p, r) == \E m \in OnTheWay : OnWayTo(p, m) /\ Answers(r, m)

\* The peer q is being told to expect a ping of p, and to answer it under id.
Announced(p, q, id) ==
  \E m \in OnTheWay :
    /\ OnWayTo(q, m) /\ m.type = "PING_FORWARD" /\ ForwardedId(q, m.id) = id
    /\ m.nodes = {[id |-> p, address |-> address[p]]}

\* The ping itself may not have got through the NAT of the other peer, but it
\* has opened the one of p.
Punching(p, r) ==
  /\ r.purpose = "punch"
  /\ Announced(p, r.to.id, r.id)
  /\ address[r.to.id] \in opened[p]

Covered(p, r) == Asking(p, r) \/ Replied(p, r) \/ Punching(p, r)

\* A peer that was named to p, in the answer to the lookup id, can be met.
Met(p, n, id) ==
  /\ n.address = address[n.id]
  /\ \/ n.id \in Hidden => address[p] \in opened[n.id]
     \/ Announced(p, n.id, ForwardedId(n.id, id))

\* The request for a key is put to the sender of the message held.
KeyAsked(r, m) ==
  r.purpose = "key" /\ r.id = m.id =>
    /\ m.type = "PING" => m.toAddress = address[r.held.from]
    /\ m.type = "PING_REPLY" => m.from = r.held.from

QuietInv ==
  restarts = 0 =>
    /\ address = Home
    /\ \A a \in settled : a.answer # NoNode
    /\ \A p \in NodeId : \A r \in pending[p] :
         Covered(p, r) /\ (r.purpose = "key" => r.to.id = r.held.from)
    /\ \A p \in NodeId : \A e \in toPing[p] : Met(p, e.node, e.id)
    /\ \A m \in OnTheWay : m.type = "FIND_NODE_REPLY" =>
         \A n \in m.nodes : Met(m.to, n, m.id)
    /\ \A p \in NodeId : \A r \in pending[p], m \in OnTheWay : KeyAsked(r, m)

-----------------------------------------------------------------------------
(* What holds of the state a handler works on, when it has dealt with the   *)
(* messages of the set "over".                                              *)

\* The request for a key has a number that no message on the way has.
NewKey(p, r) ==
  r.id.n > count[p] /\ r.to.id = r.held.from /\ r.held \in OnTheWay

\* A request that is new: its question has just been sent.
Launched(p, s, r) ==
  /\ \/ \E l \in BagToSet(s.out), q \in NodeId :
          l.type = r.type /\ l.id = r.id /\ l.from = p /\ Arrives(q, l)
     \/ /\ r.purpose = "punch" /\ Announced(p, r.to.id, r.id)
        /\ \E l \in BagToSet(s.out) : l.toAddress = address[r.to.id]
  /\ r.purpose = "key" => NewKey(p, r)

\* A message is answered.
Served(p, s, m) ==
  /\ m.type = "PING" =>
       \E l \in BagToSet(s.out) :
         l.type = "PING_REPLY" /\ l.id = m.id /\ Arrives(m.from, l)
  /\ m.type = "FIND_NODE" =>
       \E l \in BagToSet(s.out) :
         l.type = "FIND_NODE_REPLY" /\ l.id = m.id /\ Arrives(m.from, l)
  /\ m.type = "PING_FORWARD" =>
       \E l \in BagToSet(s.out), n \in m.nodes :
         /\ l.type = "PING_REPLY" /\ l.id = ForwardedId(p, m.id)
         /\ l.to = n.id /\ l.toAddress = n.address /\ l.fromAddress = address[p]

\* What a letter that is sent has to do with requests, messages and letters.
LetterQuiet(p, s, over, l) ==
  /\ l.from = p
  /\ l.type = "PING" =>
       l.id.by = p /\ \A r \in s.pending :
                        r.purpose = "key" /\ r.id = l.id => l.toAddress = r.to.address
  /\ l.type = "PING_REPLY" =>
       \/ l.id.via # NoNode
       \/ \E m \in over : m.type = "PING" /\ m.id = l.id
  /\ l.type = "FIND_NODE_REPLY" =>
       \A n \in l.nodes :
         /\ n.address = address[n.id]
         /\ \E f \in BagToSet(s.out) :
              /\ f.type = "PING_FORWARD" /\ f.id = l.id /\ Arrives(n.id, f)
              /\ f.nodes = {[id |-> l.to, address |-> address[l.to]]}

QuietLocal(p, s, over) ==
  /\ \A r \in s.pending : r \in pending[p] \/ Launched(p, s, r)
  /\ \A r \in s.pending, m \in over : ~Answers(r, m)
  /\ \A m \in over : Served(p, s, m)
  /\ \A e \in s.toPing :
       \/ e \in toPing[p]
       \/ \E m \in over : /\ m.type = "FIND_NODE_REPLY" /\ m.to = p
                          /\ e.node \in m.nodes /\ e.id = m.id
  /\ \A l \in BagToSet(s.out) : LetterQuiet(p, s, over, l)
  /\ \A a \in s.settled : a.answer # NoNode

\* Who held a message that is not dealt with holds it still.
KeysKept(p, s, over) ==
  \A r \in pending[p] : r \in s.pending \/ (r.purpose = "key" => r.held \in over)

-----------------------------------------------------------------------------
LEMMA LocalQuiet ==
  ASSUME NEW p
  PROVE  QuietLocal(p, Local(p), {}) /\ KeysKept(p, Local(p), {})
<1>1. /\ Local(p).pending = pending[p] /\ Local(p).toPing = toPing[p]
      /\ Local(p).out = EmptyBag /\ Local(p).settled = {}
  BY DEF Local
<1>2. BagToSet(EmptyBag) = {}
  BY DEF EmptyBag, SetToBag, BagToSet
<1> QED BY <1>1, <1>2 DEF QuietLocal, KeysKept

LEMMA SendFields ==
  ASSUME NEW s, Shape(s), NEW letters
  PROVE  LET u == Send(s, letters)
         IN /\ Shape(u) /\ u.table = s.table /\ u.pending = s.pending
            /\ u.toPing = s.toPing /\ u.count = s.count /\ u.settled = s.settled
            /\ BagToSet(u.out) = BagToSet(s.out) \cup letters
<1> DEFINE u == Send(s, letters)
<1>1. /\ Shape(u) /\ u.table = s.table /\ u.pending = s.pending
      /\ u.toPing = s.toPing /\ u.count = s.count
      /\ u.out = s.out (+) SetToBag(letters) /\ u.settled = s.settled
  BY DEF Shape, Send
<1> HIDE DEF u
<1>2. BagToSet(u.out) = BagToSet(s.out) \cup letters
  BY <1>1 DEF BagToSet, SetToBag, (+)
<1> QED BY <1>1, <1>2 DEF u

Letters(p, requests, subject) ==
  {Letter(p, r.to, r.type, r.id, subject, {}) : r \in requests}

LEMMA AwaitFields ==
  ASSUME NEW p, NEW s, Shape(s), NEW requests, NEW subject, NEW number
  PROVE  LET u == Counted(SendAndWait(s, p, requests, subject), number)
         IN /\ Shape(u) /\ u.table = s.table
            /\ u.pending = s.pending \cup requests
            /\ u.toPing = s.toPing /\ u.settled = s.settled
            /\ BagToSet(u.out) = BagToSet(s.out) \cup Letters(p, requests, subject)
<1> DEFINE letters == {Letter(p, r.to, r.type, r.id, subject, {}) : r \in requests}
           sent == Send(s, letters)
           waiting == s.pending \cup requests
           v == [sent EXCEPT !.pending = waiting]
           given == v.count + number
<1>1. /\ Shape(sent) /\ sent.table = s.table /\ sent.pending = s.pending
      /\ sent.toPing = s.toPing /\ sent.settled = s.settled
      /\ BagToSet(sent.out) = BagToSet(s.out) \cup letters
  BY SendFields
<1>2. SendAndWait(s, p, requests, subject) = v
  <2> HIDE DEF letters
  <2>1. SendAndWait(s, p, requests, subject) = [sent EXCEPT !.pending = @ \cup requests]
    BY DEF SendAndWait, letters
  <2> QED BY <1>1, <2>1
<1> HIDE DEF sent, letters, waiting
<1>3. /\ Shape(v) /\ v.table = s.table /\ v.pending = waiting
      /\ v.toPing = s.toPing /\ v.settled = s.settled /\ v.out = sent.out
  BY <1>1 DEF Shape
<1>4. Counted(v, number) = [v EXCEPT !.count = given]
  BY DEF Counted
<1> HIDE DEF v, given
<1>5. /\ Shape([v EXCEPT !.count = given])
      /\ [v EXCEPT !.count = given].table = v.table
      /\ [v EXCEPT !.count = given].pending = v.pending
      /\ [v EXCEPT !.count = given].toPing = v.toPing
      /\ [v EXCEPT !.count = given].settled = v.settled
      /\ [v EXCEPT !.count = given].out = v.out
  BY <1>3 DEF Shape
<1> QED BY <1>1, <1>2, <1>3, <1>4, <1>5 DEF letters, waiting, Letters

\* The peer can send to whomever it can reach.
LEMMA ReachedArrives ==
  ASSUME NEW p, NEW o, Reached(p, o), NEW type, NEW id, NEW subject, NEW nodes
  PROVE  LET l == Letter(p, o, type, id, subject, nodes)
         IN Arrives(o.id, l)
<1> DEFINE l == Letter(p, o, type, id, subject, nodes)
<1>1. l.toAddress = o.address /\ l.fromAddress = address[p] /\ l.to = o.id
  BY DEF Letter
<1> HIDE DEF l
<1>2. Arrives(o.id, l)
  BY <1>1 DEF Reached, Arrives
<1> QED BY <1>2 DEF l

\* Letters are sent, and some messages dealt with by it.
LEMMA SendQuiet ==
  ASSUME NEW p, NEW s, Shape(s), NEW over, QuietLocal(p, s, over),
         NEW letters, NEW more, over \subseteq more,
         \A l \in letters : LetterQuiet(p, Send(s, letters), more, l),
         \A m \in more : m \in over \/ /\ Served(p, Send(s, letters), m)
                                       /\ \A r \in s.pending : ~Answers(r, m)
  PROVE  QuietLocal(p, Send(s, letters), more)
<1> DEFINE u == Send(s, letters)
<1>1. /\ u.pending = s.pending /\ u.toPing = s.toPing /\ u.settled = s.settled
      /\ BagToSet(s.out) \subseteq BagToSet(u.out)
      /\ BagToSet(u.out) = BagToSet(s.out) \cup letters
  BY SendFields
<1> HIDE DEF u
<1>2. \A r \in u.pending : r \in pending[p] \/ Launched(p, u, r)
  BY <1>1 DEF QuietLocal, Launched
<1>3. \A r \in u.pending, m \in more : ~Answers(r, m)
  BY <1>1 DEF QuietLocal
<1>4. \A m \in more : Served(p, u, m)
  <2>1. \A m \in over : Served(p, u, m)
    BY <1>1 DEF QuietLocal, Served
  <2> QED BY <2>1 DEF u
<1>5. \A l \in BagToSet(u.out) : LetterQuiet(p, u, more, l)
  <2>1. \A l \in BagToSet(s.out) : LetterQuiet(p, u, more, l)
    BY <1>1 DEF QuietLocal, LetterQuiet
  <2> QED BY <1>1, <2>1 DEF u
<1>6. QuietLocal(p, u, more)
  BY <1>1, <1>2, <1>3, <1>4, <1>5 DEF QuietLocal
<1> QED BY <1>6 DEF u

\* Requests are sent whose questions arrive.
LEMMA AwaitQuiet ==
  ASSUME NEW p, NEW s, Shape(s), NEW over, QuietLocal(p, s, over),
         NEW requests, NEW subject, NEW number,
         \A r \in requests :
           /\ Launched(p, Counted(SendAndWait(s, p, requests, subject), number), r)
           /\ \A m \in over : m.id # r.id
           /\ r.type \in {"PING", "FIND_NODE"} /\ r.id.by = p
           /\ \A q \in s.pending : q.id # r.id
           /\ r.purpose = "key" => BagToSet(s.out) = {},
         \A q, r \in requests : q.id = r.id => q = r
  PROVE  QuietLocal(p, Counted(SendAndWait(s, p, requests, subject), number), over)
<1> DEFINE u == Counted(SendAndWait(s, p, requests, subject), number)
           letters == Letters(p, requests, subject)
<1>1. /\ u.pending = s.pending \cup requests /\ u.toPing = s.toPing
      /\ u.settled = s.settled
      /\ BagToSet(u.out) = BagToSet(s.out) \cup letters
  BY AwaitFields
<1>2. \A r \in requests : Launched(p, u, r)
  OBVIOUS
<1>3. ASSUME NEW l \in letters
      PROVE  LetterQuiet(p, u, over, l)
  <2>1. PICK r \in requests : l = Letter(p, r.to, r.type, r.id, subject, {})
    BY DEF Letters
  <2>2. l.type = r.type /\ l.id = r.id /\ l.toAddress = r.to.address /\ l.from = p
    BY <2>1 DEF Letter
  <2>3. \A q \in u.pending : q.id = l.id => q = r
    BY <1>1, <2>2
  <2> HIDE DEF u
  <2> QED BY <2>2, <2>3 DEF LetterQuiet
<1> HIDE DEF u, letters
<1>4. \A r \in u.pending : r \in pending[p] \/ Launched(p, u, r)
  <2>1. ASSUME NEW r \in s.pending, r \notin pending[p]
        PROVE  Launched(p, u, r)
    <3>1. Launched(p, s, r)
      BY <2>1 DEF QuietLocal
    <3> QED BY <1>1, <3>1 DEF Launched
  <2> QED BY <1>1, <1>2, <2>1
<1>5. \A r \in u.pending, m \in over : ~Answers(r, m)
  <2>1. \A r \in requests, m \in over : ~Answers(r, m)
    BY DEF Answers
  <2> QED BY <1>1, <2>1 DEF QuietLocal
<1>6. \A m \in over : Served(p, u, m)
  BY <1>1 DEF QuietLocal, Served
<1>7. \A l \in BagToSet(s.out) : LetterQuiet(p, u, over, l)
  BY <1>1 DEF QuietLocal, LetterQuiet
<1>8. QuietLocal(p, u, over)
  BY <1>1, <1>3, <1>4, <1>5, <1>6, <1>7 DEF QuietLocal
<1> QED BY <1>8 DEF u

\* The question of a request to someone who can be reached arrives.
LEMMA ReachedLaunched ==
  ASSUME NEW p, NEW s, Shape(s), NEW requests, NEW subject, NEW number,
         NEW r \in requests, Reached(p, r.to), r.to.id \in NodeId,
         r.purpose = "key" => NewKey(p, r)
  PROVE  Launched(p, Counted(SendAndWait(s, p, requests, subject), number), r)
<1> DEFINE u == Counted(SendAndWait(s, p, requests, subject), number)
           l == Letter(p, r.to, r.type, r.id, subject, {})
<1>1. /\ Shape(u) /\ u.table = s.table
      /\ u.pending = s.pending \cup requests
      /\ u.toPing = s.toPing /\ u.settled = s.settled
      /\ BagToSet(u.out) = BagToSet(s.out) \cup Letters(p, requests, subject)
  BY AwaitFields
<1> HIDE DEF u
<1>2. l \in BagToSet(u.out)
  BY <1>1 DEF Letters
<1>3. l.type = r.type /\ l.id = r.id /\ l.from = p
  BY DEF Letter
<1>4. Arrives(r.to.id, l)
  BY ReachedArrives
<1> HIDE DEF l
<1>5. Launched(p, u, r)
  BY <1>2, <1>3, <1>4 DEF Launched
<1> QED BY <1>5 DEF u

\* The contacts of a bucket that are pinged are filed in it.
LEMMA LeastRecentFiled ==
  ASSUME NEW b \in Bucket, NEW x \in DOMAIN GetLeastRecentNodes(b, Concurrency)
  PROVE  GetLeastRecentNodes(b, Concurrency)[x] \in ObjectsOf(b)
<1> DEFINE s == Reverse(b.nodes)
           n == IF Concurrency < Len(b.nodes) THEN Concurrency ELSE Len(b.nodes)
<1>1. b.nodes \in Seq(Node) /\ Len(b.nodes) \in Nat /\ DOMAIN b.nodes = 1 .. Len(b.nodes)
  BY LenProperties DEF Bucket
<1>2. n \in Nat /\ n <= Len(b.nodes)
  BY <1>1, RPCAssumption
<1>3. \A i \in 1 .. Len(b.nodes) :
        s[i] = b.nodes[(Len(b.nodes) - i) + 1] /\ (Len(b.nodes) - i) + 1 \in DOMAIN b.nodes
  BY <1>1 DEF Reverse
<1>4. \A i \in 1 .. n : s[i] \in ObjectsOf(b)
  <2> HIDE DEF s, n
  <2>1. \A i \in 1 .. n : i \in 1 .. Len(b.nodes)
    BY <1>1, <1>2
  <2> QED BY <1>3, <2>1 DEF ObjectsOf
<1>5. GetLeastRecentNodes(b, Concurrency) = SubSeq(s, 1, n)
  BY DEF GetLeastRecentNodes
<1>6. \A i \in 1 .. n : s[i] \in ObjectsOf(b)
  BY <1>4
<1> HIDE DEF s, n
<1>7. /\ DOMAIN SubSeq(s, 1, n) = 1 .. n
      /\ \A i \in 1 .. n : SubSeq(s, 1, n)[i] = s[i]
  <2>1. 1 \in Int /\ n \in Int /\ \A i \in 1 .. n : s[i] \in ObjectsOf(b)
    BY <1>2, <1>4
  <2>2. /\ SubSeq(s, 1, n) \in Seq(ObjectsOf(b))
        /\ Len(SubSeq(s, 1, n)) = IF 1 <= n THEN n - 1 + 1 ELSE 0
        /\ \A i \in 1 .. n - 1 + 1 : SubSeq(s, 1, n)[i] = s[1 + i - 1]
    BY <2>1, SubSeqProperties
  <2> QED BY <1>2, <2>2, LenProperties
<1> QED BY <1>5, <1>6, <1>7

\* Admit is a table that changes, and pings to contacts that are filed in it.
LEMMA AdmitFacts ==
  ASSUME NEW p \in NodeId, NEW s, LocalOK(p, s), BoundsOK, NEW node \in Node
  PROVE  \E t, pings, number :
           /\ Admit(s, p, node) = Counted(SendAndWait(t, p, pings, NoNode), number)
           /\ Shape(t) /\ t.pending = s.pending /\ t.toPing = s.toPing
           /\ t.out = s.out /\ t.settled = s.settled
           /\ \A o \in Filed(t.table) : o = node \/ o \in Filed(s.table)
           /\ \A r \in pings :
                /\ r.type = "PING" /\ r.purpose = "evict" /\ r.id.by = p
                /\ r.id.n \in Nat /\ r.id.n > s.count
                /\ r.to.id \in NodeId /\ r.to \in Filed(t.table)
           /\ \A q, r \in pings : q.id = r.id => q = r
<1> DEFINE after  == TableWith(s.table, p, node)
           b      == after[BucketOf(p, node.id)]
           oldest == IF Overflows(s.table, p, node)
                     THEN GetLeastRecentNodes(b, Concurrency) ELSE <<>>
           Evict(x) == Awaited(oldest[x], "PING", FreshId(s, p, x), "evict", NoNode)
           pings  == {Evict(x) : x \in DOMAIN oldest}
           t      == [s EXCEPT !.table = after]
<1>1. node.id \in NodeId /\ BucketOf(p, node.id) \in BucketIds
  BY BucketInRange DEF Node
<1>2. TableOK(s.table, p) /\ Shape(s) /\ s.count \in Nat
  BY DEF LocalOK, PeerOK, CountOK
<1>3. TableOK(after, p) /\ \A o \in Filed(after) : o = node \/ o \in Filed(s.table)
  BY <1>2, TableWithOK DEF Filed
<1>4. \A o \in Filed(after) : o.id \in NodeId
  <2> HIDE DEF after
  <2> QED BY <1>3, FiledFacts
<1>5. /\ Shape(t) /\ t.table = after /\ t.pending = s.pending /\ t.toPing = s.toPing
      /\ t.out = s.out /\ t.settled = s.settled
  <2> HIDE DEF after
  <2> QED BY <1>2 DEF Shape
<1>6. Admit(s, p, node) = Counted(SendAndWait(t, p, pings, NoNode), Len(oldest))
  BY DEF Admit
<1>7. /\ DOMAIN oldest \subseteq Nat \ {0}
      /\ \A x \in DOMAIN oldest : oldest[x].id \in NodeId /\ oldest[x] \in Filed(after)
  <2>1. b \in Bucket /\ b \in {after[i] : i \in BucketIds}
    BY <1>1, <1>3 DEF TableOK, Table
  <2>2. ObjectsOf(b) \subseteq Filed(after)
    BY <1>1 DEF Filed
  <2> HIDE DEF b
  <2>3. GetLeastRecentNodes(b, Concurrency) \in Seq(Node)
    BY <2>1, LeastRecentFacts
  <2>4. \A x \in DOMAIN GetLeastRecentNodes(b, Concurrency) :
          GetLeastRecentNodes(b, Concurrency)[x] \in Filed(after)
    BY <2>1, <2>2, LeastRecentFiled
  <2>5. oldest \in Seq(Node)
    BY <2>3, EmptySeq
  <2>6. DOMAIN oldest \subseteq Nat \ {0}
    BY <2>5, LenProperties
  <2>7. \A x \in DOMAIN oldest : oldest[x] \in Filed(after)
    BY <2>4, EmptySeq
  <2> QED BY <1>4, <2>6, <2>7
<1> HIDE DEF t, oldest
<1>8. ASSUME NEW x \in DOMAIN oldest
      PROVE  /\ Evict(x).type = "PING" /\ Evict(x).purpose = "evict"
             /\ Evict(x).id.by = p /\ Evict(x).id.n = s.count + x
             /\ Evict(x).to = oldest[x]
  BY DEF Awaited, FreshId
<1> HIDE DEF Evict
<1>9. \A r \in pings :
        /\ r.type = "PING" /\ r.purpose = "evict" /\ r.id.by = p
        /\ r.id.n \in Nat /\ r.id.n > s.count
        /\ r.to.id \in NodeId /\ r.to \in Filed(t.table)
  <2>1. SUFFICES ASSUME NEW x \in DOMAIN oldest
                 PROVE  /\ Evict(x).type = "PING" /\ Evict(x).purpose = "evict"
                        /\ Evict(x).id.by = p
                        /\ Evict(x).id.n \in Nat /\ Evict(x).id.n > s.count
                        /\ Evict(x).to.id \in NodeId /\ Evict(x).to \in Filed(t.table)
    OBVIOUS
  <2>2. x \in Nat \ {0}
    BY <1>7
  <2>3. s.count + x \in Nat /\ s.count + x > s.count
    BY <1>2, <2>2
  <2> QED BY <1>5, <1>7, <1>8, <2>3
<1>10. \A q, r \in pings : q.id = r.id => q = r
  <2>1. SUFFICES ASSUME NEW x \in DOMAIN oldest, NEW y \in DOMAIN oldest,
                        Evict(x).id = Evict(y).id
                 PROVE  x = y
    OBVIOUS
  <2>2. s.count + x = s.count + y
    BY <1>8, <2>1
  <2>3. x \in Nat /\ y \in Nat
    BY <1>7
  <2> QED BY <1>2, <2>2, <2>3
<1>11. \A o \in Filed(t.table) : o = node \/ o \in Filed(s.table)
  BY <1>3, <1>5
<1> HIDE DEF pings
<1> QED BY <1>5, <1>6, <1>9, <1>10, <1>11

\* Numbers given out since are not those of messages that were on the way.
LEMMA OldNumber ==
  ASSUME NEW p \in NodeId, NEW s, LocalOK(p, s), BoundsOK, NEW m, MessageOK(m, count),
         NEW id, id.by = p, id.n \in Nat, id.n > s.count
  PROVE  m.id # id
<1>1. s.count \in Nat /\ s.count >= count[p] /\ count[p] \in Nat
  BY BoundsFacts DEF LocalOK, PeerOK, CountOK, NewOK
<1>2. m.id.n <= count[m.id.by] /\ m.id.n \in Nat
  BY DEF MessageOK, Message, MessageId
<1> QED BY <1>1, <1>2

LEMMA AdmitQuiet ==
  ASSUME NEW p \in NodeId, NEW s, LocalOK(p, s), BoundsOK, NEW node \in Node,
         restarts = 0, Reached(p, node), NEW over, QuietLocal(p, s, over),
         \A m \in over : MessageOK(m, count)
  PROVE  LET u == Admit(s, p, node)
         IN /\ QuietLocal(p, u, over)
            /\ \A r \in s.pending : r \in u.pending
<1>1. PICK t, pings, number :
        /\ Admit(s, p, node) = Counted(SendAndWait(t, p, pings, NoNode), number)
        /\ Shape(t) /\ t.pending = s.pending /\ t.toPing = s.toPing
        /\ t.out = s.out /\ t.settled = s.settled
        /\ \A o \in Filed(t.table) : o = node \/ o \in Filed(s.table)
        /\ \A r \in pings :
             /\ r.type = "PING" /\ r.purpose = "evict" /\ r.id.by = p
             /\ r.id.n \in Nat /\ r.id.n > s.count
             /\ r.to.id \in NodeId /\ r.to \in Filed(t.table)
        /\ \A q, r \in pings : q.id = r.id => q = r
  BY AdmitFacts
<1> DEFINE u == Counted(SendAndWait(t, p, pings, NoNode), number)
<1>2. QuietLocal(p, t, over)
  BY <1>1 DEF QuietLocal, Launched, Served, LetterQuiet
<1>3. \A r \in pings : Launched(p, u, r)
  <2>1. \A r \in pings : Reached(p, r.to)
    BY <1>1 DEF LocalOK, ReachOK
  <2> QED BY <1>1, <2>1, ReachedLaunched
<1>4. \A r \in pings : \A m \in over : m.id # r.id
  BY <1>1, OldNumber
<1>5. \A r \in pings, q \in t.pending : q.id # r.id
  <2>1. s.count \in Nat
    BY DEF LocalOK, PeerOK, CountOK
  <2>2. \A q \in s.pending : q.id.n <= s.count /\ q.id.n \in Nat
    BY DEF LocalOK, PeerOK, PendingOK, RequestOK, Request, MessageId
  <2> QED BY <1>1, <2>1, <2>2
<1>6. QuietLocal(p, u, over)
  BY <1>1, <1>2, <1>3, <1>4, <1>5, AwaitQuiet
<1>7. u.pending = t.pending \cup pings
  BY <1>1, AwaitFields
<1> QED BY <1>1, <1>6, <1>7

\* The answer to a message that someone sent who can be reached.
LEMMA ReplyQuiet ==
  ASSUME NEW p \in NodeId, NEW s, Shape(s), NEW over, QuietLocal(p, s, over),
         NEW m, m.type = "PING", NEW to, Reached(p, to), to.id = m.from
  PROVE  /\ QuietLocal(p, Reply(s, p, to, m, {}), over \cup {m})
         /\ Reply(s, p, to, m, {}).pending = s.pending
<1> DEFINE l == Letter(p, to, "PING_REPLY", m.id, NoNode, {})
           u == Send(s, {l})
<1>1. Reply(s, p, to, m, {}) = u
  BY DEF Reply
<1>2. l.type = "PING_REPLY" /\ l.id = m.id /\ l.from = p
  BY DEF Letter
<1>3. Arrives(m.from, l)
  BY ReachedArrives
<1> HIDE DEF l
<1>4. u.pending = s.pending /\ l \in BagToSet(u.out)
  BY SendFields
<1> HIDE DEF u
<1>5. Served(p, u, m)
  BY <1>2, <1>3, <1>4 DEF Served
<1>6. \A r \in s.pending : ~Answers(r, m)
  BY DEF Answers
<1>7. LetterQuiet(p, u, over \cup {m}, l)
  BY <1>2 DEF LetterQuiet
<1>8. QuietLocal(p, u, over \cup {m})
  BY <1>5, <1>6, <1>7, SendQuiet DEF u
<1> QED BY <1>1, <1>4, <1>8

\* Only contacts that are filed are handed out, and asked.
LEMMA ClosestFiled ==
  ASSUME NEW p \in NodeId, NEW tab, TableOK(tab, p), NEW subject \in NodeId
  PROVE  ToSet(GetClosestNodes(tab, p, subject, NodesPerBucket)) \subseteq Filed(tab)
<1> DEFINE closest == GetClosestNodes(tab, p, subject, NodesPerBucket)
           centre == BucketOf(p, subject)
<1>1. centre \in BucketIds
  BY BucketInRange
<1>2. LET nodes  == GetClosestNodes(tab, p, subject, NodesPerBucket)
          middle == BucketOf(p, subject)
      IN /\ nodes \in Seq(Node) /\ Distinct(nodes) /\ middle \in BucketIds
         /\ \E k \in Nat :
              /\ ToSet(nodes) = UNION {ToSet(tab[i].nodes) : i \in Before(middle, k)}
              /\ Len(nodes) >= NodesPerBucket \/ Before(middle, k) = BucketIds
  BY ONLY <1>1, ClosestFacts, p \in NodeId, TableOK(tab, p)
<1>3. \E k \in Nat : ToSet(closest) = UNION {ToSet(tab[i].nodes) : i \in Before(centre, k)}
  BY <1>2
<1> HIDE DEF closest
<1>4. PICK k \in Nat : ToSet(closest) = UNION {ToSet(tab[i].nodes) : i \in Before(centre, k)}
  BY <1>3
<1>5. Before(centre, k) \subseteq BucketIds
  BY DEF Before
<1>6. \A i \in BucketIds : ToSet(tab[i].nodes) \subseteq ObjectsOf(tab[i])
  BY DEF ToSet, ObjectsOf
<1>7. ToSet(closest) \subseteq Filed(tab)
  BY <1>4, <1>5, <1>6 DEF Filed
<1> QED BY <1>7 DEF closest

LEMMA AnswerFindQuiet ==
  ASSUME NEW p \in NodeId, NEW s, LocalOK(p, s), restarts = 0,
         NEW over, QuietLocal(p, s, over), NEW m, m.type = "FIND_NODE",
         m.subject \in NodeId, NEW node \in Node, Reached(p, node), node.id = m.from
  PROVE  /\ QuietLocal(p, AnswerFind(s, p, node, m), over \cup {m})
         /\ AnswerFind(s, p, node, m).pending = s.pending
<1> DEFINE closest == GetClosestNodes(s.table, p, m.subject, NodesPerBucket)
           named == {n \in ToSet(closest) : n.id # node.id}
           Forward(n) == Letter(p, n, "PING_FORWARD", m.id, NoNode, {node})
           forwards == {Forward(n) : n \in named}
           t == Send(s, forwards)
           l == Letter(p, node, "FIND_NODE_REPLY", m.id, NoNode, named)
           u == Send(t, {l})
<1>1. AnswerFind(s, p, node, m) = u
  BY DEF AnswerFind, Reply
<1>2. \A n \in named : Reached(p, n)
  <2>1. TableOK(s.table, p)
    BY DEF LocalOK, PeerOK
  <2>2. ToSet(closest) \subseteq Filed(s.table)
    BY <2>1, ClosestFiled
  <2> HIDE DEF closest
  <2> QED BY <2>2 DEF LocalOK, ReachOK
<1> HIDE DEF named
<1>3. Shape(s)
  BY DEF LocalOK
<1>4. \A n \in named : /\ Forward(n).type = "PING_FORWARD" /\ Forward(n).id = m.id
                       /\ Forward(n).nodes = {node} /\ Forward(n).from = p
                       /\ Arrives(n.id, Forward(n))
  <2>1. ASSUME NEW n \in named
        PROVE  Arrives(n.id, Forward(n))
    BY <1>2, ReachedArrives
  <2> QED BY <2>1 DEF Letter
<1>5. /\ l.type = "FIND_NODE_REPLY" /\ l.id = m.id /\ l.to = node.id
      /\ l.nodes = named /\ l.from = p
  BY DEF Letter
<1>6. Arrives(m.from, l)
  BY ReachedArrives
<1> HIDE DEF Forward, l
<1>7. Shape(t) /\ t.pending = s.pending /\ forwards \subseteq BagToSet(t.out)
  BY <1>3, SendFields
<1>8. QuietLocal(p, t, over)
  <2>1. \A f \in forwards : LetterQuiet(p, t, over, f)
    <3> HIDE DEF t
    <3> QED BY <1>4 DEF LetterQuiet
  <2> HIDE DEF forwards
  <2> QED BY <1>3, <2>1, SendQuiet
<1> HIDE DEF t
<1>9. u.pending = t.pending /\ BagToSet(u.out) = BagToSet(t.out) \cup {l}
  BY <1>7, SendFields
<1> HIDE DEF u
<1>10. Served(p, u, m)
  BY <1>5, <1>6, <1>9 DEF Served
<1>11. \A r \in t.pending : ~Answers(r, m)
  BY DEF Answers
<1>12. LetterQuiet(p, u, over \cup {m}, l)
  <2>1. node = [id |-> l.to, address |-> address[l.to]]
    BY <1>5 DEF Reached, Node
  <2>2. ASSUME NEW n \in l.nodes
        PROVE  /\ n.address = address[n.id]
               /\ \E f \in BagToSet(u.out) :
                    /\ f.type = "PING_FORWARD" /\ f.id = l.id /\ Arrives(n.id, f)
                    /\ f.nodes = {[id |-> l.to, address |-> address[l.to]]}
    <3>1. n \in named /\ Forward(n) \in BagToSet(u.out)
      BY <1>5, <1>7, <1>9
    <3>2. n.address = address[n.id]
      BY <1>2, <3>1 DEF Reached
    <3> QED BY <1>4, <1>5, <2>1, <3>1, <3>2
  <2> QED BY <1>5, <2>2 DEF LetterQuiet
<1>13. QuietLocal(p, u, over \cup {m})
  BY <1>7, <1>8, <1>10, <1>11, <1>12, SendQuiet DEF u
<1> QED BY <1>1, <1>7, <1>9, <1>13

LEMMA AnswerForwardQuiet ==
  ASSUME NEW p \in NodeId, NEW s, Shape(s), NEW over, QuietLocal(p, s, over),
         NEW m, m.type = "PING_FORWARD", m.id \in MessageId, m.nodes # {}
  PROVE  /\ QuietLocal(p, AnswerForward(s, p, m), over \cup {m})
         /\ AnswerForward(s, p, m).pending = s.pending
<1> DEFINE asker == CHOOSE node \in m.nodes : TRUE
           l == Letter(p, asker, "PING_REPLY", ForwardedId(p, m.id), NoNode, {})
           u == Send(s, {l})
<1>1. AnswerForward(s, p, m) = u
  BY DEF AnswerForward
<1>2. asker \in m.nodes
  OBVIOUS
<1> HIDE DEF asker
<1>3. /\ l.type = "PING_REPLY" /\ l.id = ForwardedId(p, m.id) /\ l.to = asker.id
      /\ l.toAddress = asker.address /\ l.fromAddress = address[p] /\ l.from = p
  BY DEF Letter
<1> HIDE DEF l
<1>4. u.pending = s.pending /\ l \in BagToSet(u.out)
  BY SendFields
<1> HIDE DEF u
<1>5. Served(p, u, m)
  BY <1>2, <1>3, <1>4 DEF Served
<1>6. \A r \in s.pending : ~Answers(r, m)
  BY DEF Answers
<1>7. l.id.via # NoNode
  BY <1>3, RPCAssumption DEF ForwardedId, MessageId
<1>8. LetterQuiet(p, u, over \cup {m}, l)
  BY <1>3, <1>7 DEF LetterQuiet
<1>9. QuietLocal(p, u, over \cup {m})
  BY <1>5, <1>6, <1>8, SendQuiet DEF u
<1> QED BY <1>1, <1>4, <1>9

\* A reply that answers no request, or the one request it answers.
LEMMA ResolveQuiet ==
  ASSUME NEW p \in NodeId, NEW s, LocalOK(p, s), NEW over, QuietLocal(p, s, over),
         NEW m, m.type \in {"PING_REPLY", "FIND_NODE_REPLY"}, m.from # NoNode,
         NEW r \in s.pending, Answers(r, m)
  PROVE  /\ QuietLocal(p, Resolve(s, r, m), over \cup {m})
         /\ Shape(Resolve(s, r, m))
         /\ Resolve(s, r, m).pending = s.pending \ {r}
<1> DEFINE waiting == s.pending \ {r}
           over2 == s.settled \cup {[request |-> r, answer |-> m.from]}
           u == [s EXCEPT !.pending = waiting, !.settled = over2]
<1>1. Resolve(s, r, m) = u
  BY DEF Resolve
<1>2. /\ Shape(u) /\ u.pending = waiting /\ u.toPing = s.toPing
      /\ u.out = s.out /\ u.settled = over2
  <2>1. Shape(s)
    BY DEF LocalOK
  <2> DEFINE v == [s EXCEPT !.pending = waiting]
  <2> HIDE DEF waiting, over2
  <2>2. /\ Shape(v) /\ v.table = s.table /\ v.pending = waiting
        /\ v.toPing = s.toPing /\ v.count = s.count
        /\ v.out = s.out /\ v.settled = s.settled
    BY <2>1 DEF Shape
  <2>3. u = [v EXCEPT !.settled = over2]
    BY <2>1 DEF Shape
  <2> HIDE DEF u, v
  <2> QED BY <2>2, <2>3 DEF Shape
<1> HIDE DEF u
<1>3. \A q \in waiting : ~Answers(q, m)
  BY DEF LocalOK, PeerOK, PendingOK, Answers
<1>4. \A a \in over2 : a.answer # NoNode
  BY DEF QuietLocal
<1> HIDE DEF over2
<1>5. \A q \in u.pending : q \in pending[p] \/ Launched(p, u, q)
  BY <1>2 DEF QuietLocal, Launched
<1>6. \A q \in u.pending, x \in over \cup {m} : ~Answers(q, x)
  BY <1>2, <1>3 DEF QuietLocal
<1>7. \A x \in over \cup {m} : Served(p, u, x)
  BY <1>2 DEF QuietLocal, Served
<1>8. \A l \in BagToSet(u.out) : LetterQuiet(p, u, over \cup {m}, l)
  BY <1>2 DEF QuietLocal, LetterQuiet
<1>9. QuietLocal(p, u, over \cup {m})
  BY <1>2, <1>4, <1>5, <1>6, <1>7, <1>8 DEF QuietLocal
<1> QED BY <1>1, <1>2, <1>9

LEMMA UnaskedQuiet ==
  ASSUME NEW p, NEW s, NEW over, QuietLocal(p, s, over),
         NEW m, m.type \in {"PING_REPLY", "FIND_NODE_REPLY"},
         \A r \in s.pending : ~Answers(r, m)
  PROVE  QuietLocal(p, s, over \cup {m})
<1>1. \A l \in BagToSet(s.out) : LetterQuiet(p, s, over \cup {m}, l)
  BY DEF QuietLocal, LetterQuiet
<1>2. Served(p, s, m)
  BY DEF Served
<1> QED BY <1>1, <1>2 DEF QuietLocal

\* Those an answer names are to be pinged.
LEMMA NamedQuiet ==
  ASSUME NEW p, NEW s, Shape(s), NEW over, QuietLocal(p, s, over),
         NEW m \in over, m.type = "FIND_NODE_REPLY", m.to = p
  PROVE  LET u == [s EXCEPT !.toPing = @ \cup Named(p, m)]
         IN QuietLocal(p, u, over) /\ u.pending = s.pending
<1> DEFINE more == s.toPing \cup Named(p, m)
           u == [s EXCEPT !.toPing = more]
<1>1. /\ u.pending = s.pending /\ u.toPing = more
      /\ u.out = s.out /\ u.settled = s.settled
  <2> HIDE DEF more
  <2> QED BY DEF Shape
<1>2. [s EXCEPT !.toPing = @ \cup Named(p, m)] = u
  OBVIOUS
<1> HIDE DEF u
<1>3. \A e \in Named(p, m) : e.node \in m.nodes /\ e.id = m.id
  BY DEF Named
<1>4. \A e \in more :
        \/ e \in toPing[p]
        \/ \E x \in over : /\ x.type = "FIND_NODE_REPLY" /\ x.to = p
                           /\ e.node \in x.nodes /\ e.id = x.id
  BY <1>3 DEF QuietLocal
<1>5. \A r \in u.pending : r \in pending[p] \/ Launched(p, u, r)
  BY <1>1 DEF QuietLocal, Launched
<1>6. \A x \in over : Served(p, u, x)
  BY <1>1 DEF QuietLocal, Served
<1>7. \A l \in BagToSet(u.out) : LetterQuiet(p, u, over, l)
  BY <1>1 DEF QuietLocal, LetterQuiet
<1>8. QuietLocal(p, u, over)
  BY <1>1, <1>4, <1>5, <1>6, <1>7 DEF QuietLocal
<1> QED BY <1>1, <1>2, <1>8

\* Every message but a PING_REPLY is dealt with, and nothing is dropped.
LEMMA HandleQuiet ==
  ASSUME NEW p \in NodeId, NEW s, LocalOK(p, s), BoundsOK, restarts = 0,
         NEW over, QuietLocal(p, s, over), \A x \in over : MessageOK(x, count),
         NEW m, HandledOK(p, m), m.type # "PING_REPLY",
         m.type # "PING" => m.to = p,
         NEW node \in Node, Reached(p, node), node.id = m.from
  PROVE  LET h == Handle(s, p, node, m)
         IN /\ QuietLocal(p, h, over \cup {m})
            /\ \A r \in s.pending : r \in h.pending \/ r.type = "FIND_NODE"
<1> DEFINE h  == Handle(s, p, node, m)
           t  == Admit(s, p, node)
           rs == {r \in t.pending : Answers(r, m)}
           r  == CHOOSE r \in rs : TRUE
           u  == Resolve(t, r, m)
           v  == [u EXCEPT !.toPing = @ \cup Named(p, m)]
           replied   == Reply(t, p, node, m, {})
           found     == AnswerFind(t, p, node, m)
           forwarded == AnswerForward(t, p, m)
<1>1. LocalOK(p, t) /\ Shape(t)
  <2>1. LocalOK(p, t)
    BY AdmitOK
  <2> HIDE DEF t
  <2> QED BY <2>1 DEF LocalOK
<1>2. QuietLocal(p, t, over) /\ \A q \in s.pending : q \in t.pending
  BY AdmitQuiet
<1>3. h = CASE m.type = "PING" -> replied
            [] m.type = "FIND_NODE" -> found
            [] m.type = "PING_FORWARD" -> forwarded
            [] rs # {} -> v
            [] OTHER -> t
  BY DEF Handle
<1>4. /\ m \in Message /\ m.type \in Type /\ m.id \in MessageId
      /\ m.from \in NodeId /\ m.from # NoNode
      /\ m.type = "FIND_NODE" => m.subject \in NodeId
      /\ m.type = "PING_FORWARD" => m.nodes # {}
  BY RPCAssumption DEF HandledOK, MessageOK, Message
<1>5. \A q \in rs : Answers(q, m) /\ q \in t.pending
  OBVIOUS
<1>6. \A q : Answers(q, m) => m.type = "FIND_NODE_REPLY" /\ q.type = "FIND_NODE"
  BY DEF Answers
<1> HIDE DEF h, t, r, u, v, replied, found, forwarded
<1>7. CASE m.type = "PING"
  <2>1. rs = {}
    BY <1>5, <1>6, <1>7
  <2>2. h = Reply(t, p, node, m, {})
    BY <1>3, <1>7, <2>1 DEF replied
  <2>3. QuietLocal(p, h, over \cup {m}) /\ h.pending = t.pending
    BY <1>1, <1>2, <1>7, <2>2, ReplyQuiet
  <2> QED BY <1>2, <2>3 DEF h
<1>8. CASE m.type = "FIND_NODE"
  <2>1. rs = {}
    BY <1>5, <1>6, <1>8
  <2>2. h = AnswerFind(t, p, node, m)
    BY <1>3, <1>8, <2>1 DEF found
  <2>3. QuietLocal(p, h, over \cup {m}) /\ h.pending = t.pending
    BY <1>1, <1>2, <1>4, <1>8, <2>2, AnswerFindQuiet
  <2> QED BY <1>2, <2>3 DEF h
<1>9. CASE m.type = "PING_FORWARD"
  <2>1. rs = {}
    BY <1>5, <1>6, <1>9
  <2>2. h = AnswerForward(t, p, m)
    BY <1>3, <1>9, <2>1 DEF forwarded
  <2>3. QuietLocal(p, h, over \cup {m}) /\ h.pending = t.pending
    BY <1>1, <1>2, <1>4, <1>9, <2>2, AnswerForwardQuiet
  <2> QED BY <1>2, <2>3 DEF h
<1>10. CASE m.type \notin {"PING", "FIND_NODE", "PING_FORWARD"}
  <2>1. m.type = "FIND_NODE_REPLY"
    BY <1>4, <1>10 DEF Type
  <2>2. CASE rs = {}
    <3>1. h = t
      BY <1>3, <1>10, <2>2
    <3>2. \A q \in t.pending : ~Answers(q, m)
      BY <2>2
    <3>3. QuietLocal(p, t, over \cup {m})
      BY <1>2, <2>1, <3>2, UnaskedQuiet
    <3> QED BY <1>2, <3>1, <3>3 DEF h
  <2>3. CASE rs # {}
    <3>1. h = v
      BY <1>3, <1>10, <2>3
    <3>2. r \in t.pending /\ Answers(r, m) /\ r.type = "FIND_NODE"
      BY <1>5, <1>6, <2>3 DEF r
    <3>3. /\ QuietLocal(p, u, over \cup {m}) /\ Shape(u)
          /\ u.pending = t.pending \ {r}
      BY <1>1, <1>2, <1>4, <2>1, <3>2, ResolveQuiet DEF u
    <3>4. QuietLocal(p, v, over \cup {m}) /\ v.pending = u.pending
      <4>1. m \in over \cup {m} /\ m.to = p
        BY <2>1
      <4> QED BY <2>1, <3>3, <4>1, NamedQuiet DEF v
    <3> QED BY <1>2, <3>1, <3>2, <3>3, <3>4 DEF h
  <2> QED BY <2>2, <2>3
<1> QED BY <1>7, <1>8, <1>9, <1>10

\* A PING_REPLY brings the key of the sender it was asked of, as two answers
\* under one number come from one peer, and the held message is dealt with.
LEMMA HandlePingReplyQuiet ==
  ASSUME NEW p \in NodeId, NEW s, LocalOK(p, s), BoundsOK, restarts = 0,
         QuietLocal(p, s, {}), s.pending = pending[p],
         NEW m, HandledOK(p, m), m.type = "PING_REPLY",
         \A x \in OnTheWay : MessageOK(x, count),
         \A r \in pending[p], x \in OnTheWay : AskedOne(r, x),
         \A r \in pending[p] : KeyAsked(r, m),
         \A r \in pending[p] : r.purpose = "key" => r.to.id = r.held.from,
         NEW node \in Node, Reached(p, node)
  PROVE  LET h == HandlePingReply(s, p, node, m)
         IN \E over :
              /\ m \in over
              /\ \A x \in over : x = m \/ x \in Held(pending[p])
              /\ QuietLocal(p, h, over) /\ KeysKept(p, h, over)
<1> DEFINE h  == HandlePingReply(s, p, node, m)
           t  == Admit(s, p, node)
           rs == {r \in t.pending : Answers(r, m)}
           r  == CHOOSE r \in rs : TRUE
           u  == Resolve(t, r, m)
<1>1. LocalOK(p, t) /\ \A q \in t.pending : q \in s.pending \/ q.purpose = "evict"
  BY AdmitOK
<1>2. QuietLocal(p, t, {}) /\ \A q \in s.pending : q \in t.pending
  BY AdmitQuiet
<1>3. m \in OnTheWay /\ m.from \in NodeId /\ m.from # NoNode
  BY RPCAssumption DEF HandledOK, MessageOK, Message
<1> HIDE DEF t
<1>4. CASE rs = {}
  <2>1. h = t
    BY <1>4 DEF HandlePingReply, t
  <2>2. \A q \in t.pending : ~Answers(q, m)
    BY <1>4
  <2>3. QuietLocal(p, t, {} \cup {m})
    BY <1>2, <2>2, UnaskedQuiet
  <2>4. QuietLocal(p, h, {m}) /\ KeysKept(p, h, {m})
    <3>1. {} \cup {m} = {m}
      OBVIOUS
    <3> QED BY <1>2, <2>1, <2>3, <3>1 DEF KeysKept
  <2> QED BY <2>4
<1>5. CASE rs # {}
  <2>1. r \in t.pending /\ Answers(r, m)
    BY <1>5
  <2>2. h = CASE r.purpose # "key" -> u
              [] r.purpose = "key" /\ r.held.from = m.from -> Handle(u, p, r.to, r.held)
              [] OTHER -> [u EXCEPT !.table = TableWithout(@, p, r.held.from)]
    BY <1>5 DEF HandlePingReply, t
  <2> HIDE DEF h, r
  <2>3. LocalOK(p, u) /\ u.pending = t.pending \ {r}
    BY <1>1, <2>1, ResolveOK
  <2>4. QuietLocal(p, u, {m})
    <3>1. PICK over : over = {}
      OBVIOUS
    <3>2. QuietLocal(p, t, over) /\ m.type \in {"PING_REPLY", "FIND_NODE_REPLY"}
      BY <1>2, <3>1
    <3>3. QuietLocal(p, Resolve(t, r, m), over \cup {m})
      BY <1>1, <1>3, <2>1, <3>2, ResolveQuiet
    <3>4. over \cup {m} = {m}
      BY <3>1
    <3> QED BY <3>3, <3>4
  <2> HIDE DEF u
  <2>5. CASE r.purpose # "key"
    <3>1. h = u
      BY <2>2, <2>5
    <3>2. KeysKept(p, h, {m})
      BY <1>2, <2>3, <2>5, <3>1 DEF KeysKept
    <3>3. QuietLocal(p, h, {m})
      BY <2>4, <3>1
    <3> QED BY <3>2, <3>3 DEF h
  <2>6. CASE r.purpose = "key"
    <3>1. r \in pending[p] /\ r.id = m.id
      BY <1>1, <2>1, <2>6 DEF Answers
    <3>2. r.held.from = m.from /\ r.to.id = r.held.from
      BY <2>6, <3>1 DEF KeyAsked
    <3>3. h = Handle(u, p, r.to, r.held)
      BY <2>2, <2>6, <3>2
    <3>4. RequestOK(p, r, Done(t)) /\ r.held \in OnTheWay /\ Reached(p, r.to)
      BY <1>1, <2>1, <2>6 DEF LocalOK, PeerOK, PendingOK, NewOK, ReachOK
    <3>5. /\ r.to \in Node /\ r.held.to = p
          /\ r.held.type # "PING_REPLY" /\ r.held \in Held(pending[p])
      BY <2>6, <3>1, <3>4 DEF RequestOK, Held
    <3>6. HandledOK(p, r.held)
      BY <3>4, <3>5 DEF HandledOK
    <3>7. \A x \in {m} : MessageOK(x, count)
      BY <1>3
    <3>8. /\ QuietLocal(p, h, {m} \cup {r.held})
          /\ \A q \in u.pending : q \in h.pending \/ q.type = "FIND_NODE"
      <4>1. PICK held : held = r.held
        OBVIOUS
      <4>2. PICK over : over = {m}
        OBVIOUS
      <4>3. PICK to : to = r.to
        OBVIOUS
      <4>4. /\ h = Handle(u, p, to, held) /\ to \in Node /\ Reached(p, to)
            /\ to.id = held.from /\ held.to = p /\ held.type # "PING_REPLY"
            /\ HandledOK(p, held) /\ QuietLocal(p, u, over)
            /\ \A x \in over : MessageOK(x, count)
        BY <2>4, <3>2, <3>3, <3>4, <3>5, <3>6, <3>7, <4>1, <4>2, <4>3
      <4>5. /\ QuietLocal(p, h, over \cup {held})
            /\ \A q \in u.pending : q \in h.pending \/ q.type = "FIND_NODE"
        BY <2>3, <4>4, HandleQuiet
      <4> QED BY <4>1, <4>2, <4>5
    <3>9. KeysKept(p, h, {m} \cup {r.held})
      <4>1. SUFFICES ASSUME NEW q \in pending[p], q # r, q.purpose = "key"
                     PROVE  q \in h.pending
        BY DEF KeysKept
      <4>2. q \in t.pending /\ q \in u.pending
        BY <1>2, <2>3, <4>1
      <4>3. q.type # "FIND_NODE"
        BY <1>1, <4>1, <4>2 DEF LocalOK, PeerOK, PendingOK, RequestOK
      <4> QED BY <3>8, <4>2, <4>3
    <3>10. \A x \in {m} \cup {r.held} : x = m \/ x \in Held(pending[p])
      BY <3>5
    <3> QED BY <3>8, <3>9, <3>10 DEF h
  <2> QED BY <2>5, <2>6
<1> QED BY <1>4, <1>5

\* One question is sent, and the request filed.
LEMMA AskQuiet ==
  ASSUME NEW p \in NodeId, NEW s, Shape(s), QuietLocal(p, s, {}), BagToSet(s.out) = {},
         NEW r, NEW subject, NEW number,
         r.type \in {"PING", "FIND_NODE"}, r.id.by = p, \A x \in s.pending : x.id # r.id,
         r.purpose = "key" => NewKey(p, r),
         \/ \E q \in NodeId : Arrives(q, Letter(p, r.to, r.type, r.id, subject, {}))
         \/ /\ r.purpose = "punch" /\ Announced(p, r.to.id, r.id)
            /\ r.to.address = address[r.to.id]
  PROVE  LET u == Counted(SendAndWait(s, p, {r}, subject), number)
         IN QuietLocal(p, u, {}) /\ u.pending = s.pending \cup {r}
<1> DEFINE l == Letter(p, r.to, r.type, r.id, subject, {})
<1>1. PICK requests : requests = {r}
  OBVIOUS
<1> DEFINE u == Counted(SendAndWait(s, p, requests, subject), number)
<1>2. l.type = r.type /\ l.id = r.id /\ l.from = p /\ l.toAddress = r.to.address
  BY DEF Letter
<1>3. /\ Shape(u) /\ u.table = s.table
      /\ u.pending = s.pending \cup requests
      /\ u.toPing = s.toPing /\ u.settled = s.settled
      /\ BagToSet(u.out) = BagToSet(s.out) \cup Letters(p, requests, subject)
  BY ONLY AwaitFields, Shape(s)
<1>4. l \in BagToSet(u.out)
  BY <1>1, <1>3 DEF Letters
<1> HIDE DEF l, u
<1>5. Launched(p, u, r)
  <2>1. CASE \E q \in NodeId : Arrives(q, l)
    BY <1>2, <1>4, <2>1 DEF Launched
  <2>2. CASE /\ r.purpose = "punch" /\ Announced(p, r.to.id, r.id)
             /\ r.to.address = address[r.to.id]
    BY <1>2, <1>4, <2>2 DEF Launched
  <2> QED BY <2>1, <2>2 DEF l
<1>6. PICK over : over = {}
  OBVIOUS
<1>7. QuietLocal(p, s, over)
  BY <1>6
<1>8. QuietLocal(p, u, over)
  BY <1>1, <1>5, <1>6, <1>7, AwaitQuiet DEF u
<1> QED BY <1>1, <1>3, <1>6, <1>8 DEF u

\* A ping to an address where someone is, and who lets it in.
LEMMA PingQuiet ==
  ASSUME NEW p \in NodeId, Inv, NEW to, NEW q \in NodeId,
         to.address = address[q], q \in Hidden => address[p] \in opened[q],
         NEW purpose, NEW held,
         purpose = "key" => to.id = held.from /\ held \in OnTheWay,
         purpose # "punch"
  PROVE  LET u == Ping(Local(p), p, to, purpose, held)
         IN /\ QuietLocal(p, u, {}) /\ KeysKept(p, u, {})
            /\ Awaited(to, "PING", FreshId(Local(p), p, 1), purpose, held) \in u.pending
<1> DEFINE s == Local(p)
           r == Awaited(to, "PING", FreshId(s, p, 1), purpose, held)
           u == Counted(SendAndWait(s, p, {r}, NoNode), 1)
           l == Letter(p, r.to, r.type, r.id, NoNode, {})
<1>1. Ping(Local(p), p, to, purpose, held) = u
  BY DEF Ping
<1>2. LocalOK(p, s) /\ Shape(s)
  BY LocalStarts DEF LocalOK
<1>3. /\ s.pending = pending[p] /\ s.count = count[p] /\ s.out = EmptyBag
      /\ count[p] \in Nat
  BY BoundsFacts DEF Local, Inv
<1>4. QuietLocal(p, s, {})
  BY LocalQuiet
<1>5. /\ r.type = "PING" /\ r.purpose = purpose /\ r.to = to /\ r.held = held
      /\ r.id.by = p /\ r.id.n = s.count + 1
  BY DEF Awaited, FreshId
<1>6. Arrives(q, l)
  BY <1>5 DEF Letter, Arrives
<1> HIDE DEF s, r
<1>7. r.purpose = "key" => NewKey(p, r)
  BY <1>3, <1>5 DEF NewKey
<1>8. \A x \in s.pending : x.id # r.id
  <2>1. \A x \in s.pending : x.id.n <= s.count /\ x.id.n \in Nat
    BY <1>2 DEF LocalOK, PeerOK, PendingOK, RequestOK, Request, MessageId
  <2> QED BY <1>3, <1>5, <2>1
<1>9. BagToSet(s.out) = {}
  BY <1>3 DEF EmptyBag, SetToBag, BagToSet
<1>10. \E x \in NodeId : Arrives(x, Letter(p, r.to, r.type, r.id, NoNode, {}))
  BY <1>6
<1>11. QuietLocal(p, u, {}) /\ u.pending = s.pending \cup {r}
  BY <1>2, <1>4, <1>5, <1>7, <1>8, <1>9, <1>10, AskQuiet
<1> HIDE DEF u
<1>12. KeysKept(p, u, {})
  BY <1>3, <1>11 DEF KeysKept
<1> QED BY <1>1, <1>11, <1>12 DEF r, s

-----------------------------------------------------------------------------
(* A step of the peer p that makes s of its state and deals with "over".    *)

Effect(p, s, over) ==
  /\ Inv /\ Inv' /\ QuietInv
  /\ restarts = 0 /\ address' = address /\ restarts' = restarts
  /\ Commit(p, s)
  /\ QuietLocal(p, s, over)
  /\ \A q \in NodeId : \A m \in OnTheWay :
       OnWayTo(q, m) => OnWayTo(q, m)' \/ (q = p /\ m \in over)
  /\ \A l \in BagToSet(s.out) : l \in BagToSet(net)'
  /\ OnTheWay' \subseteq OnTheWay \cup BagToSet(s.out)
  /\ \A m \in over : m \in OnTheWay /\ OnWayTo(p, m)

LEMMA EffectFacts ==
  ASSUME NEW p \in NodeId, NEW s, NEW over, Effect(p, s, over)
  PROVE  /\ pending' = [pending EXCEPT ![p] = s.pending]
         /\ toPing' = [toPing EXCEPT ![p] = s.toPing]
         /\ settled' = settled \cup s.settled
         /\ pending \in [NodeId -> SUBSET Request]
         /\ toPing \in [NodeId -> SUBSET [node : Node, id : MessageId]]
         /\ \A q \in NodeId : opened[q] \subseteq opened'[q]
         /\ \A l \in BagToSet(s.out) : l.toAddress \in opened'[p]
         /\ \A q \in NodeId : \A l : OnWayTo(q, l)' => l \in OnTheWay'
         /\ \A q \in NodeId : \A l \in BagToSet(s.out) :
              Arrives(q, l) => l \in OnTheWay' /\ OnWayTo(q, l)'
<1>1. /\ pending' = [pending EXCEPT ![p] = s.pending]
      /\ toPing' = [toPing EXCEPT ![p] = s.toPing]
      /\ settled' = settled \cup s.settled
      /\ opened' = [opened EXCEPT ![p] = @ \cup {m.toAddress : m \in BagToSet(s.out)}]
  BY DEF Effect, Commit
<1>2. /\ pending \in [NodeId -> SUBSET Request]
      /\ toPing \in [NodeId -> SUBSET [node : Node, id : MessageId]]
      /\ opened \in [NodeId -> SUBSET Address]
  BY DEF Effect, Inv, BoundsOK
<1>3. /\ \A q \in NodeId : opened[q] \subseteq opened'[q]
      /\ \A l \in BagToSet(s.out) : l.toAddress \in opened'[p]
  BY <1>1, <1>2
<1>4. \A q \in NodeId : \A l : OnWayTo(q, l)' => l \in OnTheWay'
  BY DEF OnWayTo, OnTheWay
<1>5. \A q \in NodeId : \A l \in BagToSet(s.out) :
        Arrives(q, l) => OnWayTo(q, l)'
  <2>1. \A q \in NodeId : \A l : Arrives(q, l) => Arrives(q, l)'
    BY <1>3 DEF Effect, Arrives
  <2> QED BY <2>1 DEF Effect, OnWayTo
<1> QED BY <1>1, <1>2, <1>3, <1>4, <1>5

\* The answer of p that q is waiting for under the id.
Punched(p, s, q, id) ==
  \E l \in BagToSet(s.out) :
    /\ l.type = "PING_REPLY" /\ l.id = id /\ l.to = q
    /\ l.toAddress = address[q] /\ l.fromAddress = address[p]

\* What is announced stays announced, until the one who is told answers.
LEMMA AnnouncedStays ==
  ASSUME NEW p \in NodeId, NEW s, NEW over, Effect(p, s, over),
         NEW q, NEW w \in NodeId, NEW id, Announced(q, w, id)
  PROVE  \/ Announced(q, w, id)'
         \/ w = p /\ Punched(p, s, q, id)
<1>1. PICK m \in OnTheWay :
        /\ OnWayTo(w, m) /\ m.type = "PING_FORWARD" /\ ForwardedId(w, m.id) = id
        /\ m.nodes = {[id |-> q, address |-> address[q]]}
  BY DEF Announced
<1>2. CASE OnWayTo(w, m)'
  <2>1. m \in OnTheWay'
    BY <1>2, EffectFacts
  <2>2. m.nodes = {[id |-> q, address |-> address'[q]]}
    BY <1>1 DEF Effect
  <2>3. m.type = "PING_FORWARD" /\ ForwardedId(w, m.id) = id
    BY <1>1
  <2> QED BY <1>2, <2>1, <2>2, <2>3 DEF Announced, ForwardedId
<1>3. CASE w = p /\ m \in over
  <2>1. Served(p, s, m)
    BY <1>3 DEF Effect, QuietLocal
  <2>2. PICK l \in BagToSet(s.out), n \in m.nodes :
          /\ l.type = "PING_REPLY" /\ l.id = ForwardedId(p, m.id)
          /\ l.to = n.id /\ l.toAddress = n.address /\ l.fromAddress = address[p]
    BY <1>1, <2>1 DEF Served
  <2>3. n.id = q /\ n.address = address[q]
    BY <1>1
  <2> QED BY <1>1, <1>3, <2>2, <2>3 DEF Punched
<1> QED BY <1>1, <1>2, <1>3 DEF Effect

LEMMA CoveredStays ==
  ASSUME NEW p \in NodeId, NEW s, NEW over, Effect(p, s, over),
         NEW q \in NodeId, NEW r \in Request,
         r.purpose = "punch" => r.to.id \in NodeId /\ r.type = "PING",
         Covered(q, r),
         q = p => \A m \in over : ~Answers(r, m)
  PROVE  Covered(q, r)'
<1>1. ASSUME NEW l \in BagToSet(s.out), Arrives(q, l), Answers(r, l)
      PROVE  Covered(q, r)'
  <2>1. l \in OnTheWay' /\ OnWayTo(q, l)'
    BY <1>1, EffectFacts
  <2>2. Answers(r, l)'
    BY <1>1 DEF Answers
  <2> QED BY <2>1, <2>2 DEF Covered, Replied
<1>2. CASE Asking(q, r)
  <2>1. PICK w \in NodeId, m \in OnTheWay :
          OnWayTo(w, m) /\ m.type = r.type /\ m.id = r.id /\ m.from = q
    BY <1>2 DEF Asking
  <2>2. CASE OnWayTo(w, m)'
    <3>1. m \in OnTheWay'
      BY <2>2, EffectFacts
    <3> QED BY <2>1, <2>2, <3>1 DEF Covered, Asking
  <2>3. CASE w = p /\ m \in over
    <3>1. Served(p, s, m)
      BY <2>3 DEF Effect, QuietLocal
    <3>2. r.type \in {"PING", "FIND_NODE"}
      BY DEF Request
    <3>3. \E l \in BagToSet(s.out) : Arrives(q, l) /\ Answers(r, l)
      BY <2>1, <3>1, <3>2 DEF Served, Answers
    <3> QED BY <1>1, <3>3
  <2> QED BY <2>1, <2>2, <2>3 DEF Effect
<1>3. CASE Replied(q, r)
  <2>1. PICK m \in OnTheWay : OnWayTo(q, m) /\ Answers(r, m)
    BY <1>3 DEF Replied
  <2>2. OnWayTo(q, m)'
    BY <2>1 DEF Effect
  <2>3. m \in OnTheWay'
    BY <2>2, EffectFacts
  <2>4. Answers(r, m)'
    BY <2>1 DEF Answers
  <2> QED BY <2>2, <2>3, <2>4 DEF Covered, Replied
<1>4. CASE Punching(q, r)
  <2>1. /\ r.purpose = "punch" /\ Announced(q, r.to.id, r.id)
        /\ address[r.to.id] \in opened[q] /\ r.to.id \in NodeId
    BY <1>4 DEF Punching
  <2>2. address'[r.to.id] \in opened'[q]
    BY <2>1, EffectFacts DEF Effect
  <2>3. CASE Announced(q, r.to.id, r.id)'
    BY <2>1, <2>2, <2>3 DEF Covered, Punching
  <2>4. ASSUME NEW l \in BagToSet(s.out), r.to.id = p,
               l.type = "PING_REPLY", l.id = r.id, l.to = q,
               l.toAddress = address[q], l.fromAddress = address[p]
        PROVE  Arrives(q, l) /\ Answers(r, l)
    <3>1. Arrives(q, l)
      BY <2>1, <2>4 DEF Arrives
    <3>2. Answers(r, l)
      BY <2>1, <2>4 DEF Answers
    <3> QED BY <3>1, <3>2
  <2>5. \/ Announced(q, r.to.id, r.id)'
        \/ \E l \in BagToSet(s.out) : Arrives(q, l) /\ Answers(r, l)
    <3>1. \/ Announced(q, r.to.id, r.id)'
          \/ r.to.id = p /\ Punched(p, s, q, r.id)
      BY <2>1, AnnouncedStays
    <3> QED BY <2>4, <3>1 DEF Punched
  <2> QED BY <1>1, <2>3, <2>5
<1> QED BY <1>2, <1>3, <1>4 DEF Covered

LEMMA MetStays ==
  ASSUME NEW p \in NodeId, NEW s, NEW over, Effect(p, s, over),
         NEW q, NEW n, n.id \in NodeId, NEW id, Met(q, n, id)
  PROVE  Met(q, n, id)'
<1>1. n.address = address'[n.id]
  BY DEF Met, Effect
<1>2. CASE n.id \in Hidden => address[q] \in opened[n.id]
  <2>1. n.id \in Hidden => address'[q] \in opened'[n.id]
    BY <1>2, EffectFacts DEF Effect
  <2> QED BY <1>1, <2>1 DEF Met
<1>3. CASE Announced(q, n.id, ForwardedId(n.id, id))
  <2>1. CASE Announced(q, n.id, ForwardedId(n.id, id))'
    BY <1>1, <2>1 DEF Met
  <2>2. ASSUME n.id = p, NEW l \in BagToSet(s.out), l.toAddress = address[q]
        PROVE  Met(q, n, id)'
    <3>1. address'[q] \in opened'[n.id]
      BY <2>2, EffectFacts DEF Effect
    <3> QED BY <1>1, <3>1 DEF Met
  <2>3. PICK other : other = ForwardedId(n.id, id)
    OBVIOUS
  <2>4. PICK w \in NodeId : w = n.id
    OBVIOUS
  <2>5. Announced(q, w, other)
    BY <1>3, <2>3, <2>4
  <2>6. \/ Announced(q, w, other)'
        \/ w = p /\ Punched(p, s, q, other)
    BY <2>5, AnnouncedStays
  <2> QED BY <2>1, <2>2, <2>3, <2>4, <2>6 DEF Punched
<1> QED BY <1>2, <1>3 DEF Met

\* A request that has just been sent.
LEMMA LaunchedCovered ==
  ASSUME NEW p \in NodeId, NEW s, NEW over, Effect(p, s, over),
         NEW r, Launched(p, s, r), r.type \in {"PING", "FIND_NODE"},
         r.purpose = "punch" => r.to.id \in NodeId /\ r.type = "PING"
  PROVE  Covered(p, r)'
<1>1. CASE \E l \in BagToSet(s.out), q \in NodeId :
             l.type = r.type /\ l.id = r.id /\ l.from = p /\ Arrives(q, l)
  <2>1. PICK l \in BagToSet(s.out), q \in NodeId :
          l.type = r.type /\ l.id = r.id /\ l.from = p /\ Arrives(q, l)
    BY <1>1
  <2>2. l \in OnTheWay' /\ OnWayTo(q, l)'
    BY <2>1, EffectFacts
  <2> QED BY <2>1, <2>2 DEF Covered, Asking
<1>2. CASE /\ r.purpose = "punch" /\ Announced(p, r.to.id, r.id)
           /\ \E l \in BagToSet(s.out) : l.toAddress = address[r.to.id]
  <2>1. address'[r.to.id] \in opened'[p]
    BY <1>2, EffectFacts DEF Effect
  <2>2. ASSUME NEW l \in BagToSet(s.out), r.to.id = p,
               l.type = "PING_REPLY", l.id = r.id, l.to = p,
               l.toAddress = address[p], l.fromAddress = address[p]
        PROVE  Covered(p, r)'
    <3>1. Arrives(p, l)'
      BY <2>1, <2>2 DEF Effect, Arrives
    <3>2. OnWayTo(p, l)'
      BY <2>2, <3>1 DEF Effect, OnWayTo
    <3>3. l \in OnTheWay'
      BY <3>2, EffectFacts
    <3>4. Answers(r, l)'
      BY <1>2, <2>2 DEF Answers
    <3> QED BY <3>2, <3>3, <3>4 DEF Covered, Replied
  <2>3. CASE Announced(p, r.to.id, r.id)'
    BY <1>2, <2>1, <2>3 DEF Covered, Punching
  <2>4. \/ Announced(p, r.to.id, r.id)'
        \/ r.to.id = p /\ Punched(p, s, p, r.id)
    BY <1>2, AnnouncedStays
  <2> QED BY <2>2, <2>3, <2>4 DEF Punched
<1> QED BY <1>1, <1>2 DEF Launched

LEMMA RequestsQuiet ==
  ASSUME NEW p \in NodeId, NEW s, NEW over, Effect(p, s, over),
         NEW q \in NodeId, NEW r \in pending'[q]
  PROVE  Covered(q, r)' /\ (r.purpose = "key" => r.to.id = r.held.from)
<1>1. /\ pending' = [pending EXCEPT ![p] = s.pending]
      /\ pending \in [NodeId -> SUBSET Request]
  BY EffectFacts
<1>2. r \in pending[q] \/ (q = p /\ r \in s.pending)
  BY <1>1
<1>3. /\ r \in Request /\ r.type \in {"PING", "FIND_NODE"}
      /\ r.purpose = "punch" => r.to.id \in NodeId /\ r.type = "PING"
  <2>1. PendingOK(q, Local(q), settled)'
    BY DEF Effect, Inv, PeerOK
  <2>2. Local(q)'.pending = pending'[q]
    BY DEF Local
  <2>3. RequestOK(q, r, settled')
    BY <2>1, <2>2 DEF PendingOK, RequestOK, IdsOf
  <2>4. r \in Request /\ (r.type = "FIND_NODE" <=> r.purpose = "find")
        /\ (r.purpose # "boot" => r.to \in Node)
    BY <2>3 DEF RequestOK
  <2> QED BY <2>4 DEF Request, Node
<1>4. q = p => r \in s.pending
  BY <1>1
<1>5. q = p => \A m \in over : ~Answers(r, m)
  BY <1>4 DEF Effect, QuietLocal
<1>6. CASE r \in pending[q]
  <2>1. Covered(q, r) /\ (r.purpose = "key" => r.to.id = r.held.from)
    BY <1>6 DEF Effect, QuietInv
  <2> QED BY <1>3, <1>5, <2>1, CoveredStays
<1>7. CASE r \notin pending[q]
  <2>1. q = p /\ Launched(p, s, r)
    BY <1>2, <1>4, <1>7 DEF Effect, QuietLocal
  <2>2. Covered(p, r)'
    BY <1>3, <2>1, LaunchedCovered
  <2> QED BY <2>1, <2>2 DEF Launched, NewKey
<1> QED BY <1>6, <1>7

LEMMA NamesQuiet ==
  ASSUME NEW p \in NodeId, NEW s, NEW over, Effect(p, s, over)
  PROVE  /\ \A q \in NodeId : \A e \in toPing'[q] : Met(q, e.node, e.id)'
         /\ \A m \in OnTheWay' : m.type = "FIND_NODE_REPLY" =>
              \A n \in m.nodes : Met(m.to, n, m.id)'
<1>1. /\ toPing' = [toPing EXCEPT ![p] = s.toPing]
      /\ toPing \in [NodeId -> SUBSET [node : Node, id : MessageId]]
  BY EffectFacts
<1>2. \A m \in OnTheWay' : m.nodes \subseteq Node
  BY DEF Effect, Inv, MessageOK, Message
<1>3. \A m \in OnTheWay : m.nodes \subseteq Node
  BY DEF Effect, Inv, MessageOK, Message
<1>4. ASSUME NEW q \in NodeId, NEW e \in toPing'[q]
      PROVE  Met(q, e.node, e.id)'
  <2>1. CASE e \in toPing[q]
    <3>1. Met(q, e.node, e.id)
      BY <2>1 DEF Effect, QuietInv
    <3>2. e.node.id \in NodeId
      BY <1>1, <2>1 DEF Node
    <3> QED BY <3>1, <3>2, MetStays
  <2>2. CASE e \notin toPing[q]
    <3>1. q = p /\ e \in s.toPing
      BY <1>1, <2>2
    <3>2. PICK m \in over : /\ m.type = "FIND_NODE_REPLY" /\ m.to = p
                            /\ e.node \in m.nodes /\ e.id = m.id
      BY <2>2, <3>1 DEF Effect, QuietLocal
    <3>3. Met(p, e.node, e.id) /\ e.node.id \in NodeId
      BY <1>3, <3>2 DEF Effect, QuietInv, Node
    <3> QED BY <3>1, <3>3, MetStays
  <2> QED BY <2>1, <2>2
<1>5. ASSUME NEW m \in OnTheWay', m.type = "FIND_NODE_REPLY", NEW n \in m.nodes
      PROVE  Met(m.to, n, m.id)'
  <2>1. n \in Node /\ n.id \in NodeId
    BY <1>2 DEF Node
  <2>2. CASE m \in OnTheWay
    <3>1. Met(m.to, n, m.id)
      BY <1>5, <2>2 DEF Effect, QuietInv
    <3> QED BY <2>1, <3>1, MetStays
  <2>3. CASE m \in BagToSet(s.out)
    <3>1. LetterQuiet(p, s, over, m)
      BY <2>3 DEF Effect, QuietLocal
    <3>2. n.address = address'[n.id]
      BY <1>5, <3>1 DEF LetterQuiet, Effect
    <3>3. PICK f \in BagToSet(s.out) :
            /\ f.type = "PING_FORWARD" /\ f.id = m.id /\ Arrives(n.id, f)
            /\ f.nodes = {[id |-> m.to, address |-> address[m.to]]}
      BY <1>5, <3>1 DEF LetterQuiet
    <3>4. f \in OnTheWay' /\ OnWayTo(n.id, f)'
      BY <2>1, <3>3, EffectFacts
    <3>5. f.nodes = {[id |-> m.to, address |-> address'[m.to]]}
      BY <3>3 DEF Effect
    <3>6. Announced(m.to, n.id, ForwardedId(n.id, m.id))'
      BY <3>3, <3>4, <3>5 DEF Announced, ForwardedId
    <3> QED BY <3>2, <3>6 DEF Met
  <2> QED BY <2>2, <2>3 DEF Effect
<1> QED BY <1>4, <1>5

\* The question for a key goes to one peer, which answers it once.
LEMMA KeysQuiet ==
  ASSUME NEW p \in NodeId, NEW s, NEW over, Effect(p, s, over),
         NEW q \in NodeId, NEW r \in pending'[q], NEW m \in OnTheWay'
  PROVE  KeyAsked(r, m)
<1>1. SUFFICES ASSUME r.purpose = "key", r.id = m.id,
                      m.type \in {"PING", "PING_REPLY"}
               PROVE  KeyAsked(r, m)
  BY DEF KeyAsked
<1>2. /\ pending' = [pending EXCEPT ![p] = s.pending]
      /\ pending \in [NodeId -> SUBSET Request]
  BY EffectFacts
<1>3. r \in pending[q] \/ (q = p /\ r \in s.pending)
  BY <1>2
<1>4. q = p => r \in s.pending
  BY <1>2
<1>5. r.id.by = q /\ r.id.via = NoNode
  <2>1. PendingOK(q, Local(q), settled)'
    BY DEF Effect, Inv, PeerOK
  <2>2. Local(q)'.pending = pending'[q]
    BY DEF Local
  <2> QED BY <1>1, <2>1, <2>2 DEF PendingOK, RequestOK
<1>6. r.to.id = r.held.from /\ r.to.address = address[r.to.id]
  <2>1. r.to.id = r.held.from
    BY <1>1, RequestsQuiet
  <2>2. ReachOK(q, Local(q))'
    BY DEF Effect, Inv
  <2>3. Local(q)'.pending = pending'[q] /\ restarts' = 0
    BY DEF Local, Effect
  <2>4. Reached(q, r.to)'
    BY <1>1, <2>2, <2>3 DEF ReachOK
  <2>5. r.to.address = address'[r.to.id]
    BY <2>4 DEF Reached
  <2> QED BY <2>1, <2>5 DEF Effect
<1>7. ASSUME NEW x \in OnTheWay, x.id = r.id, r \notin pending[q]
      PROVE  FALSE
  <2>1. q = p /\ Launched(p, s, r)
    BY <1>3, <1>4, <1>7 DEF Effect, QuietLocal
  <2>2. r.id.n > count[p] /\ r.id.by = p
    BY <1>1, <1>5, <2>1 DEF Launched, NewKey
  <2>3. MessageOK(x, count) /\ count[p] \in Nat
    BY BoundsFacts DEF Effect, Inv
  <2>4. x.id.n <= count[p] /\ x.id.n \in Nat
    BY <1>7, <2>2, <2>3 DEF MessageOK, Message, MessageId
  <2> QED BY <1>7, <2>2, <2>3, <2>4
<1>8. CASE m \in OnTheWay
  <2>1. r \in pending[q]
    BY <1>1, <1>7, <1>8
  <2> QED BY <1>8, <2>1 DEF Effect, QuietInv
<1>9. CASE m \in BagToSet(s.out)
  <2>1. LetterQuiet(p, s, over, m)
    BY <1>9 DEF Effect, QuietLocal
  <2>2. CASE m.type = "PING"
    <3>1. m.id.by = p /\ \A x \in s.pending :
                           x.purpose = "key" /\ x.id = m.id => m.toAddress = x.to.address
      BY <2>1, <2>2 DEF LetterQuiet
    <3>2. m.toAddress = r.to.address
      BY <1>1, <1>4, <1>5, <3>1
    <3> QED BY <1>6, <2>2, <3>2 DEF KeyAsked
  <2>3. CASE m.type = "PING_REPLY"
    <3>1. PICK c \in over : c.type = "PING" /\ c.id = m.id
      BY <1>1, <1>5, <2>1, <2>3 DEF LetterQuiet
    <3>2. c \in OnTheWay /\ OnWayTo(p, c)
      BY <3>1 DEF Effect
    <3>3. r \in pending[q]
      BY <1>1, <1>7, <3>1, <3>2
    <3>4. KeyAsked(r, c)
      BY <3>2, <3>3 DEF Effect, QuietInv
    <3>5. c.toAddress = address[r.held.from]
      BY <1>1, <3>1, <3>4 DEF KeyAsked
    <3>6. c.toAddress = address[p]
      <4>1. CASE Arrives(p, c)
        BY <4>1 DEF Arrives
      <4>2. CASE c \in Held(pending[p])
        <5>1. PICK x \in pending[p] : x.purpose = "key" /\ x.held = c
          BY <4>2 DEF Held
        <5>2. PendingOK(p, Local(p), settled) /\ Local(p).pending = pending[p]
          BY DEF Effect, Inv, PeerOK, Local
        <5>3. c.type # "PING"
          BY <5>1, <5>2 DEF PendingOK, RequestOK
        <5> QED BY <3>1, <5>3
      <4> QED BY <3>2, <4>1, <4>2 DEF OnWayTo
    <3>7. r.held.from \in NodeId /\ address = Home
      <4>1. PendingOK(q, Local(q), settled) /\ Local(q).pending = pending[q]
        BY DEF Effect, Inv, PeerOK, Local
      <4>2. r.held \in Message
        BY <1>1, <3>3, <4>1 DEF PendingOK, RequestOK
      <4> QED BY <4>2 DEF Message, Effect, QuietInv
    <3>8. r.held.from = p
      BY <3>5, <3>6, <3>7, RPCAssumption
    <3>9. m.from = p
      BY <2>1 DEF LetterQuiet
    <3> QED BY <2>3, <3>8, <3>9 DEF KeyAsked
  <2> QED BY <1>1, <2>2, <2>3
<1> QED BY <1>8, <1>9 DEF Effect

LEMMA QuietStep ==
  ASSUME NEW p \in NodeId, NEW s, NEW over, Effect(p, s, over)
  PROVE  QuietInv'
<1>1. address' = Home
  BY DEF Effect, QuietInv
<1>2. \A a \in settled' : a.answer # NoNode
  BY EffectFacts DEF Effect, QuietInv, QuietLocal
<1>3. \A q \in NodeId : \A r \in pending'[q] :
        Covered(q, r)' /\ (r.purpose = "key" => r.to.id = r.held.from)
  BY RequestsQuiet
<1>4. /\ \A q \in NodeId : \A e \in toPing'[q] : Met(q, e.node, e.id)'
      /\ \A m \in OnTheWay' : m.type = "FIND_NODE_REPLY" =>
           \A n \in m.nodes : Met(m.to, n, m.id)'
  BY NamesQuiet
<1>5. \A q \in NodeId : \A r \in pending'[q], m \in OnTheWay' : KeyAsked(r, m)'
  <2>1. \A q \in NodeId : \A r \in pending'[q], m \in OnTheWay' : KeyAsked(r, m)
    BY KeysQuiet
  <2> QED BY <2>1 DEF Effect, KeyAsked
<1> QED BY <1>1, <1>2, <1>3, <1>4, <1>5 DEF QuietInv

LEMMA EffectFrom ==
  ASSUME NEW p \in NodeId, NEW s, NEW over, Inv, Inv', QuietInv, restarts = 0,
         address' = address, restarts' = restarts, Commit(p, s),
         QuietLocal(p, s, over), KeysKept(p, s, over),
         \A l \in BagToSet(s.out) : l \in BagToSet(net)',
         BagToSet(net)' \subseteq BagToSet(net) \cup BagToSet(s.out),
         \A q \in NodeId : \A m \in BagToSet(net) : Arrives(q, m) =>
           \/ m \in BagToSet(net)'
           \/ q = p /\ (m \in over \/ m \in Held(s.pending)),
         \A m \in over : m \in OnTheWay /\ OnWayTo(p, m)
  PROVE  QuietInv'
<1>1. /\ pending' = [pending EXCEPT ![p] = s.pending]
      /\ opened' = [opened EXCEPT ![p] = @ \cup {m.toAddress : m \in BagToSet(s.out)}]
      /\ pending \in [NodeId -> SUBSET Request]
      /\ opened \in [NodeId -> SUBSET Address]
  BY DEF Commit, Inv, BoundsOK
<1>2. \A q \in NodeId : \A m : Arrives(q, m) => Arrives(q, m)'
  <2>1. \A q \in NodeId : opened[q] \subseteq opened'[q]
    BY <1>1
  <2> QED BY <2>1 DEF Arrives
<1>3. \A q \in NodeId : \A m \in Held(pending[q]) :
        m \in Held(pending'[q]) \/ (q = p /\ m \in over)
  <2>1. SUFFICES ASSUME NEW q \in NodeId, NEW r \in pending[q], r.purpose = "key",
                        r.held \notin Held(pending'[q])
                 PROVE  q = p /\ r.held \in over
    BY DEF Held
  <2>2. r \notin pending'[q]
    BY <2>1 DEF Held
  <2>3. q = p /\ r \notin s.pending
    BY <1>1, <2>2
  <2> QED BY <2>1, <2>3 DEF KeysKept
<1>4. ASSUME NEW q \in NodeId, NEW m \in OnTheWay, OnWayTo(q, m)
      PROVE  OnWayTo(q, m)' \/ (q = p /\ m \in over)
  <2>1. CASE m \in Held(pending[q])
    <3>1. m \in Held(pending'[q]) \/ (q = p /\ m \in over)
      BY <1>3, <2>1
    <3> QED BY <3>1 DEF OnWayTo, Held
  <2>2. CASE m \in BagToSet(net) /\ Arrives(q, m)
    <3>1. Arrives(q, m)'
      BY <1>2, <2>2
    <3>2. CASE m \in BagToSet(net)'
      BY <3>1, <3>2 DEF OnWayTo
    <3>3. CASE q = p /\ m \in Held(s.pending)
      <4>1. m \in Held(pending'[q])
        BY <1>1, <3>3
      <4> QED BY <4>1 DEF OnWayTo, Held
    <3> QED BY <2>2, <3>2, <3>3
  <2> QED BY <1>4, <2>1, <2>2 DEF OnWayTo
<1>5. OnTheWay' \subseteq OnTheWay \cup BagToSet(s.out)
  <2>1. ASSUME NEW q \in NodeId, NEW r \in pending'[q], r.purpose = "key"
        PROVE  r.held \in OnTheWay
    <3>1. CASE r \in pending[q]
      BY <2>1, <3>1 DEF OnTheWay, Held
    <3>2. CASE r \notin pending[q]
      <4>1. r \in s.pending /\ Launched(p, s, r)
        BY <1>1, <3>2 DEF QuietLocal
      <4> QED BY <2>1, <4>1 DEF Launched, NewKey
    <3> QED BY <3>1, <3>2
  <2>2. \A q \in NodeId : Held(pending'[q]) \subseteq OnTheWay
    BY <2>1 DEF Held
  <2>3. BagToSet(net) \subseteq OnTheWay
    BY DEF OnTheWay
  <2>4. OnTheWay' = BagToSet(net)' \cup UNION {Held(pending'[q]) : q \in NodeId}
    BY DEF OnTheWay, Held
  <2> QED BY <2>2, <2>3, <2>4
<1>6. Effect(p, s, over)
  BY <1>4, <1>5 DEF Effect
<1> QED BY <1>6, QuietStep

\* The peer only sends.
LEMMA SentQuiet ==
  ASSUME NEW p \in NodeId, NEW s, Inv, Inv', QuietInv, restarts = 0,
         address' = address, restarts' = restarts, Commit(p, s),
         QuietLocal(p, s, {}), KeysKept(p, s, {}), net' = net (+) s.out
  PROVE  QuietInv'
<1>1. BagToSet(net (+) s.out) = BagToSet(net) \cup BagToSet(s.out)
  BY DEF BagToSet, (+)
<1>2. BagToSet(net)' = BagToSet(net) \cup BagToSet(s.out)
  BY <1>1 DEF BagToSet
<1>3. PICK over : over = {}
  OBVIOUS
<1>4. QuietLocal(p, s, over) /\ KeysKept(p, s, over)
  BY <1>3
<1> QED BY <1>2, <1>3, <1>4, EffectFrom

LEMMA BootstrapQuiet ==
  ASSUME Inv, Inv', QuietInv, restarts = 0, NEW p \in NodeId, Bootstrap(p)
  PROVE  QuietInv'
<1> DEFINE to == [id |-> NoNode, address |-> address[Seed]]
<1>1. PICK s : s = Ping(Local(p), p, to, "boot", NoNode)
  OBVIOUS
<1>2. /\ Commit(p, s) /\ net' = net (+) s.out
      /\ address' = address /\ restarts' = restarts
  BY <1>1 DEF Bootstrap, Commit
<1>3. QuietLocal(p, s, {}) /\ KeysKept(p, s, {})
  <2>1. Seed \in NodeId /\ Seed \notin Hidden
    BY RPCAssumption
  <2>2. to.address = address[Seed]
    OBVIOUS
  <2> HIDE DEF to
  <2> QED BY <1>1, <2>1, <2>2, PingQuiet
<1> QED BY <1>2, <1>3, SentQuiet

LEMMA FindQuiet ==
  ASSUME Inv, Inv', QuietInv, restarts = 0, NEW p \in NodeId, NEW q,
         NEW subject \in Subject, Find(p, GetNode(table[p], p, q), subject)
  PROVE  QuietInv'
<1>1. PICK to : to = GetNode(table[p], p, q)
  OBVIOUS
<1>2. PICK r : r = Awaited(to, "FIND_NODE", FreshId(Local(p), p, 1), "find", NoNode)
  OBVIOUS
<1>3. PICK s : s = Counted(SendAndWait(Local(p), p, {r}, subject), 1)
  OBVIOUS
<1>4. /\ Commit(p, s) /\ net' = net (+) s.out
      /\ address' = address /\ restarts' = restarts
  BY <1>1, <1>2, <1>3 DEF Find, Commit
<1>5. /\ LocalOK(p, Local(p)) /\ Shape(Local(p)) /\ Local(p).pending = pending[p]
      /\ Local(p).table = table[p]
      /\ Local(p).out = EmptyBag /\ QuietLocal(p, Local(p), {})
  BY LocalStarts, LocalQuiet DEF Local, LocalOK
<1>6. to.id \in NodeId /\ Reached(p, to)
  <2>1. to \in ToSet(GetClosestNodes(table[p], p, subject, NodesPerBucket))
    BY <1>1 DEF Find
  <2>2. TableOK(table[p], p) /\ ReachOK(p, Local(p))
    BY <1>5 DEF Inv, PeerOK
  <2>3. to \in Filed(table[p])
    BY <2>1, <2>2, ClosestFiled, RPCAssumption
  <2> QED BY <1>5, <2>2, <2>3, FiledFacts DEF ReachOK
<1>7. /\ r.type = "FIND_NODE" /\ r.purpose = "find" /\ r.to = to /\ r.id.by = p
      /\ r.id.n = Local(p).count + 1
  BY <1>2 DEF Awaited, FreshId
<1>8. \A x \in Local(p).pending : x.id # r.id
  <2>1. \A x \in Local(p).pending : x.id.n <= Local(p).count /\ x.id.n \in Nat
    BY <1>5 DEF LocalOK, PeerOK, PendingOK, RequestOK, Request, MessageId
  <2>2. Local(p).count \in Nat
    BY <1>5 DEF LocalOK, PeerOK, CountOK
  <2> QED BY <1>7, <2>1, <2>2
<1>9. Arrives(to.id, Letter(p, r.to, r.type, r.id, subject, {}))
  BY <1>6, <1>7, ReachedArrives
<1>10. BagToSet(Local(p).out) = {}
  BY <1>5 DEF EmptyBag, SetToBag, BagToSet
<1>11. QuietLocal(p, s, {}) /\ s.pending = Local(p).pending \cup {r}
  <2>1. PICK local : local = Local(p)
    OBVIOUS
  <2>2. /\ r.type \in {"PING", "FIND_NODE"} /\ r.purpose # "key"
        /\ Shape(local) /\ QuietLocal(p, local, {}) /\ BagToSet(local.out) = {}
        /\ \A x \in local.pending : x.id # r.id
    BY <1>5, <1>7, <1>8, <1>10, <2>1
  <2>3. \E x \in NodeId : Arrives(x, Letter(p, r.to, r.type, r.id, subject, {}))
    BY <1>6, <1>9
  <2>4. LET u == Counted(SendAndWait(local, p, {r}, subject), 1)
        IN QuietLocal(p, u, {}) /\ u.pending = local.pending \cup {r}
    BY ONLY <1>7, <2>2, <2>3, AskQuiet, p \in NodeId
  <2> QED BY <1>3, <2>1, <2>4
<1>12. KeysKept(p, s, {})
  BY <1>5, <1>11 DEF KeysKept
<1> QED BY <1>4, <1>11, <1>12, SentQuiet

\* A peer that was named is met, or told to expect the ping.
LEMMA PingNamedQuiet ==
  ASSUME Inv, Inv', QuietInv, restarts = 0, NEW p \in NodeId, NEW e, PingNamed(p, e)
  PROVE  QuietInv'
<1>1. PICK s : s = [Local(p) EXCEPT !.toPing = @ \ {e}]
  OBVIOUS
<1>2. PICK r : r = Awaited(e.node, "PING", ForwardedId(e.node.id, e.id), "punch", NoNode)
  OBVIOUS
<1>3. PICK t : t = IF GetNode(s.table, p, e.node.id) # NoNode THEN s
                   ELSE SendAndWait(s, p, {r}, NoNode)
  OBVIOUS
<1>4. /\ Commit(p, t) /\ net' = net (+) t.out
      /\ address' = address /\ restarts' = restarts /\ e \in toPing[p]
  BY <1>1, <1>2, <1>3 DEF PingNamed, Commit
<1>5. /\ Shape(s) /\ s.pending = pending[p] /\ s.toPing \subseteq toPing[p]
      /\ s.count = count[p] /\ s.out = EmptyBag /\ s.settled = {}
  BY <1>1 DEF Local, Shape
<1>6. BagToSet(s.out) = {}
  BY <1>5 DEF EmptyBag, SetToBag, BagToSet
<1>7. QuietLocal(p, s, {}) /\ KeysKept(p, s, {})
  BY <1>5, <1>6 DEF QuietLocal, KeysKept
<1>8. /\ e.node.id \in NodeId
      /\ r.type = "PING" /\ r.purpose = "punch" /\ r.to = e.node
      /\ r.id = ForwardedId(e.node.id, e.id) /\ r.id.by = p
      /\ \A x \in s.pending : x.id # r.id
  <2>1. r.type = "PING" /\ r.purpose = "punch" /\ r.to = e.node
        /\ r.id = ForwardedId(e.node.id, e.id)
    BY <1>2 DEF Awaited
  <2>2. ToPingOK(p, Local(p), settled) /\ Local(p).toPing = toPing[p]
        /\ Local(p).pending = pending[p]
    BY DEF Inv, PeerOK, Local
  <2>3. /\ e \in [node : Node, id : MessageId] /\ e.id.by = p
        /\ \A x \in pending[p] : x.id # ForwardedId(e.node.id, e.id)
    BY <1>4, <2>2 DEF ToPingOK
  <2>4. ForwardedId(e.node.id, e.id).by = p
    BY <2>3 DEF ForwardedId, MessageId
  <2> QED BY <1>5, <2>1, <2>3, <2>4 DEF Node
<1>9. \/ \E q \in NodeId : Arrives(q, Letter(p, r.to, r.type, r.id, NoNode, {}))
      \/ /\ r.purpose = "punch" /\ Announced(p, r.to.id, r.id)
         /\ r.to.address = address[r.to.id]
  <2>1. Met(p, e.node, e.id)
    BY <1>4 DEF QuietInv
  <2>2. CASE e.node.id \in Hidden => address[p] \in opened[e.node.id]
    <3>1. Arrives(e.node.id, Letter(p, r.to, r.type, r.id, NoNode, {}))
      BY <1>8, <2>1, <2>2 DEF Met, Letter, Arrives
    <3> QED BY <1>8, <3>1
  <2>3. CASE Announced(p, e.node.id, ForwardedId(e.node.id, e.id))
    BY <1>8, <2>1, <2>3 DEF Met
  <2> QED BY <2>1, <2>2, <2>3 DEF Met
<1>10. QuietLocal(p, t, {}) /\ KeysKept(p, t, {})
  <2>1. CASE t = s
    BY <1>7, <2>1
  <2>2. CASE t = SendAndWait(s, p, {r}, NoNode)
    <3> DEFINE u == SendAndWait(s, p, {r}, NoNode)
               v == Counted(u, 0)
    <3>1. QuietLocal(p, v, {}) /\ v.pending = s.pending \cup {r}
      BY <1>5, <1>6, <1>7, <1>8, <1>9, AskQuiet
    <3>2. v = u
      <4>1. Shape(u) /\ u.count = s.count
        <5>1. PICK letters : letters = {Letter(p, x.to, x.type, x.id, NoNode, {}) : x \in {r}}
          OBVIOUS
        <5>2. u = [Send(s, letters) EXCEPT !.pending = @ \cup {r}]
          BY <5>1 DEF SendAndWait
        <5>3. Shape(Send(s, letters)) /\ Send(s, letters).count = s.count
          BY <1>5, SendFields
        <5> QED BY <5>2, <5>3 DEF Shape
      <4>2. count[p] \in Nat
        BY BoundsFacts DEF Inv
      <4> HIDE DEF u
      <4>3. u.count + 0 = u.count
        BY <1>5, <4>1, <4>2
      <4> QED BY <4>1, <4>3 DEF Counted, Shape
    <3> HIDE DEF u, v
    <3>3. t = u
      BY <2>2 DEF u
    <3>4. KeysKept(p, u, {})
      BY <1>5, <3>1, <3>2 DEF KeysKept
    <3> QED BY <3>1, <3>2, <3>3, <3>4
  <2> QED BY <1>3, <2>1, <2>2
<1> QED BY <1>4, <1>10, SentQuiet

LEMMA BagTake ==
  ASSUME NEW b, IsABag(b), NEW m
  PROVE  /\ BagToSet(b (-) SetToBag({m})) \subseteq BagToSet(b)
         /\ \A x \in BagToSet(b) : x = m \/ x \in BagToSet(b (-) SetToBag({m}))
<1> DEFINE one == SetToBag({m})
           f == [e \in DOMAIN b |-> IF e \in DOMAIN one THEN b[e] - one[e] ELSE b[e]]
<1>1. DOMAIN one = {m}
  BY DEF SetToBag
<1>2. b (-) one = [e \in {d \in DOMAIN f : f[d] > 0} |-> f[e]]
  BY DEF (-)
<1>3. BagToSet(b (-) one) = {d \in DOMAIN b : f[d] > 0}
  <2>1. DOMAIN f = DOMAIN b
    OBVIOUS
  <2> HIDE DEF f, one
  <2> QED BY <1>2, <2>1 DEF BagToSet
<1>4. \A x \in DOMAIN b : x # m => f[x] = b[x] /\ b[x] > 0
  <2> HIDE DEF one
  <2> QED BY <1>1 DEF IsABag
<1> QED BY <1>3, <1>4 DEF BagToSet

LEMMA ReceiveQuiet ==
  ASSUME Inv, Inv', QuietInv, restarts = 0, NEW p \in NodeId,
         NEW m \in BagToSet(net), Receive(p, m)
  PROVE  QuietInv'
<1> DEFINE s     == Local(p)
           fresh == [id |-> m.from, address |-> m.fromAddress]
           known == GetNode(table[p], p, m.from)
<1>1. PICK after : after =
        CASE m.type = "PING"       -> Handle(s, p, fresh, m)
          [] m.type = "PING_REPLY" -> HandlePingReply(s, p, fresh, m)
          [] m.type \notin {"PING", "PING_REPLY"} /\ known # NoNode
                                   -> Handle(s, p, known, m)
          [] OTHER                 -> Ping(s, p, fresh, "key", m)
  OBVIOUS
<1>2. /\ Arrives(p, m) /\ Commit(p, after)
      /\ net' = (net (-) SetToBag({m})) (+) after.out
      /\ address' = address /\ restarts' = restarts
  BY <1>1 DEF Receive, Commit
<1>3. BoundsOK /\ LocalOK(p, s) /\ s.pending = pending[p] /\ s.table = table[p]
  BY LocalStarts DEF Inv, Local
<1>4. QuietLocal(p, s, {}) /\ \A x \in {} : MessageOK(x, count)
  BY LocalQuiet
<1>5. /\ m \in OnTheWay /\ MessageOK(m, count) /\ SentOK(m) /\ HandledOK(p, m)
      /\ m.from \in NodeId /\ m.fromAddress \in Address /\ m \in Message
      /\ m.type # "PING" => m.to = p
  <2>1. m \in OnTheWay
    BY DEF OnTheWay
  <2>2. MessageOK(m, count) /\ SentOK(m) /\ \A r \in pending[p] : AskedOne(r, m)
    BY <2>1 DEF Inv
  <2> QED BY <1>2, <2>1, <2>2 DEF MessageOK, Message, HandledOK, Arrives
<1>6. fresh \in Node /\ Reached(p, fresh) /\ fresh.id = m.from
  <2>1. fresh \in Node
    BY <1>5 DEF Node
  <2>2. m.fromAddress = address[m.from] /\ address[p] \in opened[m.from]
    BY <1>2, <1>5 DEF SentOK, Arrives
  <2> QED BY <2>1, <2>2 DEF Reached
<1>7. known # NoNode => known \in Node /\ Reached(p, known) /\ known.id = m.from
  <2>1. SUFFICES ASSUME known # NoNode
                 PROVE  known \in Node /\ Reached(p, known) /\ known.id = m.from
    OBVIOUS
  <2>2. TableOK(table[p], p) /\ ReachOK(p, s)
    BY <1>3 DEF LocalOK, PeerOK
  <2>3. known \in Node /\ known \in Filed(table[p]) /\ known.id = m.from
    BY <1>5, <2>1, <2>2, GetNodeFacts DEF Filed
  <2> QED BY <1>3, <2>2, <2>3 DEF ReachOK
<1> HIDE DEF s, fresh, known
<1>8. ASSUME NEW node \in Node, Reached(p, node), node.id = m.from,
             m.type # "PING_REPLY", after = Handle(s, p, node, m)
      PROVE  QuietLocal(p, after, {m}) /\ KeysKept(p, after, {m})
  <2>1. PICK none : none = {}
    OBVIOUS
  <2>2. QuietLocal(p, s, none) /\ \A x \in none : MessageOK(x, count)
    BY <1>4, <2>1
  <2>3. /\ QuietLocal(p, after, none \cup {m})
        /\ \A r \in s.pending : r \in after.pending \/ r.type = "FIND_NODE"
    BY <1>3, <1>5, <1>8, <2>2, HandleQuiet
  <2>4. none \cup {m} = {m}
    BY <2>1
  <2>5. \A r \in s.pending : r.type = "FIND_NODE" => r.purpose # "key"
    BY <1>3 DEF LocalOK, PeerOK, PendingOK, RequestOK
  <2> QED BY <1>3, <2>3, <2>4, <2>5 DEF KeysKept
<1>9. \E over :
        /\ QuietLocal(p, after, over) /\ KeysKept(p, after, over)
        /\ m \in over \/ m \in Held(after.pending)
        /\ \A x \in over : x = m \/ x \in Held(pending[p])
  <2>1. CASE m.type = "PING"
    <3>1. after = Handle(s, p, fresh, m) /\ m.type # "PING_REPLY"
      BY <1>1, <2>1
    <3>2. QuietLocal(p, after, {m}) /\ KeysKept(p, after, {m})
      BY <1>6, <1>8, <3>1
    <3> QED BY <3>2
  <2>2. CASE m.type = "PING_REPLY"
    <3>1. after = HandlePingReply(s, p, fresh, m)
      BY <1>1, <2>2
    <3>2. /\ \A x \in OnTheWay : MessageOK(x, count)
          /\ \A r \in pending[p], x \in OnTheWay : AskedOne(r, x)
      BY DEF Inv
    <3>3. /\ \A r \in pending[p] : KeyAsked(r, m)
          /\ \A r \in pending[p] : r.purpose = "key" => r.to.id = r.held.from
      BY <1>5 DEF QuietInv
    <3>4. \E over :
            /\ m \in over
            /\ \A x \in over : x = m \/ x \in Held(pending[p])
            /\ QuietLocal(p, after, over) /\ KeysKept(p, after, over)
      BY <1>3, <1>4, <1>5, <1>6, <2>2, <3>1, <3>2, <3>3, HandlePingReplyQuiet
    <3> QED BY <3>4
  <2>3. CASE m.type \notin {"PING", "PING_REPLY"} /\ known # NoNode
    <3>1. after = Handle(s, p, known, m) /\ m.type # "PING_REPLY"
      BY <1>1, <2>3
    <3>2. QuietLocal(p, after, {m}) /\ KeysKept(p, after, {m})
      BY <1>7, <1>8, <2>3, <3>1
    <3> QED BY <3>2
  <2>4. CASE m.type \notin {"PING", "PING_REPLY"} /\ known = NoNode
    <3>1. after = Ping(Local(p), p, fresh, "key", m)
      BY <1>1, <2>4 DEF s
    <3>2. fresh.address = address[m.from] /\ address[p] \in opened[m.from]
      BY <1>6 DEF Reached
    <3> DEFINE r == Awaited(fresh, "PING", FreshId(Local(p), p, 1), "key", m)
    <3>3. QuietLocal(p, after, {}) /\ KeysKept(p, after, {}) /\ r \in after.pending
      BY <1>5, <1>6, <3>1, <3>2, PingQuiet
    <3>4. r.purpose = "key" /\ r.held = m
      BY DEF Awaited
    <3> HIDE DEF r
    <3>5. m \in Held(after.pending)
      BY <3>3, <3>4 DEF Held
    <3> QED BY <3>3, <3>5
  <2> QED BY <2>1, <2>2, <2>3, <2>4
<1>10. PICK over :
         /\ QuietLocal(p, after, over) /\ KeysKept(p, after, over)
         /\ m \in over \/ m \in Held(after.pending)
         /\ \A x \in over : x = m \/ x \in Held(pending[p])
  BY <1>9
<1>11. \A x \in over : x \in OnTheWay /\ OnWayTo(p, x)
  BY <1>2, <1>5, <1>10 DEF OnWayTo, OnTheWay
<1>12. PICK left : left = net (-) SetToBag({m})
  OBVIOUS
<1>13. /\ BagToSet(left) \subseteq BagToSet(net)
       /\ \A x \in BagToSet(net) : x = m \/ x \in BagToSet(left)
  BY <1>3, <1>12, BagTake DEF BoundsOK
<1>14. BagToSet(net)' = BagToSet(left) \cup BagToSet(after.out)
  <2>1. net' = left (+) after.out
    BY <1>2, <1>12
  <2>2. BagToSet(left (+) after.out) = BagToSet(left) \cup BagToSet(after.out)
    BY DEF BagToSet, (+)
  <2> QED BY <2>1, <2>2 DEF BagToSet
<1>15. \A q \in NodeId : Arrives(q, m) => q = p
  <2>1. address = Home
    BY DEF QuietInv
  <2> QED BY <1>2, <2>1, RPCAssumption DEF Arrives
<1>16. \A q \in NodeId : \A x \in BagToSet(net) : Arrives(q, x) =>
         \/ x \in BagToSet(net)'
         \/ q = p /\ (x \in over \/ x \in Held(after.pending))
  BY <1>10, <1>13, <1>14, <1>15
<1> QED BY <1>2, <1>10, <1>11, <1>13, <1>14, <1>16, EffectFrom

\* When nothing is on its way, nothing is held, as the questions for keys and
\* their answers never are, and so nothing waits.
LEMMA TimeoutQuiet ==
  ASSUME Inv, QuietInv, restarts = 0, Timely, NEW p \in NodeId, NEW r, Timeout(p, r)
  PROVE  FALSE
<1>1. r \in pending[p] /\ net = EmptyBag
  BY DEF Timeout
<1>2. BagToSet(net) = {}
  BY <1>1 DEF EmptyBag, SetToBag, BagToSet
<1>3. \A q \in NodeId : \A x \in pending[q] :
        /\ x.purpose = "key" => x.held.type \notin {"PING", "PING_REPLY"}
        /\ x.type \in {"PING", "FIND_NODE"}
        /\ x.type = "FIND_NODE" <=> x.purpose = "find"
  <2>1. SUFFICES ASSUME NEW q \in NodeId, NEW x \in pending[q]
                 PROVE  RequestOK(q, x, settled)
    BY DEF RequestOK, Request
  <2>2. PendingOK(q, Local(q), settled) /\ Local(q).pending = pending[q]
    BY DEF Inv, PeerOK, Local
  <2> QED BY <2>2 DEF PendingOK
<1>4. \A m \in OnTheWay : m.type \notin {"PING", "PING_REPLY"}
  BY <1>2, <1>3 DEF OnTheWay, Held
<1>5. \A q \in NodeId : \A x \in pending[q] : x.purpose # "key"
  <2>1. SUFFICES ASSUME NEW q \in NodeId, NEW x \in pending[q], x.purpose = "key"
                 PROVE  FALSE
    OBVIOUS
  <2>2. Covered(q, x) /\ x.type = "PING"
    BY <1>3, <2>1 DEF QuietInv
  <2>3. ~Asking(q, x) /\ ~Replied(q, x) /\ ~Punching(q, x)
    BY <1>4, <2>1, <2>2 DEF Asking, Replied, Punching, Answers
  <2> QED BY <2>2, <2>3 DEF Covered
<1>6. OnTheWay = {}
  BY <1>2, <1>5 DEF OnTheWay, Held
<1>7. Covered(p, r)
  BY <1>1 DEF QuietInv
<1> QED BY <1>6, <1>7 DEF Covered, Asking, Replied, Punching, Announced

\* Messages that reach nobody are no loss, and nothing else gets lost.
LEMMA UndeliverableQuiet ==
  ASSUME Inv, Inv', QuietInv, restarts = 0,
         UNCHANGED <<address, table, pending, toPing, count, opened, settled, restarts>>,
         BagToSet(net)' \subseteq BagToSet(net),
         \A q \in NodeId : \A m \in BagToSet(net) :
           Arrives(q, m) => m \in BagToSet(net)'
  PROVE  QuietInv'
<1>1. PICK s : s = Local(Seed)
  OBVIOUS
<1>2. Seed \in NodeId
  BY RPCAssumption
<1>3. /\ s.table = table[Seed] /\ s.pending = pending[Seed]
      /\ s.toPing = toPing[Seed] /\ s.count = count[Seed] /\ s.settled = {}
      /\ s.out = EmptyBag
  BY <1>1 DEF Local
<1>4. BagToSet(s.out) = {}
  BY <1>3 DEF EmptyBag, SetToBag, BagToSet
<1>5. Commit(Seed, s)
  <2>1. BoundsOK
    BY DEF Inv
  <2>2. s.count <= MaxRequests
    BY <1>2, <1>3, <2>1, RPCAssumption DEF BoundsOK
  <2>3. {m.toAddress : m \in BagToSet(s.out)} = {}
    BY <1>4
  <2> QED BY <1>2, <1>3, <2>1, <2>2, <2>3 DEF BoundsOK, Commit
<1>6. PICK over : over = {}
  OBVIOUS
<1>7. QuietLocal(Seed, s, over) /\ KeysKept(Seed, s, over)
  BY <1>1, <1>6, LocalQuiet
<1> QED BY <1>2, <1>4, <1>5, <1>6, <1>7, EffectFrom

LEMMA QuietStays ==
  ASSUME Timely, MaxLost = 0, Inv, Inv', QuietInv, [Next]_vars
  PROVE  QuietInv'
<1>1. ASSUME restarts # 0
      PROVE  restarts' # 0
  <2>1. restarts' = restarts \/ restarts' = restarts + 1
    BY DEF Next, vars, Bootstrap, Find, PingNamed, Receive, Timeout, Restart,
           Undeliverable, Lose, Repeat
  <2> QED BY <1>1, <2>1 DEF Inv, BoundsOK
<1>2. CASE restarts' # 0
  BY <1>2 DEF QuietInv
<1>3. CASE restarts = 0
  <2>1. ASSUME NEW p \in NodeId, Bootstrap(p)
        PROVE  QuietInv'
    BY <1>3, <2>1, BootstrapQuiet
  <2>2. ASSUME NEW p \in NodeId, NEW q \in NodeId, NEW subject \in Subject,
               Find(p, GetNode(table[p], p, q), subject)
        PROVE  QuietInv'
    BY <1>3, <2>2, FindQuiet
  <2>3. ASSUME NEW p \in NodeId, NEW named \in toPing[p], PingNamed(p, named)
        PROVE  QuietInv'
    <3>1. PICK e : e = named
      OBVIOUS
    <3> QED BY <1>3, <2>3, PingNamedQuiet
  <2>4. ASSUME NEW p \in NodeId, NEW m \in BagToSet(net), Receive(p, m)
        PROVE  QuietInv'
    BY <1>3, <2>4, ReceiveQuiet
  <2>5. ASSUME NEW p \in NodeId, NEW r \in pending[p], Timeout(p, r)
        PROVE  QuietInv'
    BY <1>3, <2>5, TimeoutQuiet
  <2>6. ASSUME NEW p \in NodeId, NEW a \in Address, Restart(p, a)
        PROVE  QuietInv'
    BY <1>3, <2>6 DEF Restart, QuietInv
  <2>7. ASSUME NEW m \in BagToSet(net), Undeliverable(m)
        PROVE  QuietInv'
    <3>1. PICK left : left = net (-) SetToBag({m})
      OBVIOUS
    <3>2. /\ BagToSet(left) \subseteq BagToSet(net)
          /\ \A x \in BagToSet(net) : x = m \/ x \in BagToSet(left)
      BY <3>1, BagTake DEF Inv, BoundsOK
    <3>3. BagToSet(net)' = BagToSet(left)
      BY <2>7, <3>1 DEF Undeliverable, BagToSet
    <3>4. \A q \in NodeId : \A x \in BagToSet(net) :
            Arrives(q, x) => x \in BagToSet(net)'
      BY <2>7, <3>2, <3>3 DEF Undeliverable
    <3>5. UNCHANGED <<address, table, pending, toPing, count, opened, settled, restarts>>
      BY <2>7 DEF Undeliverable
    <3> QED BY <1>3, <3>2, <3>3, <3>4, <3>5, UndeliverableQuiet
  <2>8. ASSUME NEW m \in BagToSet(net), Lose(m) \/ Repeat(m)
        PROVE  FALSE
    BY <2>8 DEF Inv, BoundsOK, Lose, Repeat
  <2>9. CASE UNCHANGED vars
    <3>1. BagToSet(net)' = BagToSet(net)
      BY <2>9 DEF vars, BagToSet
    <3>2. UNCHANGED <<address, table, pending, toPing, count, opened, settled, restarts>>
      BY <2>9 DEF vars
    <3> QED BY <1>3, <3>1, <3>2, UndeliverableQuiet
  <2> QED BY <2>1, <2>2, <2>3, <2>4, <2>5, <2>6, <2>7, <2>8, <2>9 DEF Next
<1> QED BY <1>1, <1>2, <1>3

LEMMA QuietStarts ==
  ASSUME Init
  PROVE  QuietInv
<1>1. \A p \in NodeId : pending[p] = {} /\ toPing[p] = {}
  BY DEF Init
<1>2. OnTheWay = {}
  BY <1>1 DEF Init, OnTheWay, Held, EmptyBag, SetToBag, BagToSet
<1> QED BY <1>1, <1>2 DEF Init, QuietInv

\* As long as timers outlast the messages, none is lost and no peer restarts,
\* no timer rings: every request of receiveMessage, bootstrap and
\* findClosestNodes is answered, in whatever order messages come, and peers
\* behind NATs meet.
THEOREM NothingFailsCorrect ==
  ASSUME Timely, MaxLost = 0
  PROVE  Spec => []NothingFails
<1>1. Init => Inv /\ QuietInv
  BY InvStarts, QuietStarts
<1>2. Inv /\ QuietInv /\ [Next]_vars => Inv' /\ QuietInv'
  BY InvStays, QuietStays
<1>3. QuietInv => NothingFails
  BY DEF QuietInv, NothingFails
<1> QED BY <1>1, <1>2, <1>3, PTL DEF Spec

-----------------------------------------------------------------------------
(* RemovedHadLeft: why a contact that is removed for its silence, or the    *)
(* peer that asked it, has moved, when nothing is lost and one peer at most *)
(* restarts. It is the argument of NothingFails for those requests alone    *)
(* whose contact is where it was asked.                                     *)

\* The object's contact is still where the object says.
Here(o) == o.address = address[o.id]

\* An object of a contact has its first address or its present one, where the
\* contact has let p in.
Known(p, o) ==
  /\ o.address \in {Home[o.id], address[o.id]}
  /\ Here(o) => address[p] \in opened[o.id]

\* So does a message: it comes from where its sender was, or is.
Posted(m) ==
  /\ m.fromAddress \in {Home[m.from], address[m.from]}
  /\ m.fromAddress = address[m.from] => m.toAddress \in opened[m.from]

\* The request for a key is put to where the message held came from, and
\* answered by its sender, if that one is still there.
KeyPut(r, m) ==
  r.purpose = "key" /\ r.id = m.id =>
    /\ m.type = "PING" => m.toAddress = r.to.address
    /\ m.type = "PING_REPLY" /\ Here(r.to) => m.from = r.to.id

\* The requests that have to be answered: those for keys, and, if the peer
\* has not moved, those that make it remove a contact.
Due(p, r) ==
  /\ r.purpose = "key" \/ (r.purpose \in {"find", "evict"} /\ address[p] = Home[p])
  /\ Here(r.to)

\* What the request asks is on its way to its contact.
AskedThere(p, r) ==
  \E m \in OnTheWay :
    /\ OnWayTo(r.to.id, m) /\ m.type = r.type /\ m.id = r.id
    /\ m.from = p /\ m.fromAddress = address[p]

\* The contact's answer is on its way back.
AnsweredBack(p, r) ==
  \E m \in OnTheWay :
    /\ OnWayTo(p, m) /\ Answers(r, m)
    /\ r.type = "FIND_NODE" => m.fromAddress = r.to.address

\* At most one peer moves, to where nobody was at first.
PlacesOK ==
  /\ \A p, q \in NodeId : address[p] = address[q] => p = q
  /\ restarts = 0 => address = Home
  /\ restarts <= 1

ContactsOK(p) ==
  /\ \A o \in Filed(table[p]) : Known(p, o)
  /\ \A r \in pending[p] :
       /\ r.purpose \in {"find", "evict", "key"} => Known(p, r.to)
       /\ r.purpose = "key" =>
            r.to = [id |-> r.held.from, address |-> r.held.fromAddress]
       /\ Due(p, r) => AskedThere(p, r) \/ AnsweredBack(p, r)

LeftInv ==
  /\ PlacesOK
  /\ \A p \in NodeId : ContactsOK(p)
  /\ \A m \in OnTheWay : Posted(m)
  /\ \A p \in NodeId : \A r \in pending[p], m \in OnTheWay : KeyPut(r, m)

-----------------------------------------------------------------------------
(* What holds of the state a handler works on, when it has dealt with the   *)
(* messages of the set "over".                                              *)

\* A request that is new, and that it may be due to answer, has been sent.
Posed(p, s, r) ==
  r.purpose \in {"find", "evict", "key"} =>
    /\ Known(p, r.to)
    /\ \E l \in BagToSet(s.out) :
         /\ l.type = r.type /\ l.id = r.id /\ l.from = p /\ l.to = r.to.id
         /\ l.fromAddress = address[p] /\ l.toAddress = r.to.address
    /\ r.purpose = "key" =>
         /\ r.id.n > count[p] /\ r.held \in OnTheWay
         /\ r.to = [id |-> r.held.from, address |-> r.held.fromAddress]

\* A ping is answered to where it came from, a lookup to where its sender is
\* filed.
Returned(p, s, m) ==
  /\ m.type = "PING" =>
       \E l \in BagToSet(s.out) :
         /\ l.type = "PING_REPLY" /\ l.id = m.id /\ l.to = m.from
         /\ l.fromAddress = address[p] /\ l.toAddress = m.fromAddress
  /\ m.type = "FIND_NODE" =>
       \E l \in BagToSet(s.out) :
         /\ l.type = "FIND_NODE_REPLY" /\ l.id = m.id /\ l.to = m.from
         /\ l.fromAddress = address[p]
         /\ l.toAddress \in {Home[m.from], address[m.from]}

LetterLeft(p, s, over, l) ==
  /\ l.from = p /\ l.fromAddress = address[p]
  /\ l.type = "PING" =>
       l.id.by = p /\ \A r \in s.pending :
                        r.purpose = "key" /\ r.id = l.id => l.toAddress = r.to.address
  /\ l.type = "PING_REPLY" =>
       \/ l.id.via # NoNode
       \/ \E m \in over : m.type = "PING" /\ m.id = l.id

LeftLocal(p, s, over) ==
  /\ \A o \in Filed(s.table) : Known(p, o)
  /\ \A r \in s.pending : r \in pending[p] \/ Posed(p, s, r)
  /\ \A r \in s.pending, m \in over : ~Answers(r, m)
  /\ \A m \in over : Returned(p, s, m)
  /\ \A l \in BagToSet(s.out) : LetterLeft(p, s, over, l)

\* A message is only dropped unanswered if its sender has left.
KeysLeft(p, s, over) ==
  \A r \in pending[p] :
    r \in s.pending \/ (r.purpose = "key" => r.held \in over \/ ~Here(r.to))

-----------------------------------------------------------------------------
LEMMA LocalLeft ==
  ASSUME LeftInv, NEW p \in NodeId
  PROVE  LeftLocal(p, Local(p), {}) /\ KeysLeft(p, Local(p), {})
<1>1. /\ Local(p).table = table[p] /\ Local(p).pending = pending[p]
      /\ Local(p).out = EmptyBag
  BY DEF Local
<1>2. BagToSet(EmptyBag) = {}
  BY DEF EmptyBag, SetToBag, BagToSet
<1>3. \A o \in Filed(table[p]) : Known(p, o)
  BY DEF LeftInv, ContactsOK
<1> QED BY <1>1, <1>2, <1>3 DEF LeftLocal, KeysLeft

\* Letters are sent, and some messages dealt with by it.
LEMMA SendLeft ==
  ASSUME NEW p, NEW s, Shape(s), NEW over, LeftLocal(p, s, over),
         NEW letters, NEW more, over \subseteq more,
         \A l \in letters : LetterLeft(p, s, more, l),
         \A m \in more : m \in over \/ /\ Returned(p, Send(s, letters), m)
                                       /\ \A r \in s.pending : ~Answers(r, m)
  PROVE  LeftLocal(p, Send(s, letters), more)
<1> DEFINE u == Send(s, letters)
<1>1. /\ u.table = s.table /\ u.pending = s.pending
      /\ BagToSet(s.out) \subseteq BagToSet(u.out)
      /\ BagToSet(u.out) = BagToSet(s.out) \cup letters
  BY SendFields
<1> HIDE DEF u
<1>2. \A r \in u.pending : r \in pending[p] \/ Posed(p, u, r)
  BY <1>1 DEF LeftLocal, Posed
<1>3. \A r \in u.pending, m \in more : ~Answers(r, m)
  BY <1>1 DEF LeftLocal
<1>4. \A m \in more : Returned(p, u, m)
  <2>1. \A m \in over : Returned(p, u, m)
    BY <1>1 DEF LeftLocal, Returned
  <2> QED BY <2>1 DEF u
<1>5. \A l \in BagToSet(u.out) : LetterLeft(p, u, more, l)
  <2>1. \A l \in BagToSet(s.out) : LetterLeft(p, u, more, l)
    BY <1>1 DEF LeftLocal, LetterLeft
  <2>2. \A l \in letters : LetterLeft(p, u, more, l)
    BY <1>1 DEF LetterLeft
  <2> QED BY <1>1, <2>1, <2>2
<1>6. LeftLocal(p, u, more)
  BY <1>1, <1>2, <1>3, <1>4, <1>5 DEF LeftLocal
<1> QED BY <1>6 DEF u

\* Requests are sent, to contacts that are known if an answer may be due.
LEMMA AwaitLeft ==
  ASSUME NEW p, NEW s, Shape(s), NEW over, LeftLocal(p, s, over),
         NEW requests, NEW subject, NEW number,
         \A r \in requests :
           /\ r.purpose \in {"find", "evict", "key"} => Known(p, r.to)
           /\ \A m \in over : m.id # r.id
           /\ r.type \in {"PING", "FIND_NODE"} /\ r.id.by = p
           /\ \A q \in s.pending : q.id # r.id
           /\ r.purpose = "key" =>
                /\ r.id.n > count[p] /\ r.held \in OnTheWay
                /\ r.to = [id |-> r.held.from, address |-> r.held.fromAddress]
                /\ BagToSet(s.out) = {},
         \A q, r \in requests : q.id = r.id => q = r
  PROVE  LeftLocal(p, Counted(SendAndWait(s, p, requests, subject), number), over)
<1> DEFINE u == Counted(SendAndWait(s, p, requests, subject), number)
           letters == Letters(p, requests, subject)
<1>1. /\ u.table = s.table /\ u.pending = s.pending \cup requests
      /\ BagToSet(u.out) = BagToSet(s.out) \cup letters
  BY AwaitFields
<1> HIDE DEF u
<1>2. \A r \in requests : Posed(p, u, r)
  <2>1. SUFFICES ASSUME NEW r \in requests
                 PROVE  Posed(p, u, r)
    OBVIOUS
  <2>2. PICK l : l = Letter(p, r.to, r.type, r.id, subject, {})
    OBVIOUS
  <2>3. l \in BagToSet(u.out)
    BY <1>1, <2>2 DEF Letters
  <2>4. /\ l.type = r.type /\ l.id = r.id /\ l.from = p /\ l.to = r.to.id
        /\ l.fromAddress = address[p] /\ l.toAddress = r.to.address
    BY <2>2 DEF Letter
  <2> QED BY <2>3, <2>4 DEF Posed
<1>3. ASSUME NEW l \in letters
      PROVE  LetterLeft(p, u, over, l)
  <2>1. PICK r \in requests : l = Letter(p, r.to, r.type, r.id, subject, {})
    BY DEF Letters
  <2>2. /\ l.type = r.type /\ l.id = r.id /\ l.toAddress = r.to.address
        /\ l.from = p /\ l.fromAddress = address[p]
    BY <2>1 DEF Letter
  <2>3. \A q \in u.pending : q.id = l.id => q = r
    BY <1>1, <2>2
  <2> QED BY <2>2, <2>3 DEF LetterLeft
<1> HIDE DEF letters
<1>4. \A r \in u.pending : r \in pending[p] \/ Posed(p, u, r)
  <2>1. ASSUME NEW r \in s.pending, r \notin pending[p]
        PROVE  Posed(p, u, r)
    <3>1. Posed(p, s, r)
      BY <2>1 DEF LeftLocal
    <3> QED BY <1>1, <3>1 DEF Posed
  <2> QED BY <1>1, <1>2, <2>1
<1>5. \A r \in u.pending, m \in over : ~Answers(r, m)
  <2>1. \A r \in requests, m \in over : ~Answers(r, m)
    BY DEF Answers
  <2> QED BY <1>1, <2>1 DEF LeftLocal
<1>6. \A m \in over : Returned(p, u, m)
  BY <1>1 DEF LeftLocal, Returned
<1>7. ASSUME NEW l \in BagToSet(s.out)
      PROVE  LetterLeft(p, u, over, l)
  <2>1. LetterLeft(p, s, over, l)
    BY DEF LeftLocal
  <2>2. \A r \in requests : r.purpose # "key"
    OBVIOUS
  <2>3. \A r \in u.pending : r.purpose = "key" => r \in s.pending
    BY <1>1, <2>2
  <2> QED BY <2>1, <2>3 DEF LetterLeft
<1>8. LeftLocal(p, u, over)
  BY <1>1, <1>3, <1>4, <1>5, <1>6, <1>7 DEF LeftLocal
<1> QED BY <1>8 DEF u

LEMMA AdmitLeft ==
  ASSUME NEW p \in NodeId, NEW s, LocalOK(p, s), BoundsOK, NEW node \in Node,
         Known(p, node), NEW over, LeftLocal(p, s, over),
         \A m \in over : MessageOK(m, count)
  PROVE  LET u == Admit(s, p, node)
         IN /\ LeftLocal(p, u, over)
            /\ \A r \in s.pending : r \in u.pending
<1>1. PICK t, pings, number :
        /\ Admit(s, p, node) = Counted(SendAndWait(t, p, pings, NoNode), number)
        /\ Shape(t) /\ t.pending = s.pending /\ t.toPing = s.toPing
        /\ t.out = s.out /\ t.settled = s.settled
        /\ \A o \in Filed(t.table) : o = node \/ o \in Filed(s.table)
        /\ \A r \in pings :
             /\ r.type = "PING" /\ r.purpose = "evict" /\ r.id.by = p
             /\ r.id.n \in Nat /\ r.id.n > s.count
             /\ r.to.id \in NodeId /\ r.to \in Filed(t.table)
        /\ \A q, r \in pings : q.id = r.id => q = r
  BY AdmitFacts
<1> DEFINE u == Counted(SendAndWait(t, p, pings, NoNode), number)
<1>2. \A o \in Filed(t.table) : Known(p, o)
  BY <1>1 DEF LeftLocal
<1>3. LeftLocal(p, t, over)
  BY <1>1, <1>2 DEF LeftLocal, Posed, Returned, LetterLeft
<1>4. \A r \in pings : \A m \in over : m.id # r.id
  BY <1>1, OldNumber
<1>5. \A r \in pings, q \in t.pending : q.id # r.id
  <2>1. s.count \in Nat
    BY DEF LocalOK, PeerOK, CountOK
  <2>2. \A q \in s.pending : q.id.n <= s.count /\ q.id.n \in Nat
    BY DEF LocalOK, PeerOK, PendingOK, RequestOK, Request, MessageId
  <2> QED BY <1>1, <2>1, <2>2
<1>6. LeftLocal(p, u, over)
  BY <1>1, <1>2, <1>3, <1>4, <1>5, AwaitLeft
<1>7. u.pending = t.pending \cup pings
  BY <1>1, AwaitFields
<1> QED BY <1>1, <1>6, <1>7

\* The answer to a ping goes to where it came from.
LEMMA ReplyLeft ==
  ASSUME NEW p \in NodeId, NEW s, Shape(s), NEW over, LeftLocal(p, s, over),
         NEW m, m.type = "PING", NEW to, to.id = m.from, to.address = m.fromAddress
  PROVE  /\ LeftLocal(p, Reply(s, p, to, m, {}), over \cup {m})
         /\ Reply(s, p, to, m, {}).pending = s.pending
<1> DEFINE l == Letter(p, to, "PING_REPLY", m.id, NoNode, {})
           u == Send(s, {l})
<1>1. Reply(s, p, to, m, {}) = u
  BY DEF Reply
<1>2. /\ l.type = "PING_REPLY" /\ l.id = m.id /\ l.from = p /\ l.to = m.from
      /\ l.fromAddress = address[p] /\ l.toAddress = m.fromAddress
  BY DEF Letter
<1> HIDE DEF l
<1>3. u.pending = s.pending /\ l \in BagToSet(u.out)
  BY SendFields
<1> HIDE DEF u
<1>4. Returned(p, u, m)
  BY <1>2, <1>3 DEF Returned
<1>5. \A r \in s.pending : ~Answers(r, m)
  BY DEF Answers
<1>6. LetterLeft(p, s, over \cup {m}, l)
  BY <1>2 DEF LetterLeft
<1>7. LeftLocal(p, u, over \cup {m})
  BY <1>4, <1>5, <1>6, SendLeft DEF u
<1> QED BY <1>1, <1>3, <1>7

LEMMA AnswerFindLeft ==
  ASSUME NEW p \in NodeId, NEW s, Shape(s), NEW over, LeftLocal(p, s, over),
         NEW m, m.type = "FIND_NODE", NEW node, Known(p, node), node.id = m.from
  PROVE  /\ LeftLocal(p, AnswerFind(s, p, node, m), over \cup {m})
         /\ AnswerFind(s, p, node, m).pending = s.pending
<1> DEFINE closest == GetClosestNodes(s.table, p, m.subject, NodesPerBucket)
           named == {n \in ToSet(closest) : n.id # node.id}
           Forward(n) == Letter(p, n, "PING_FORWARD", m.id, NoNode, {node})
           forwards == {Forward(n) : n \in named}
           t == Send(s, forwards)
           l == Letter(p, node, "FIND_NODE_REPLY", m.id, NoNode, named)
           u == Send(t, {l})
<1>1. AnswerFind(s, p, node, m) = u
  BY DEF AnswerFind, Reply
<1> HIDE DEF named
<1>2. \A n \in named : /\ Forward(n).type = "PING_FORWARD" /\ Forward(n).from = p
                       /\ Forward(n).fromAddress = address[p]
  BY DEF Letter
<1>3. /\ l.type = "FIND_NODE_REPLY" /\ l.id = m.id /\ l.to = m.from /\ l.from = p
      /\ l.fromAddress = address[p] /\ l.toAddress = node.address
  BY DEF Letter
<1> HIDE DEF Forward, l
<1>4. Shape(t) /\ t.pending = s.pending
  BY SendFields
<1>5. LeftLocal(p, t, over)
  <2>1. \A f \in forwards : LetterLeft(p, s, over, f)
    BY <1>2 DEF LetterLeft
  <2> HIDE DEF forwards
  <2> QED BY <2>1, SendLeft
<1> HIDE DEF t
<1>6. u.pending = t.pending /\ BagToSet(u.out) = BagToSet(t.out) \cup {l}
  BY <1>4, SendFields
<1> HIDE DEF u
<1>7. Returned(p, u, m)
  <2>1. l.toAddress \in {Home[m.from], address[m.from]}
    BY <1>3 DEF Known
  <2> QED BY <1>3, <1>6, <2>1 DEF Returned
<1>8. \A r \in t.pending : ~Answers(r, m)
  BY DEF Answers
<1>9. LetterLeft(p, t, over \cup {m}, l)
  BY <1>3 DEF LetterLeft
<1>10. LeftLocal(p, u, over \cup {m})
  BY <1>4, <1>5, <1>7, <1>8, <1>9, SendLeft DEF u
<1> QED BY <1>1, <1>4, <1>6, <1>10

LEMMA AnswerForwardLeft ==
  ASSUME NEW p \in NodeId, NEW s, Shape(s), NEW over, LeftLocal(p, s, over),
         NEW m, m.type = "PING_FORWARD", m.id \in MessageId
  PROVE  /\ LeftLocal(p, AnswerForward(s, p, m), over \cup {m})
         /\ AnswerForward(s, p, m).pending = s.pending
<1> DEFINE asker == CHOOSE node \in m.nodes : TRUE
           l == Letter(p, asker, "PING_REPLY", ForwardedId(p, m.id), NoNode, {})
           u == Send(s, {l})
<1>1. AnswerForward(s, p, m) = u
  BY DEF AnswerForward
<1> HIDE DEF asker
<1>2. /\ l.type = "PING_REPLY" /\ l.id = ForwardedId(p, m.id) /\ l.from = p
      /\ l.fromAddress = address[p]
  BY DEF Letter
<1> HIDE DEF l
<1>3. u.pending = s.pending
  BY SendFields
<1> HIDE DEF u
<1>4. Returned(p, u, m)
  BY DEF Returned
<1>5. \A r \in s.pending : ~Answers(r, m)
  BY DEF Answers
<1>6. l.id.via # NoNode
  BY <1>2, RPCAssumption DEF ForwardedId, MessageId
<1>7. LetterLeft(p, s, over \cup {m}, l)
  BY <1>2, <1>6 DEF LetterLeft
<1>8. LeftLocal(p, u, over \cup {m})
  BY <1>4, <1>5, <1>7, SendLeft DEF u
<1> QED BY <1>1, <1>3, <1>8

\* A reply that answers a request, or none.
LEMMA ResolveLeft ==
  ASSUME NEW p \in NodeId, NEW s, LocalOK(p, s), NEW over, LeftLocal(p, s, over),
         NEW m, m.type \in {"PING_REPLY", "FIND_NODE_REPLY"},
         NEW r \in s.pending, Answers(r, m),
         NEW u, u.table = s.table, u.pending = s.pending \ {r}, u.out = s.out
  PROVE  LeftLocal(p, u, over \cup {m})
<1>1. \A q \in u.pending : ~Answers(q, m)
  BY DEF LocalOK, PeerOK, PendingOK, Answers
<1>2. \A q \in u.pending : q \in pending[p] \/ Posed(p, u, q)
  BY DEF LeftLocal, Posed
<1>3. \A q \in u.pending, x \in over \cup {m} : ~Answers(q, x)
  BY <1>1 DEF LeftLocal
<1>4. \A x \in over \cup {m} : Returned(p, u, x)
  BY DEF LeftLocal, Returned
<1>5. \A l \in BagToSet(u.out) : LetterLeft(p, u, over \cup {m}, l)
  BY DEF LeftLocal, LetterLeft
<1>6. \A o \in Filed(u.table) : Known(p, o)
  BY DEF LeftLocal
<1> QED BY <1>2, <1>3, <1>4, <1>5, <1>6 DEF LeftLocal

LEMMA UnaskedLeft ==
  ASSUME NEW p, NEW s, NEW over, LeftLocal(p, s, over),
         NEW m, m.type \in {"PING_REPLY", "FIND_NODE_REPLY"},
         \A r \in s.pending : ~Answers(r, m)
  PROVE  LeftLocal(p, s, over \cup {m})
<1>1. \A l \in BagToSet(s.out) : LetterLeft(p, s, over \cup {m}, l)
  BY DEF LeftLocal, LetterLeft
<1>2. Returned(p, s, m)
  BY DEF Returned
<1> QED BY <1>1, <1>2 DEF LeftLocal

LEMMA ResolveFields ==
  ASSUME NEW s, Shape(s), NEW r, NEW m
  PROVE  LET u == Resolve(s, r, m)
         IN /\ Shape(u) /\ u.table = s.table /\ u.pending = s.pending \ {r}
            /\ u.out = s.out
<1> DEFINE waiting == s.pending \ {r}
           more == s.settled \cup {[request |-> r, answer |-> m.from]}
           v == [s EXCEPT !.pending = waiting]
           u == [v EXCEPT !.settled = more]
<1>1. Resolve(s, r, m) = u
  BY DEF Resolve, Shape
<1> HIDE DEF waiting, more
<1>2. /\ Shape(v) /\ v.table = s.table /\ v.pending = waiting /\ v.out = s.out
      /\ v.settled = s.settled
  BY DEF Shape
<1> HIDE DEF v
<1>3. Shape(u) /\ u.table = v.table /\ u.pending = v.pending /\ u.out = v.out
  BY <1>2 DEF Shape
<1> HIDE DEF u
<1> QED BY <1>1, <1>2, <1>3 DEF waiting

\* Every message but a PING_REPLY is dealt with, and nothing is dropped.
LEMMA HandleLeft ==
  ASSUME NEW p \in NodeId, NEW s, LocalOK(p, s), BoundsOK,
         NEW over, LeftLocal(p, s, over), \A x \in over : MessageOK(x, count),
         NEW m, HandledOK(p, m), m.type # "PING_REPLY",
         NEW node \in Node, Known(p, node), restarts = 0 => Reached(p, node),
         node.id = m.from, m.type = "PING" => node.address = m.fromAddress
  PROVE  LET h == Handle(s, p, node, m)
         IN /\ LeftLocal(p, h, over \cup {m})
            /\ \A r \in s.pending : r \in h.pending \/ r.type = "FIND_NODE"
<1> DEFINE h  == Handle(s, p, node, m)
           t  == Admit(s, p, node)
           rs == {r \in t.pending : Answers(r, m)}
           r  == CHOOSE r \in rs : TRUE
           u  == Resolve(t, r, m)
           v  == [u EXCEPT !.toPing = @ \cup Named(p, m)]
           replied   == Reply(t, p, node, m, {})
           found     == AnswerFind(t, p, node, m)
           forwarded == AnswerForward(t, p, m)
<1>1. LocalOK(p, t) /\ Shape(t)
  <2>1. LocalOK(p, t)
    BY AdmitOK
  <2> HIDE DEF t
  <2> QED BY <2>1 DEF LocalOK
<1>2. LeftLocal(p, t, over) /\ \A q \in s.pending : q \in t.pending
  BY AdmitLeft
<1>3. h = CASE m.type = "PING" -> replied
            [] m.type = "FIND_NODE" -> found
            [] m.type = "PING_FORWARD" -> forwarded
            [] rs # {} -> v
            [] OTHER -> t
  BY DEF Handle
<1>4. m \in Message /\ m.type \in Type /\ m.id \in MessageId
  BY DEF HandledOK, MessageOK, Message
<1>5. \A q \in rs : Answers(q, m) /\ q \in t.pending
  OBVIOUS
<1>6. \A q : Answers(q, m) => m.type = "FIND_NODE_REPLY" /\ q.type = "FIND_NODE"
  BY DEF Answers
<1> HIDE DEF h, t, r, u, v, replied, found, forwarded
<1>7. CASE m.type = "PING"
  <2>1. h = Reply(t, p, node, m, {})
    BY <1>3, <1>5, <1>6, <1>7 DEF replied
  <2>2. LeftLocal(p, h, over \cup {m}) /\ h.pending = t.pending
    BY <1>1, <1>2, <1>7, <2>1, ReplyLeft
  <2> QED BY <1>2, <2>2 DEF h
<1>8. CASE m.type = "FIND_NODE"
  <2>1. rs = {}
    BY <1>5, <1>6, <1>8
  <2>2. h = AnswerFind(t, p, node, m)
    BY <1>3, <1>8, <2>1 DEF found
  <2>3. LeftLocal(p, h, over \cup {m}) /\ h.pending = t.pending
    BY <1>1, <1>2, <1>8, <2>2, AnswerFindLeft
  <2> QED BY <1>2, <2>3 DEF h
<1>9. CASE m.type = "PING_FORWARD"
  <2>1. rs = {}
    BY <1>5, <1>6, <1>9
  <2>2. h = AnswerForward(t, p, m)
    BY <1>3, <1>9, <2>1 DEF forwarded
  <2>3. LeftLocal(p, h, over \cup {m}) /\ h.pending = t.pending
    BY <1>1, <1>2, <1>4, <1>9, <2>2, AnswerForwardLeft
  <2> QED BY <1>2, <2>3 DEF h
<1>10. CASE m.type \notin {"PING", "FIND_NODE", "PING_FORWARD"}
  <2>1. m.type = "FIND_NODE_REPLY"
    BY <1>4, <1>10 DEF Type
  <2>2. CASE rs = {}
    <3>1. h = t
      BY <1>3, <1>10, <2>2
    <3>2. \A q \in t.pending : ~Answers(q, m)
      BY <2>2
    <3>3. LeftLocal(p, t, over \cup {m})
      BY <1>2, <2>1, <3>2, UnaskedLeft
    <3> QED BY <1>2, <3>1, <3>3 DEF h
  <2>3. CASE rs # {}
    <3>1. h = v
      BY <1>3, <1>10, <2>3
    <3>2. r \in t.pending /\ Answers(r, m) /\ r.type = "FIND_NODE"
      BY <1>5, <1>6, <2>3 DEF r
    <3>3. /\ Shape(u) /\ u.table = t.table /\ u.pending = t.pending \ {r}
          /\ u.out = t.out
      BY <1>1, ResolveFields DEF u
    <3>4. v.table = t.table /\ v.pending = t.pending \ {r} /\ v.out = t.out
      <4>1. PICK more : more = u.toPing \cup Named(p, m)
        OBVIOUS
      <4>2. v = [u EXCEPT !.toPing = more]
        BY <4>1 DEF v
      <4> QED BY <3>3, <4>2 DEF Shape
    <3>5. LeftLocal(p, v, over \cup {m})
      BY <1>1, <1>2, <2>1, <3>2, <3>4, ResolveLeft
    <3> QED BY <1>2, <3>1, <3>2, <3>4, <3>5 DEF h
  <2> QED BY <2>2, <2>3
<1> QED BY <1>7, <1>8, <1>9, <1>10

\* A PING_REPLY brings the key of the sender it was asked of, and the held
\* message is dealt with, or that sender has left, and it is dropped.
LEMMA HandlePingReplyLeft ==
  ASSUME NEW p \in NodeId, NEW s, LocalOK(p, s), BoundsOK,
         LeftLocal(p, s, {}), s.pending = pending[p],
         NEW m, HandledOK(p, m), m.type = "PING_REPLY",
         \A x \in OnTheWay : MessageOK(x, count),
         \A r \in pending[p], x \in OnTheWay : AskedOne(r, x),
         \A r \in pending[p] : KeyPut(r, m),
         \A r \in pending[p] : r.purpose = "key" =>
           /\ Known(p, r.to)
           /\ r.to = [id |-> r.held.from, address |-> r.held.fromAddress],
         NEW node \in Node, Known(p, node), restarts = 0 => Reached(p, node)
  PROVE  LET h == HandlePingReply(s, p, node, m)
         IN \E over :
              /\ m \in over
              /\ \A x \in over : x = m \/ x \in Held(pending[p])
              /\ LeftLocal(p, h, over) /\ KeysLeft(p, h, over)
<1> DEFINE h  == HandlePingReply(s, p, node, m)
           t  == Admit(s, p, node)
           rs == {r \in t.pending : Answers(r, m)}
           r  == CHOOSE r \in rs : TRUE
           u  == Resolve(t, r, m)
           w  == TableWithout(u.table, p, r.held.from)
           v  == [u EXCEPT !.table = w]
<1>1. LocalOK(p, t) /\ \A q \in t.pending : q \in s.pending \/ q.purpose = "evict"
  BY AdmitOK
<1>2. LeftLocal(p, t, {}) /\ \A q \in s.pending : q \in t.pending
  <2>1. PICK none : none = {}
    OBVIOUS
  <2>2. LeftLocal(p, s, none) /\ \A x \in none : MessageOK(x, count)
    BY <2>1
  <2>3. LeftLocal(p, Admit(s, p, node), none) /\ \A q \in s.pending : q \in Admit(s, p, node).pending
    BY <2>2, AdmitLeft
  <2> QED BY <2>1, <2>3
<1>3. m \in OnTheWay
  BY DEF HandledOK
<1> HIDE DEF t
<1>4. CASE rs = {}
  <2>1. h = t
    BY <1>4 DEF HandlePingReply, t
  <2>2. \A q \in t.pending : ~Answers(q, m)
    BY <1>4
  <2>3. LeftLocal(p, t, {} \cup {m})
    BY <1>2, <2>2, UnaskedLeft
  <2>4. LeftLocal(p, h, {m}) /\ KeysLeft(p, h, {m})
    <3>1. {} \cup {m} = {m}
      OBVIOUS
    <3> QED BY <1>2, <2>1, <2>3, <3>1 DEF KeysLeft
  <2> QED BY <2>4
<1>5. CASE rs # {}
  <2>1. r \in t.pending /\ Answers(r, m)
    BY <1>5
  <2>2. h = CASE r.purpose # "key" -> u
              [] r.purpose = "key" /\ r.held.from = m.from -> Handle(u, p, r.to, r.held)
              [] OTHER -> v
    BY <1>5 DEF HandlePingReply, t
  <2> HIDE DEF h, r
  <2>3. LocalOK(p, u) /\ u.table = t.table /\ u.pending = t.pending \ {r}
    BY <1>1, <2>1, ResolveOK
  <2>4. u.out = t.out /\ Shape(u)
    <3>1. Shape(t)
      BY <1>1 DEF LocalOK
    <3> QED BY <3>1, ResolveFields
  <2>5. ASSUME NEW x, x.table = t.table, x.pending = t.pending \ {r}, x.out = t.out
        PROVE  LeftLocal(p, x, {m})
    <3>1. PICK none : none = {}
      OBVIOUS
    <3>2. LeftLocal(p, t, none) /\ m.type \in {"PING_REPLY", "FIND_NODE_REPLY"}
      BY <1>2, <3>1
    <3>3. LeftLocal(p, x, none \cup {m})
      BY <1>1, <2>1, <2>5, <3>2, ResolveLeft
    <3>4. none \cup {m} = {m}
      BY <3>1
    <3> QED BY <3>3, <3>4
  <2>6. LeftLocal(p, u, {m})
    BY <2>3, <2>4, <2>5
  <2> HIDE DEF u
  <2>7. CASE r.purpose # "key"
    <3>1. h = u
      BY <2>2, <2>7
    <3>2. KeysLeft(p, h, {m})
      BY <1>2, <2>3, <2>7, <3>1 DEF KeysLeft
    <3>3. LeftLocal(p, h, {m})
      BY <2>6, <3>1
    <3> QED BY <3>2, <3>3 DEF h
  <2>8. CASE r.purpose = "key"
    <3>1. r \in pending[p] /\ r.id = m.id
      BY <1>1, <2>1, <2>8 DEF Answers
    <3>2. /\ Known(p, r.to)
          /\ r.to = [id |-> r.held.from, address |-> r.held.fromAddress]
          /\ Here(r.to) => r.held.from = m.from
      BY <2>8, <3>1 DEF KeyPut
    <3>3. /\ RequestOK(p, r, Done(t)) /\ r.held \in OnTheWay
          /\ restarts = 0 => Reached(p, r.to)
      BY <1>1, <2>1, <2>8 DEF LocalOK, PeerOK, PendingOK, NewOK, ReachOK
    <3>4. /\ r.to \in Node /\ r.held.to = p /\ r.held.from \in NodeId
          /\ r.held.type \notin {"PING", "PING_REPLY"} /\ r.held \in Held(pending[p])
      BY <2>8, <3>1, <3>3 DEF RequestOK, Held, Message
    <3>5. CASE r.held.from = m.from
      <4>1. h = Handle(u, p, r.to, r.held)
        BY <2>2, <2>8, <3>5
      <4>2. HandledOK(p, r.held)
        BY <3>3, <3>4 DEF HandledOK
      <4>3. PICK held, over, to : held = r.held /\ over = {m} /\ to = r.to
        OBVIOUS
      <4>4. /\ h = Handle(u, p, to, held) /\ to \in Node /\ Known(p, to)
            /\ restarts = 0 => Reached(p, to)
            /\ to.id = held.from /\ held.type \notin {"PING", "PING_REPLY"}
            /\ HandledOK(p, held) /\ LeftLocal(p, u, over)
            /\ \A x \in over : MessageOK(x, count)
        BY <1>3, <2>6, <3>2, <3>3, <3>4, <4>1, <4>2, <4>3
      <4>5. /\ LeftLocal(p, h, over \cup {held})
            /\ \A q \in u.pending : q \in h.pending \/ q.type = "FIND_NODE"
        BY <2>3, <4>4, HandleLeft
      <4>6. KeysLeft(p, h, over \cup {held})
        <5>1. SUFFICES ASSUME NEW q \in pending[p], q # r, q.purpose = "key"
                       PROVE  q \in h.pending
          BY <4>3 DEF KeysLeft
        <5>2. q \in t.pending /\ q \in u.pending
          BY <1>2, <2>3, <5>1
        <5>3. q.type # "FIND_NODE"
          BY <1>1, <5>1, <5>2 DEF LocalOK, PeerOK, PendingOK, RequestOK
        <5> QED BY <4>5, <5>2, <5>3
      <4>7. m \in over \cup {held}
            /\ \A x \in over \cup {held} : x = m \/ x \in Held(pending[p])
        BY <3>4, <4>3
      <4> QED BY <4>5, <4>6, <4>7 DEF h
    <3>6. CASE r.held.from # m.from
      <4>1. h = v /\ ~Here(r.to)
        BY <2>2, <2>8, <3>2, <3>6
      <4>2. v.table = w /\ v.pending = u.pending /\ v.out = u.out
        <5> HIDE DEF w
        <5> QED BY <2>4 DEF Shape
      <4>3. \A o \in Filed(w) : o \in Filed(u.table)
        <5>1. TableOK(u.table, p)
          BY <2>3 DEF LocalOK, PeerOK
        <5>2. \A i \in BucketIds : ObjectsOf(w[i]) \subseteq ObjectsOf(u.table[i])
          BY <3>4, <5>1, TableWithoutOK
        <5> HIDE DEF w
        <5> QED BY <5>2 DEF Filed
      <4> HIDE DEF v, w
      <4>4. \A o \in Filed(v.table) : Known(p, o)
        BY <2>6, <4>2, <4>3 DEF LeftLocal
      <4>5. LeftLocal(p, h, {m})
        <5>1. LeftLocal(p, v, {m})
          BY <2>6, <4>2, <4>4 DEF LeftLocal, Posed, Returned, LetterLeft
        <5> QED BY <4>1, <5>1
      <4>6. KeysLeft(p, h, {m})
        BY <1>2, <2>3, <4>1, <4>2 DEF KeysLeft
      <4> QED BY <4>5, <4>6 DEF h
    <3> QED BY <3>5, <3>6
  <2> QED BY <2>7, <2>8
<1> QED BY <1>4, <1>5

-----------------------------------------------------------------------------
(* A step of the peer p that makes s of its state and deals with "over".    *)

\* What comes from where its sender is no more.
Stale(m) ==
  m.type \notin {"PING", "PING_REPLY"} /\ m.fromAddress # address[m.from]

Step(p, s, over) ==
  /\ Inv /\ Inv' /\ LeftInv
  /\ address' = address /\ restarts' = restarts
  /\ Commit(p, s)
  /\ LeftLocal(p, s, over)
  /\ \A q \in NodeId : \A m \in OnTheWay :
       OnWayTo(q, m) => OnWayTo(q, m)' \/ (q = p /\ (m \in over \/ Stale(m)))
  /\ \A l \in BagToSet(s.out) : l \in BagToSet(net)'
  /\ OnTheWay' \subseteq OnTheWay \cup BagToSet(s.out)
  /\ \A m \in over : m \in OnTheWay /\ OnWayTo(p, m)

\* What is held is neither a ping nor an answer to one.
LEMMA HeldTypes ==
  ASSUME Inv, NEW p \in NodeId, NEW m \in Held(pending[p])
  PROVE  m.type \notin {"PING", "PING_REPLY"} /\ m.to = p
<1>1. PICK r \in pending[p] : r.purpose = "key" /\ m = r.held
  BY DEF Held
<1>2. RequestOK(p, r, settled)
  BY DEF Inv, PeerOK, PendingOK, Local
<1> QED BY <1>1, <1>2 DEF RequestOK

\* Who gets a message can be answered where the sender is.
LEMMA SenderOpen ==
  ASSUME Inv, LeftInv, NEW p \in NodeId, NEW m, OnWayTo(p, m),
         m.fromAddress = address[m.from]
  PROVE  address[p] \in opened[m.from]
<1>1. CASE m \in BagToSet(net) /\ Arrives(p, m)
  <2>1. Posted(m) /\ m.toAddress = address[p]
    BY <1>1 DEF LeftInv, OnTheWay, Arrives
  <2> QED BY <2>1 DEF Posted
<1>2. CASE m \in Held(pending[p])
  <2>1. PICK r \in pending[p] : r.purpose = "key" /\ m = r.held
    BY <1>2 DEF Held
  <2>2. Known(p, r.to) /\ r.to = [id |-> m.from, address |-> m.fromAddress]
    BY <2>1 DEF LeftInv, ContactsOK
  <2> QED BY <2>2 DEF Known, Here
<1> QED BY <1>1, <1>2 DEF OnWayTo

LEMMA StepFacts ==
  ASSUME NEW p \in NodeId, NEW s, NEW over, Step(p, s, over)
  PROVE  /\ table' = [table EXCEPT ![p] = s.table]
         /\ pending' = [pending EXCEPT ![p] = s.pending]
         /\ table \in [NodeId -> Table] /\ pending \in [NodeId -> SUBSET Request]
         /\ \A q \in NodeId : opened[q] \subseteq opened'[q]
         /\ \A l \in BagToSet(s.out) : l.toAddress \in opened'[p]
         /\ \A q \in NodeId : \A l : OnWayTo(q, l)' => l \in OnTheWay'
         /\ \A q \in NodeId : \A l \in BagToSet(s.out) :
              Arrives(q, l) => l \in OnTheWay' /\ OnWayTo(q, l)'
         /\ \A q \in NodeId : \A o : o.id \in NodeId /\ Known(q, o) => Known(q, o)'
<1>1. /\ table' = [table EXCEPT ![p] = s.table]
      /\ pending' = [pending EXCEPT ![p] = s.pending]
      /\ opened' = [opened EXCEPT ![p] = @ \cup {m.toAddress : m \in BagToSet(s.out)}]
  BY DEF Step, Commit
<1>2. /\ table \in [NodeId -> Table] /\ pending \in [NodeId -> SUBSET Request]
      /\ opened \in [NodeId -> SUBSET Address]
  BY DEF Step, Inv, BoundsOK
<1>3. /\ \A q \in NodeId : opened[q] \subseteq opened'[q]
      /\ \A l \in BagToSet(s.out) : l.toAddress \in opened'[p]
  BY <1>1, <1>2
<1>4. \A q \in NodeId : \A l : OnWayTo(q, l)' => l \in OnTheWay'
  BY DEF OnWayTo, OnTheWay
<1>5. \A q \in NodeId : \A l \in BagToSet(s.out) :
        Arrives(q, l) => OnWayTo(q, l)'
  <2>1. \A q \in NodeId : \A l : Arrives(q, l) => Arrives(q, l)'
    BY <1>3 DEF Step, Arrives
  <2> QED BY <2>1 DEF Step, OnWayTo
<1>6. \A q \in NodeId : \A o : o.id \in NodeId /\ Known(q, o) => Known(q, o)'
  BY <1>3 DEF Step, Known, Here
<1> QED BY <1>1, <1>2, <1>3, <1>4, <1>5, <1>6

\* A request for which an answer is due stays asked, or its answer goes back.
LEMMA DueStays ==
  ASSUME NEW p \in NodeId, NEW s, NEW over, Step(p, s, over),
         NEW q \in NodeId, NEW r \in pending[q], Due(q, r),
         q = p => \A m \in over : ~Answers(r, m)
  PROVE  (AskedThere(q, r) \/ AnsweredBack(q, r))'
<1>1. /\ Inv /\ LeftInv /\ RequestOK(q, r, settled) /\ ContactsOK(q)
      /\ \A m \in OnTheWay : AskedOne(r, m)
  BY DEF Step, Inv, PeerOK, PendingOK, Local, LeftInv
<1>2. /\ r.to.id \in NodeId /\ r.to.address = address[r.to.id]
      /\ r.type \in {"PING", "FIND_NODE"}
      /\ r.type = "FIND_NODE" => address[q] = Home[q]
  BY <1>1 DEF Due, Here, RequestOK, Request, Node
<1>3. ASSUME NEW m \in OnTheWay, OnWayTo(r.to.id, m), m.type = r.type, m.id = r.id,
             m.from = q, m.fromAddress = address[q]
      PROVE  (AskedThere(q, r) \/ AnsweredBack(q, r))'
  <2>1. CASE OnWayTo(r.to.id, m)'
    <3>1. m \in OnTheWay' /\ m.fromAddress = address'[q]
      BY <1>2, <1>3, <2>1, StepFacts DEF Step
    <3> QED BY <1>3, <2>1, <3>1 DEF AskedThere
  <2>2. CASE r.to.id = p /\ m \in over
    <3>1. Returned(p, s, m)
      BY <2>2 DEF Step, LeftLocal
    <3>2. address[p] \in opened[q]
      BY <1>1, <1>3, <2>2, SenderOpen
    <3>3. PICK l \in BagToSet(s.out) :
            /\ <<r.type, l.type>> \in {<<"PING", "PING_REPLY">>,
                                      <<"FIND_NODE", "FIND_NODE_REPLY">>}
            /\ l.id = m.id /\ l.to = q
            /\ l.fromAddress = address[p] /\ l.toAddress = address[q]
      BY <1>2, <1>3, <3>1 DEF Returned
    <3>4. Arrives(q, l) /\ Answers(r, l)
      BY <1>3, <3>2, <3>3 DEF Arrives, Answers
    <3>5. l \in OnTheWay' /\ OnWayTo(q, l)'
      BY <3>4, StepFacts
    <3>6. l.fromAddress = r.to.address /\ Answers(r, l)'
      BY <1>2, <2>2, <3>3, <3>4 DEF Answers
    <3> QED BY <3>5, <3>6 DEF AnsweredBack
  <2>3. ~Stale(m)
    BY <1>3 DEF Stale
  <2> QED BY <1>2, <1>3, <2>1, <2>2, <2>3 DEF Step
<1>4. ASSUME NEW m \in OnTheWay, OnWayTo(q, m), Answers(r, m),
             r.type = "FIND_NODE" => m.fromAddress = r.to.address
      PROVE  AnsweredBack(q, r)'
  <2>1. ~Stale(m)
    BY <1>1, <1>2, <1>4 DEF Stale, Answers, AskedOne
  <2>2. OnWayTo(q, m)'
    BY <1>4, <2>1 DEF Step
  <2>3. m \in OnTheWay' /\ Answers(r, m)'
    BY <1>4, <2>2, StepFacts DEF Answers
  <2> QED BY <1>4, <2>2, <2>3 DEF AnsweredBack
<1>5. AskedThere(q, r) \/ AnsweredBack(q, r)
  BY <1>1 DEF ContactsOK
<1> QED BY <1>3, <1>4, <1>5 DEF AskedThere, AnsweredBack

\* So is one that has just been sent.
LEMMA PosedAsked ==
  ASSUME NEW p \in NodeId, NEW s, NEW over, Step(p, s, over),
         NEW r \in s.pending, Posed(p, s, r), Due(p, r), r.to.id \in NodeId
  PROVE  AskedThere(p, r)'
<1>1. Known(p, r.to) /\ Here(r.to)
  BY DEF Due, Posed
<1>2. PICK l \in BagToSet(s.out) :
        /\ l.type = r.type /\ l.id = r.id /\ l.from = p /\ l.to = r.to.id
        /\ l.fromAddress = address[p] /\ l.toAddress = r.to.address
  BY DEF Due, Posed
<1>3. Arrives(r.to.id, l)
  BY <1>1, <1>2 DEF Known, Here, Arrives
<1>4. l \in OnTheWay' /\ OnWayTo(r.to.id, l)' /\ l.fromAddress = address'[p]
  BY <1>2, <1>3, StepFacts DEF Step
<1> QED BY <1>2, <1>4 DEF AskedThere

LEMMA ContactsLeft ==
  ASSUME NEW p \in NodeId, NEW s, NEW over, Step(p, s, over), NEW q \in NodeId
  PROVE  ContactsOK(q)'
<1>1. ContactsOK(q) /\ Inv /\ Inv' /\ LeftLocal(p, s, over) /\ address' = address
  BY DEF Step, LeftInv
<1>2. \A o \in Filed(table'[q]) : Known(q, o)'
  <2>1. \A o \in Filed(table'[q]) : o.id \in NodeId
    <3>1. TableOK(table'[q], q)
      BY <1>1 DEF Inv, PeerOK, Local
    <3> QED BY <3>1, FiledFacts
  <2>2. \A o \in Filed(table'[q]) : Known(q, o)
    <3>1. CASE q = p
      BY <1>1, <3>1, StepFacts DEF LeftLocal
    <3>2. CASE q # p
      BY <1>1, <3>2, StepFacts DEF ContactsOK
    <3> QED BY <3>1, <3>2
  <2> QED BY <2>1, <2>2, StepFacts
<1>3. ASSUME NEW r \in pending'[q]
      PROVE  /\ r.purpose \in {"find", "evict", "key"} => Known(q, r.to)'
             /\ r.purpose = "key" =>
                  r.to = [id |-> r.held.from, address |-> r.held.fromAddress]
             /\ Due(q, r)' => (AskedThere(q, r) \/ AnsweredBack(q, r))'
  <2>1. r.purpose # "boot" => r.to.id \in NodeId
    BY <1>1 DEF Inv, PeerOK, PendingOK, Local, RequestOK, Node
  <2>2. Due(q, r)' => Due(q, r)
    BY <1>1 DEF Due, Here
  <2>3. r \in pending[q] \/ (q = p /\ r \in s.pending /\ Posed(p, s, r))
    BY <1>1, StepFacts DEF LeftLocal
  <2>4. q = p => r \in s.pending
    BY StepFacts
  <2>5. r.purpose \in {"find", "evict", "key"} => Known(q, r.to)'
    <3>1. r.purpose \in {"find", "evict", "key"} => Known(q, r.to)
      BY <1>1, <2>3 DEF ContactsOK, Posed
    <3> QED BY <2>1, <3>1, StepFacts
  <2>6. r.purpose = "key" =>
          r.to = [id |-> r.held.from, address |-> r.held.fromAddress]
    BY <1>1, <2>3 DEF ContactsOK, Posed
  <2>7. Due(q, r)' => (AskedThere(q, r) \/ AnsweredBack(q, r))'
    <3>1. CASE r \in pending[q]
      BY <1>1, <2>2, <2>4, <3>1, DueStays DEF LeftLocal
    <3>2. CASE q = p /\ r \in s.pending /\ Posed(p, s, r)
      <4>1. Due(q, r) => r.purpose # "boot"
        BY DEF Due
      <4> QED BY <2>1, <2>2, <3>2, <4>1, PosedAsked
    <3> QED BY <2>3, <3>1, <3>2
  <2> QED BY <2>5, <2>6, <2>7
<1> QED BY <1>2, <1>3 DEF ContactsOK

\* The numbers of requests for keys are their own.
LEMMA KeysPut ==
  ASSUME NEW p \in NodeId, NEW s, NEW over, Step(p, s, over),
         NEW q \in NodeId, NEW r \in pending'[q], NEW m \in OnTheWay'
  PROVE  KeyPut(r, m)
<1>1. /\ Inv /\ Inv' /\ LeftInv /\ LeftLocal(p, s, over) /\ address' = address
      /\ m \in OnTheWay \/ m \in BagToSet(s.out)
  BY DEF Step
<1>2. SUFFICES ASSUME r.purpose = "key", r.id = m.id
               PROVE  /\ m.type = "PING" => m.toAddress = r.to.address
                      /\ m.type = "PING_REPLY" /\ Here(r.to) => m.from = r.to.id
  BY DEF KeyPut
<1>3. r.id.by = q /\ r.id.via = NoNode /\ r.to.id \in NodeId /\ r.id.n \in Nat
  BY <1>1, <1>2 DEF Inv, PeerOK, PendingOK, Local, RequestOK, Node, Request, MessageId
<1>4. r \in pending[q] \/ (q = p /\ r \in s.pending /\ Posed(p, s, r))
  BY <1>1, StepFacts DEF LeftLocal
<1>5. q = p => r \in s.pending
  BY StepFacts
<1>6. ASSUME NEW x \in OnTheWay, x.id = r.id
      PROVE  r \in pending[q] /\ KeyPut(r, x)
  <2>1. x.id.n <= count[x.id.by] /\ count[q] \in Nat
    BY <1>1, BoundsFacts DEF Inv, MessageOK
  <2>2. r \in pending[q]
    BY <1>2, <1>3, <1>4, <1>6, <2>1 DEF Posed
  <2> QED BY <1>1, <2>2 DEF LeftInv
<1>7. CASE m \in OnTheWay
  BY <1>2, <1>6, <1>7 DEF KeyPut
<1>8. CASE m \in BagToSet(s.out)
  <2>1. LetterLeft(p, s, over, m)
    BY <1>1, <1>8 DEF LeftLocal
  <2>2. CASE m.type = "PING"
    BY <1>2, <1>3, <1>5, <2>1, <2>2 DEF LetterLeft
  <2>3. ASSUME m.type = "PING_REPLY", Here(r.to)
        PROVE  m.from = r.to.id
    <3>1. PICK x \in over : x.type = "PING" /\ x.id = m.id
      BY <1>2, <1>3, <2>1, <2>3 DEF LetterLeft
    <3>2. x \in OnTheWay /\ OnWayTo(p, x)
      BY DEF Step
    <3>3. x.toAddress = address[p]
      BY <1>1, <3>1, <3>2, HeldTypes DEF OnWayTo, Arrives
    <3>4. x.toAddress = r.to.address
      BY <1>2, <1>6, <3>1, <3>2 DEF KeyPut
    <3>5. p = r.to.id
      BY <1>1, <1>3, <2>3, <3>3, <3>4 DEF Here, LeftInv, PlacesOK
    <3> QED BY <2>1, <3>5 DEF LetterLeft
  <2> QED BY <2>2, <2>3
<1> QED BY <1>1, <1>7, <1>8

LEMMA StepLeft ==
  ASSUME NEW p \in NodeId, NEW s, NEW over, Step(p, s, over)
  PROVE  LeftInv'
<1>1. PlacesOK'
  BY DEF Step, LeftInv, PlacesOK
<1>2. \A q \in NodeId : ContactsOK(q)'
  BY ContactsLeft
<1>3. ASSUME NEW m \in OnTheWay'
      PROVE  Posted(m)'
  <2>1. CASE m \in OnTheWay
    <3>1. Posted(m) /\ m.from \in NodeId
      BY <2>1 DEF Step, LeftInv, Inv, MessageOK, Message
    <3> QED BY <3>1, StepFacts DEF Posted, Step
  <2>2. CASE m \in BagToSet(s.out)
    <3>1. m.from = p /\ m.fromAddress = address[p]
      BY <2>2 DEF Step, LeftLocal, LetterLeft
    <3> QED BY <2>2, <3>1, StepFacts DEF Posted, Step
  <2> QED BY <2>1, <2>2 DEF Step
<1>4. \A q \in NodeId : \A r \in pending'[q], m \in OnTheWay' : KeyPut(r, m)'
  <2>1. \A q \in NodeId : \A r \in pending'[q], m \in OnTheWay' : KeyPut(r, m)
    BY KeysPut
  <2> QED BY <2>1 DEF Step, KeyPut, Here
<1> QED BY <1>1, <1>2, <1>3, <1>4 DEF LeftInv

LEMMA StepFrom ==
  ASSUME NEW p \in NodeId, NEW s, NEW over, Inv, Inv', LeftInv,
         address' = address, restarts' = restarts, Commit(p, s),
         LeftLocal(p, s, over), KeysLeft(p, s, over),
         \A l \in BagToSet(s.out) : l \in BagToSet(net)',
         BagToSet(net)' \subseteq BagToSet(net) \cup BagToSet(s.out),
         \A q \in NodeId : \A m \in BagToSet(net) : Arrives(q, m) =>
           \/ m \in BagToSet(net)'
           \/ q = p /\ (m \in over \/ m \in Held(s.pending)),
         \A m \in over : m \in OnTheWay /\ OnWayTo(p, m)
  PROVE  LeftInv'
<1>1. /\ pending' = [pending EXCEPT ![p] = s.pending]
      /\ opened' = [opened EXCEPT ![p] = @ \cup {m.toAddress : m \in BagToSet(s.out)}]
      /\ pending \in [NodeId -> SUBSET Request]
      /\ opened \in [NodeId -> SUBSET Address]
  BY DEF Commit, Inv, BoundsOK
<1>2. \A q \in NodeId : \A m : Arrives(q, m) => Arrives(q, m)'
  <2>1. \A q \in NodeId : opened[q] \subseteq opened'[q]
    BY <1>1
  <2> QED BY <2>1 DEF Arrives
<1>3. \A q \in NodeId : \A m \in Held(pending[q]) :
        m \in Held(pending'[q]) \/ (q = p /\ (m \in over \/ Stale(m)))
  <2>1. SUFFICES ASSUME NEW q \in NodeId, NEW r \in pending[q], r.purpose = "key",
                        r.held \notin Held(pending'[q])
                 PROVE  q = p /\ (r.held \in over \/ Stale(r.held))
    BY DEF Held
  <2>2. r \notin pending'[q]
    BY <2>1 DEF Held
  <2>3. q = p /\ r \notin s.pending
    BY <1>1, <2>2
  <2>4. r.held \in over \/ ~Here(r.to)
    BY <2>1, <2>3 DEF KeysLeft
  <2>5. r.to = [id |-> r.held.from, address |-> r.held.fromAddress]
    BY <2>1 DEF LeftInv, ContactsOK
  <2>6. r.held.type \notin {"PING", "PING_REPLY"}
    BY <2>1, HeldTypes DEF Held
  <2> QED BY <2>3, <2>4, <2>5, <2>6 DEF Here, Stale
<1>4. ASSUME NEW q \in NodeId, NEW m \in OnTheWay, OnWayTo(q, m)
      PROVE  OnWayTo(q, m)' \/ (q = p /\ (m \in over \/ Stale(m)))
  <2>1. CASE m \in Held(pending[q])
    <3>1. m \in Held(pending'[q]) \/ (q = p /\ (m \in over \/ Stale(m)))
      BY <1>3, <2>1
    <3> QED BY <3>1 DEF OnWayTo, Held
  <2>2. CASE m \in BagToSet(net) /\ Arrives(q, m)
    <3>1. Arrives(q, m)'
      BY <1>2, <2>2
    <3>2. CASE m \in BagToSet(net)'
      BY <3>1, <3>2 DEF OnWayTo
    <3>3. CASE q = p /\ m \in Held(s.pending)
      <4>1. m \in Held(pending'[q])
        BY <1>1, <3>3
      <4> QED BY <4>1 DEF OnWayTo, Held
    <3> QED BY <2>2, <3>2, <3>3
  <2> QED BY <1>4, <2>1, <2>2 DEF OnWayTo
<1>5. OnTheWay' \subseteq OnTheWay \cup BagToSet(s.out)
  <2>1. ASSUME NEW q \in NodeId, NEW r \in pending'[q], r.purpose = "key"
        PROVE  r.held \in OnTheWay
    <3>1. CASE r \in pending[q]
      BY <2>1, <3>1 DEF OnTheWay, Held
    <3>2. CASE r \notin pending[q]
      <4>1. r \in s.pending /\ Posed(p, s, r)
        BY <1>1, <3>2 DEF LeftLocal
      <4> QED BY <2>1, <4>1 DEF Posed
    <3> QED BY <3>1, <3>2
  <2>2. \A q \in NodeId : Held(pending'[q]) \subseteq OnTheWay
    BY <2>1 DEF Held
  <2>3. BagToSet(net) \subseteq OnTheWay
    BY DEF OnTheWay
  <2>4. OnTheWay' = BagToSet(net)' \cup UNION {Held(pending'[q]) : q \in NodeId}
    BY DEF OnTheWay, Held
  <2> QED BY <2>2, <2>3, <2>4
<1>6. Step(p, s, over)
  BY <1>4, <1>5 DEF Step
<1> QED BY <1>6, StepLeft

\* The peer only sends.
LEMMA SentLeft ==
  ASSUME NEW p \in NodeId, NEW s, Inv, Inv', LeftInv,
         address' = address, restarts' = restarts, Commit(p, s),
         LeftLocal(p, s, {}), KeysLeft(p, s, {}), net' = net (+) s.out
  PROVE  LeftInv'
<1>1. BagToSet(net (+) s.out) = BagToSet(net) \cup BagToSet(s.out)
  BY DEF BagToSet, (+)
<1>2. BagToSet(net)' = BagToSet(net) \cup BagToSet(s.out)
  BY <1>1 DEF BagToSet
<1>3. PICK over : over = {}
  OBVIOUS
<1>4. LeftLocal(p, s, over) /\ KeysLeft(p, s, over)
  BY <1>3
<1> QED BY <1>2, <1>3, <1>4, StepFrom

\* One question is sent, and the request filed.
LEMMA AskLeft ==
  ASSUME Inv, LeftInv, NEW p \in NodeId, NEW r, NEW subject, NEW number,
         r.type \in {"PING", "FIND_NODE"}, r.id.by = p,
         \A x \in pending[p] : x.id # r.id,
         r.purpose \in {"find", "evict", "key"} => Known(p, r.to),
         r.purpose = "key" =>
           /\ r.id.n > count[p] /\ r.held \in OnTheWay
           /\ r.to = [id |-> r.held.from, address |-> r.held.fromAddress],
         NEW s, Shape(s), s.table = table[p], s.pending = pending[p], s.out = EmptyBag
  PROVE  LET u == Counted(SendAndWait(s, p, {r}, subject), number)
         IN /\ LeftLocal(p, u, {}) /\ KeysLeft(p, u, {})
            /\ u.pending = pending[p] \cup {r}
<1>1. PICK requests, over : requests = {r} /\ over = {}
  OBVIOUS
<1> DEFINE u == Counted(SendAndWait(s, p, requests, subject), number)
<1>2. u.pending = s.pending \cup requests
  BY AwaitFields
<1>3. BagToSet(s.out) = {}
  BY DEF EmptyBag, SetToBag, BagToSet
<1>4. LeftLocal(p, s, over)
  <2>1. \A o \in Filed(s.table) : Known(p, o)
    BY DEF LeftInv, ContactsOK
  <2> QED BY <1>1, <1>3, <2>1 DEF LeftLocal
<1>5. LeftLocal(p, u, over)
  BY <1>1, <1>3, <1>4, AwaitLeft
<1> HIDE DEF u
<1>6. KeysLeft(p, u, over)
  BY <1>2 DEF KeysLeft
<1> QED BY <1>1, <1>2, <1>5, <1>6 DEF u

LEMMA PingLeft ==
  ASSUME Inv, LeftInv, NEW p \in NodeId, NEW to, NEW purpose, NEW held,
         purpose \in {"find", "evict", "key"} => Known(p, to),
         purpose = "key" =>
           /\ held \in OnTheWay
           /\ to = [id |-> held.from, address |-> held.fromAddress]
  PROVE  LET u == Ping(Local(p), p, to, purpose, held)
         IN /\ LeftLocal(p, u, {}) /\ KeysLeft(p, u, {})
            /\ Awaited(to, "PING", FreshId(Local(p), p, 1), purpose, held) \in u.pending
<1> DEFINE s == Local(p)
           r == Awaited(to, "PING", FreshId(s, p, 1), purpose, held)
           u == Counted(SendAndWait(s, p, {r}, NoNode), 1)
<1>1. Ping(Local(p), p, to, purpose, held) = u
  BY DEF Ping
<1>2. LocalOK(p, s) /\ Shape(s)
  BY LocalStarts DEF LocalOK
<1>3. /\ s.table = table[p] /\ s.pending = pending[p] /\ s.count = count[p]
      /\ s.out = EmptyBag /\ count[p] \in Nat
  BY BoundsFacts DEF Local, Inv
<1>4. /\ r.type = "PING" /\ r.purpose = purpose /\ r.to = to /\ r.held = held
      /\ r.id.by = p /\ r.id.n = s.count + 1
  BY DEF Awaited, FreshId
<1> HIDE DEF s, r
<1>5. r.id.n > count[p]
  BY <1>3, <1>4
<1>6. \A x \in pending[p] : x.id # r.id
  <2>1. \A x \in s.pending : x.id.n <= s.count /\ x.id.n \in Nat
    BY <1>2 DEF LocalOK, PeerOK, PendingOK, RequestOK, Request, MessageId
  <2> QED BY <1>3, <1>4, <2>1
<1>7. /\ r.type \in {"PING", "FIND_NODE"} /\ r.id.by = p
      /\ r.purpose \in {"find", "evict", "key"} => Known(p, r.to)
      /\ r.purpose = "key" =>
           /\ r.id.n > count[p] /\ r.held \in OnTheWay
           /\ r.to = [id |-> r.held.from, address |-> r.held.fromAddress]
  BY <1>4, <1>5
<1>8. /\ Shape(s) /\ s.table = table[p] /\ s.pending = pending[p]
      /\ s.out = EmptyBag
  BY <1>2, <1>3
<1>9. LeftLocal(p, u, {}) /\ KeysLeft(p, u, {}) /\ u.pending = pending[p] \cup {r}
  BY ONLY Inv, LeftInv, p \in NodeId, <1>6, <1>7, <1>8, AskLeft
<1> HIDE DEF u
<1> QED BY <1>1, <1>9 DEF r, s

LEMMA BootstrapLeft ==
  ASSUME Inv, Inv', LeftInv, NEW p \in NodeId, Bootstrap(p)
  PROVE  LeftInv'
<1> DEFINE to == [id |-> NoNode, address |-> address[Seed]]
<1>1. PICK s : s = Ping(Local(p), p, to, "boot", NoNode)
  OBVIOUS
<1>2. /\ Commit(p, s) /\ net' = net (+) s.out
      /\ address' = address /\ restarts' = restarts
  BY <1>1 DEF Bootstrap, Commit
<1> HIDE DEF to
<1>3. LeftLocal(p, s, {}) /\ KeysLeft(p, s, {})
  BY <1>1, PingLeft
<1> QED BY <1>2, <1>3, SentLeft

LEMMA FindLeft ==
  ASSUME Inv, Inv', LeftInv, NEW p \in NodeId, NEW q,
         NEW subject \in Subject, Find(p, GetNode(table[p], p, q), subject)
  PROVE  LeftInv'
<1>1. PICK to : to = GetNode(table[p], p, q)
  OBVIOUS
<1>2. PICK r : r = Awaited(to, "FIND_NODE", FreshId(Local(p), p, 1), "find", NoNode)
  OBVIOUS
<1>3. PICK s : s = Counted(SendAndWait(Local(p), p, {r}, subject), 1)
  OBVIOUS
<1>4. /\ Commit(p, s) /\ net' = net (+) s.out
      /\ address' = address /\ restarts' = restarts
  BY <1>1, <1>2, <1>3 DEF Find, Commit
<1>5. /\ LocalOK(p, Local(p)) /\ Shape(Local(p)) /\ Local(p).pending = pending[p]
      /\ Local(p).table = table[p] /\ Local(p).out = EmptyBag
  BY LocalStarts DEF Local, LocalOK
<1>6. Known(p, to)
  <2>1. to \in ToSet(GetClosestNodes(table[p], p, subject, NodesPerBucket))
    BY <1>1 DEF Find
  <2>2. TableOK(table[p], p)
    BY <1>5 DEF LocalOK, PeerOK
  <2>3. to \in Filed(table[p])
    BY <2>1, <2>2, ClosestFiled, RPCAssumption
  <2> QED BY <2>3 DEF LeftInv, ContactsOK
<1>7. /\ r.type = "FIND_NODE" /\ r.purpose = "find" /\ r.to = to /\ r.id.by = p
      /\ r.id.n = Local(p).count + 1
  BY <1>2 DEF Awaited, FreshId
<1>8. \A x \in pending[p] : x.id # r.id
  <2>1. \A x \in Local(p).pending : x.id.n <= Local(p).count /\ x.id.n \in Nat
    BY <1>5 DEF LocalOK, PeerOK, PendingOK, RequestOK, Request, MessageId
  <2>2. Local(p).count \in Nat
    BY <1>5 DEF LocalOK, PeerOK, CountOK
  <2> QED BY <1>5, <1>7, <2>1, <2>2
<1>9. LeftLocal(p, s, {}) /\ KeysLeft(p, s, {})
  <2>1. PICK local : local = Local(p)
    OBVIOUS
  <2>2. /\ r.type \in {"PING", "FIND_NODE"} /\ r.id.by = p
        /\ r.purpose \in {"find", "evict", "key"} => Known(p, r.to)
        /\ r.purpose = "key" =>
             /\ r.id.n > count[p] /\ r.held \in OnTheWay
             /\ r.to = [id |-> r.held.from, address |-> r.held.fromAddress]
    BY <1>6, <1>7
  <2>3. /\ Shape(local) /\ local.table = table[p] /\ local.pending = pending[p]
        /\ local.out = EmptyBag
    BY <1>5, <2>1
  <2>4. LET u == Counted(SendAndWait(local, p, {r}, subject), 1)
        IN /\ LeftLocal(p, u, {}) /\ KeysLeft(p, u, {})
           /\ u.pending = pending[p] \cup {r}
    BY ONLY Inv, LeftInv, p \in NodeId, <1>8, <2>2, <2>3, AskLeft
  <2> QED BY <1>3, <2>1, <2>4
<1> QED BY <1>4, <1>9, SentLeft

LEMMA PingNamedLeft ==
  ASSUME Inv, Inv', LeftInv, NEW p \in NodeId, NEW e, PingNamed(p, e)
  PROVE  LeftInv'
<1>1. PICK s : s = [Local(p) EXCEPT !.toPing = @ \ {e}]
  OBVIOUS
<1>2. PICK r : r = Awaited(e.node, "PING", ForwardedId(e.node.id, e.id), "punch", NoNode)
  OBVIOUS
<1>3. PICK t : t = IF GetNode(s.table, p, e.node.id) # NoNode THEN s
                   ELSE SendAndWait(s, p, {r}, NoNode)
  OBVIOUS
<1>4. /\ Commit(p, t) /\ net' = net (+) t.out
      /\ address' = address /\ restarts' = restarts /\ e \in toPing[p]
  BY <1>1, <1>2, <1>3 DEF PingNamed, Commit
<1>5. /\ Shape(s) /\ s.table = table[p] /\ s.pending = pending[p]
      /\ s.count = count[p] /\ s.out = EmptyBag
  BY <1>1 DEF Local, Shape
<1>6. LeftLocal(p, s, {}) /\ KeysLeft(p, s, {})
  <2>1. BagToSet(s.out) = {}
    BY <1>5 DEF EmptyBag, SetToBag, BagToSet
  <2>2. \A o \in Filed(s.table) : Known(p, o)
    BY <1>5 DEF LeftInv, ContactsOK
  <2> QED BY <1>5, <2>1, <2>2 DEF LeftLocal, KeysLeft
<1>7. /\ r.type = "PING" /\ r.purpose = "punch" /\ r.id.by = p
      /\ \A x \in pending[p] : x.id # r.id
  <2>1. r.type = "PING" /\ r.purpose = "punch" /\ r.id = ForwardedId(e.node.id, e.id)
    BY <1>2 DEF Awaited
  <2>2. ToPingOK(p, Local(p), settled) /\ Local(p).toPing = toPing[p]
        /\ Local(p).pending = pending[p]
    BY DEF Inv, PeerOK, Local
  <2>3. /\ e.id \in MessageId /\ e.id.by = p
        /\ \A x \in pending[p] : x.id # ForwardedId(e.node.id, e.id)
    BY <1>4, <2>2 DEF ToPingOK
  <2>4. ForwardedId(e.node.id, e.id).by = p
    BY <2>3 DEF ForwardedId, MessageId
  <2> QED BY <2>1, <2>3, <2>4
<1>8. LeftLocal(p, t, {}) /\ KeysLeft(p, t, {})
  <2>1. CASE t = s
    BY <1>6, <2>1
  <2>2. CASE t = SendAndWait(s, p, {r}, NoNode)
    <3> DEFINE u == SendAndWait(s, p, {r}, NoNode)
               v == Counted(u, 0)
    <3>1. LeftLocal(p, v, {}) /\ KeysLeft(p, v, {}) /\ v.pending = pending[p] \cup {r}
      <4>1. /\ r.type \in {"PING", "FIND_NODE"} /\ r.id.by = p
            /\ \A x \in pending[p] : x.id # r.id
            /\ r.purpose \in {"find", "evict", "key"} => Known(p, r.to)
            /\ r.purpose = "key" =>
                 /\ r.id.n > count[p] /\ r.held \in OnTheWay
                 /\ r.to = [id |-> r.held.from, address |-> r.held.fromAddress]
        BY <1>7
      <4>2. /\ Shape(s) /\ s.table = table[p] /\ s.pending = pending[p]
            /\ s.out = EmptyBag
        BY <1>5
      <4> QED BY ONLY Inv, LeftInv, p \in NodeId, <4>1, <4>2, AskLeft
    <3>2. v = u
      <4>1. Shape(u) /\ u.count = s.count
        <5>1. PICK letters : letters = {Letter(p, x.to, x.type, x.id, NoNode, {}) : x \in {r}}
          OBVIOUS
        <5>2. u = [Send(s, letters) EXCEPT !.pending = @ \cup {r}]
          BY <5>1 DEF SendAndWait
        <5>3. Shape(Send(s, letters)) /\ Send(s, letters).count = s.count
          BY <1>5, SendFields
        <5> QED BY <5>2, <5>3 DEF Shape
      <4>2. count[p] \in Nat
        BY BoundsFacts DEF Inv
      <4> HIDE DEF u
      <4>3. u.count + 0 = u.count
        BY <1>5, <4>1, <4>2
      <4> QED BY <4>1, <4>3 DEF Counted, Shape
    <3> HIDE DEF u, v
    <3>3. t = u
      BY <2>2 DEF u
    <3> QED BY <3>1, <3>2, <3>3
  <2> QED BY <1>3, <2>1, <2>2
<1> QED BY <1>4, <1>8, SentLeft

LEMMA ReceiveLeft ==
  ASSUME Inv, Inv', LeftInv, NEW p \in NodeId, NEW m \in BagToSet(net), Receive(p, m)
  PROVE  LeftInv'
<1> DEFINE s     == Local(p)
           fresh == [id |-> m.from, address |-> m.fromAddress]
           known == GetNode(table[p], p, m.from)
<1>1. PICK after : after =
        CASE m.type = "PING"       -> Handle(s, p, fresh, m)
          [] m.type = "PING_REPLY" -> HandlePingReply(s, p, fresh, m)
          [] m.type \notin {"PING", "PING_REPLY"} /\ known # NoNode
                                   -> Handle(s, p, known, m)
          [] OTHER                 -> Ping(s, p, fresh, "key", m)
  OBVIOUS
<1>2. /\ Arrives(p, m) /\ Commit(p, after)
      /\ net' = (net (-) SetToBag({m})) (+) after.out
      /\ address' = address /\ restarts' = restarts
  BY <1>1 DEF Receive, Commit
<1>3. BoundsOK /\ LocalOK(p, s) /\ s.pending = pending[p] /\ s.table = table[p]
  BY LocalStarts DEF Inv, Local
<1>4. LeftLocal(p, s, {})
  BY LocalLeft
<1>5. /\ m \in OnTheWay /\ MessageOK(m, count) /\ SentOK(m) /\ HandledOK(p, m)
      /\ m.from \in NodeId /\ m.fromAddress \in Address /\ m \in Message /\ Posted(m)
  <2>1. m \in OnTheWay
    BY DEF OnTheWay
  <2>2. MessageOK(m, count) /\ SentOK(m) /\ \A r \in pending[p] : AskedOne(r, m)
    BY <2>1 DEF Inv
  <2> QED BY <1>2, <2>1, <2>2 DEF MessageOK, Message, HandledOK, Arrives, LeftInv
<1>6. /\ fresh \in Node /\ Known(p, fresh) /\ fresh.id = m.from
      /\ fresh.address = m.fromAddress /\ (restarts = 0 => Reached(p, fresh))
  <2>1. fresh \in Node
    BY <1>5 DEF Node
  <2>2. m.toAddress = address[p]
    BY <1>2 DEF Arrives
  <2>3. Known(p, fresh)
    BY <1>5, <2>2 DEF Posted, Known, Here
  <2>4. restarts = 0 => Reached(p, fresh)
    BY <1>5, <2>2 DEF SentOK, Reached
  <2> QED BY <2>1, <2>3, <2>4
<1>7. known # NoNode => /\ known \in Node /\ Known(p, known) /\ known.id = m.from
                        /\ restarts = 0 => Reached(p, known)
  <2>1. SUFFICES ASSUME known # NoNode
                 PROVE  /\ known \in Node /\ Known(p, known) /\ known.id = m.from
                        /\ restarts = 0 => Reached(p, known)
    OBVIOUS
  <2>2. TableOK(table[p], p) /\ ReachOK(p, s)
    BY <1>3 DEF LocalOK, PeerOK
  <2>3. known \in Node /\ known \in Filed(table[p]) /\ known.id = m.from
    BY <1>5, <2>1, <2>2, GetNodeFacts DEF Filed
  <2> QED BY <1>3, <2>2, <2>3 DEF ReachOK, LeftInv, ContactsOK
<1> HIDE DEF s, fresh, known
<1>8. ASSUME NEW node \in Node, Known(p, node), restarts = 0 => Reached(p, node),
             node.id = m.from, m.type = "PING" => node.address = m.fromAddress,
             m.type # "PING_REPLY", after = Handle(s, p, node, m)
      PROVE  LeftLocal(p, after, {m}) /\ KeysLeft(p, after, {m})
  <2>1. PICK none : none = {}
    OBVIOUS
  <2>2. LeftLocal(p, s, none) /\ \A x \in none : MessageOK(x, count)
    BY <1>4, <2>1
  <2>3. /\ LeftLocal(p, after, none \cup {m})
        /\ \A r \in s.pending : r \in after.pending \/ r.type = "FIND_NODE"
    BY <1>3, <1>5, <1>8, <2>2, HandleLeft
  <2>4. none \cup {m} = {m}
    BY <2>1
  <2>5. \A r \in s.pending : r.type = "FIND_NODE" => r.purpose # "key"
    BY <1>3 DEF LocalOK, PeerOK, PendingOK, RequestOK
  <2> QED BY <1>3, <2>3, <2>4, <2>5 DEF KeysLeft
<1>9. \E over :
        /\ LeftLocal(p, after, over) /\ KeysLeft(p, after, over)
        /\ m \in over \/ m \in Held(after.pending)
        /\ \A x \in over : x = m \/ x \in Held(pending[p])
  <2>1. CASE m.type = "PING"
    <3>1. after = Handle(s, p, fresh, m) /\ m.type # "PING_REPLY"
      BY <1>1, <2>1
    <3>2. LeftLocal(p, after, {m}) /\ KeysLeft(p, after, {m})
      BY <1>6, <1>8, <3>1
    <3> QED BY <3>2
  <2>2. CASE m.type = "PING_REPLY"
    <3>1. after = HandlePingReply(s, p, fresh, m)
      BY <1>1, <2>2
    <3>2. /\ \A x \in OnTheWay : MessageOK(x, count)
          /\ \A r \in pending[p], x \in OnTheWay : AskedOne(r, x)
      BY DEF Inv
    <3>3. /\ \A r \in pending[p] : KeyPut(r, m)
          /\ \A r \in pending[p] : r.purpose = "key" =>
               /\ Known(p, r.to)
               /\ r.to = [id |-> r.held.from, address |-> r.held.fromAddress]
      BY <1>5 DEF LeftInv, ContactsOK
    <3>4. \E over :
            /\ m \in over
            /\ \A x \in over : x = m \/ x \in Held(pending[p])
            /\ LeftLocal(p, after, over) /\ KeysLeft(p, after, over)
      BY <1>3, <1>4, <1>5, <1>6, <2>2, <3>1, <3>2, <3>3, HandlePingReplyLeft
    <3> QED BY <3>4
  <2>3. CASE m.type \notin {"PING", "PING_REPLY"} /\ known # NoNode
    <3>1. after = Handle(s, p, known, m) /\ m.type # "PING_REPLY" /\ m.type # "PING"
      BY <1>1, <2>3
    <3>2. LeftLocal(p, after, {m}) /\ KeysLeft(p, after, {m})
      BY <1>7, <1>8, <2>3, <3>1
    <3> QED BY <3>2
  <2>4. CASE m.type \notin {"PING", "PING_REPLY"} /\ known = NoNode
    <3> DEFINE r == Awaited(fresh, "PING", FreshId(Local(p), p, 1), "key", m)
    <3>1. after = Ping(Local(p), p, fresh, "key", m)
      BY <1>1, <2>4 DEF s
    <3>2. fresh = [id |-> m.from, address |-> m.fromAddress]
      BY DEF fresh
    <3>3. LeftLocal(p, after, {}) /\ KeysLeft(p, after, {}) /\ r \in after.pending
      BY <1>5, <1>6, <3>1, <3>2, PingLeft
    <3>4. r.purpose = "key" /\ r.held = m
      BY DEF Awaited
    <3> HIDE DEF r
    <3>5. m \in Held(after.pending)
      BY <3>3, <3>4 DEF Held
    <3> QED BY <3>3, <3>5
  <2> QED BY <2>1, <2>2, <2>3, <2>4
<1>10. PICK over :
         /\ LeftLocal(p, after, over) /\ KeysLeft(p, after, over)
         /\ m \in over \/ m \in Held(after.pending)
         /\ \A x \in over : x = m \/ x \in Held(pending[p])
  BY <1>9
<1>11. \A x \in over : x \in OnTheWay /\ OnWayTo(p, x)
  BY <1>2, <1>5, <1>10 DEF OnWayTo, OnTheWay
<1>12. PICK left : left = net (-) SetToBag({m})
  OBVIOUS
<1>13. /\ BagToSet(left) \subseteq BagToSet(net)
       /\ \A x \in BagToSet(net) : x = m \/ x \in BagToSet(left)
  BY <1>3, <1>12, BagTake DEF BoundsOK
<1>14. BagToSet(net)' = BagToSet(left) \cup BagToSet(after.out)
  <2>1. net' = left (+) after.out
    BY <1>2, <1>12
  <2>2. BagToSet(left (+) after.out) = BagToSet(left) \cup BagToSet(after.out)
    BY DEF BagToSet, (+)
  <2> QED BY <2>1, <2>2 DEF BagToSet
<1>15. \A q \in NodeId : Arrives(q, m) => q = p
  BY <1>2 DEF Arrives, LeftInv, PlacesOK
<1>16. \A q \in NodeId : \A x \in BagToSet(net) : Arrives(q, x) =>
         \/ x \in BagToSet(net)'
         \/ q = p /\ (x \in over \/ x \in Held(after.pending))
  BY <1>10, <1>13, <1>14, <1>15
<1> QED BY <1>2, <1>10, <1>11, <1>13, <1>14, <1>16, StepFrom

\* When nothing is on its way, no contact that is where it was asked owes an
\* answer: what is held was sent from where its sender has left, or its key
\* would be on the way.
LEMMA NothingDue ==
  ASSUME Inv, LeftInv, net = EmptyBag, NEW p \in NodeId, NEW r \in pending[p]
  PROVE  ~Due(p, r)
<1>1. BagToSet(net) = {}
  BY DEF EmptyBag, SetToBag, BagToSet
<1>2. \A q \in NodeId : \A x \in pending[q] :
        /\ x.type \in {"PING", "FIND_NODE"}
        /\ x.type = "FIND_NODE" <=> x.purpose = "find"
        /\ x.purpose # "boot" => x.to.id \in NodeId
  BY DEF Inv, PeerOK, PendingOK, Local, RequestOK, Request, Node
<1>3. \A q \in NodeId : \A m : OnWayTo(q, m) =>
        /\ m \in Held(pending[q]) /\ m.type \notin {"PING", "PING_REPLY"}
  BY <1>1, HeldTypes DEF OnWayTo
<1>4. ASSUME NEW q \in NodeId, NEW x \in pending[q], x.purpose \in {"key", "evict"}
      PROVE  ~Due(q, x)
  <2>1. x.type = "PING" /\ x.to.id \in NodeId
    BY <1>2, <1>4
  <2>2. ~AskedThere(q, x) /\ ~AnsweredBack(q, x)
    BY <1>3, <2>1 DEF AskedThere, AnsweredBack, Answers
  <2> QED BY <2>2 DEF LeftInv, ContactsOK
<1>5. \A q \in NodeId : \A m \in Held(pending[q]) : m.fromAddress # address[m.from]
  <2>1. SUFFICES ASSUME NEW q \in NodeId, NEW x \in pending[q], x.purpose = "key"
                 PROVE  x.held.fromAddress # address[x.held.from]
    BY DEF Held
  <2>2. ~Due(q, x) /\ x.to = [id |-> x.held.from, address |-> x.held.fromAddress]
    BY <1>4, <2>1 DEF LeftInv, ContactsOK
  <2> QED BY <2>1, <2>2 DEF Due, Here
<1>6. ASSUME r.purpose = "find", Due(p, r)
      PROVE  FALSE
  <2>1. r.type = "FIND_NODE" /\ r.to.id \in NodeId /\ r.to.address = address[r.to.id]
    BY <1>2, <1>6 DEF Due, Here
  <2>2. ~AskedThere(p, r)
    BY <1>3, <1>5, <2>1 DEF AskedThere
  <2>3. \A m \in OnTheWay : AskedOne(r, m)
    BY DEF Inv
  <2>4. ~AnsweredBack(p, r)
    BY <1>3, <1>5, <2>1, <2>3 DEF AnsweredBack, Answers, AskedOne
  <2> QED BY <1>6, <2>2, <2>4 DEF LeftInv, ContactsOK
<1> QED BY <1>4, <1>6 DEF Due

LEMMA TimeoutLeft ==
  ASSUME Inv, Inv', LeftInv, Timely, NEW p \in NodeId, NEW r, Timeout(p, r)
  PROVE  LeftInv'
<1>1. PICK s : s = Reject(Local(p), p, r)
  OBVIOUS
<1>2. /\ Commit(p, s) /\ r \in pending[p] /\ net = EmptyBag /\ net' = net
      /\ address' = address /\ restarts' = restarts
  BY <1>1 DEF Timeout, Commit
<1> DEFINE without == TableWithout(table[p], p, r.to.id)
<1>3. /\ s.pending = pending[p] \ {r} /\ s.out = EmptyBag
      /\ s.table = IF r.purpose \in {"evict", "find"} THEN without ELSE table[p]
  BY <1>1 DEF Reject, Local
<1>4. \A o \in Filed(s.table) : o \in Filed(table[p])
  <2>1. CASE r.purpose \in {"evict", "find"}
    <3>1. TableOK(table[p], p) /\ r.to.id \in NodeId
      BY <1>2, <2>1 DEF Inv, PeerOK, PendingOK, RequestOK, Local, Node
    <3>2. \A i \in BucketIds : ObjectsOf(without[i]) \subseteq ObjectsOf(table[p][i])
      BY <3>1, TableWithoutOK
    <3> HIDE DEF without
    <3> QED BY <1>3, <2>1, <3>2 DEF Filed
  <2>2. CASE r.purpose \notin {"evict", "find"}
    BY <1>3, <2>2
  <2> QED BY <2>1, <2>2
<1> HIDE DEF without
<1>5. BagToSet(s.out) = {} /\ BagToSet(net) = {} /\ BagToSet(net)' = {}
  BY <1>2, <1>3 DEF EmptyBag, SetToBag, BagToSet
<1>6. PICK over : over = {}
  OBVIOUS
<1>7. LeftLocal(p, s, over)
  BY <1>3, <1>4, <1>5, <1>6 DEF LeftLocal, LeftInv, ContactsOK
<1>8. KeysLeft(p, s, over)
  <2>1. ~Due(p, r)
    BY <1>2, NothingDue
  <2> QED BY <1>3, <2>1 DEF KeysLeft, Due
<1> QED BY <1>2, <1>5, <1>6, <1>7, <1>8, StepFrom

\* Messages that reach nobody are no loss.
LEMMA UndeliverableLeft ==
  ASSUME Inv, Inv', LeftInv,
         UNCHANGED <<address, table, pending, toPing, count, opened, settled, restarts>>,
         BagToSet(net)' \subseteq BagToSet(net),
         \A q \in NodeId : \A m \in BagToSet(net) :
           Arrives(q, m) => m \in BagToSet(net)'
  PROVE  LeftInv'
<1>1. PICK s : s = Local(Seed)
  OBVIOUS
<1>2. Seed \in NodeId
  BY RPCAssumption
<1>3. /\ s.table = table[Seed] /\ s.pending = pending[Seed]
      /\ s.toPing = toPing[Seed] /\ s.count = count[Seed] /\ s.settled = {}
      /\ s.out = EmptyBag
  BY <1>1 DEF Local
<1>4. BagToSet(s.out) = {}
  BY <1>3 DEF EmptyBag, SetToBag, BagToSet
<1>5. Commit(Seed, s)
  <2>1. BoundsOK
    BY DEF Inv
  <2>2. s.count <= MaxRequests
    BY <1>2, <1>3, <2>1, RPCAssumption DEF BoundsOK
  <2>3. {m.toAddress : m \in BagToSet(s.out)} = {}
    BY <1>4
  <2> QED BY <1>2, <1>3, <2>1, <2>2, <2>3 DEF BoundsOK, Commit
<1>6. PICK over : over = {}
  OBVIOUS
<1>7. LeftLocal(Seed, s, over) /\ KeysLeft(Seed, s, over)
  BY <1>1, <1>2, <1>6, LocalLeft
<1> QED BY <1>2, <1>4, <1>5, <1>6, <1>7, StepFrom

\* The first peer that moves goes to where nobody has been: what its contacts
\* know of it is its former address, and nothing it owed is due any more.
LEMMA RestartLeft ==
  ASSUME MaxRestarts <= 1, Inv, Inv', LeftInv,
         NEW p \in NodeId, NEW a \in Address, Restart(p, a)
  PROVE  LeftInv'
<1>1. /\ address' = [address EXCEPT ![p] = a]
      /\ table' = [table EXCEPT ![p] = EmptyTable]
      /\ pending' = [pending EXCEPT ![p] = {}]
      /\ opened' = [opened EXCEPT ![p] = {}]
      /\ net' = net /\ \A q \in NodeId : address[q] # a
  BY DEF Restart
<1>2. BoundsOK /\ restarts = 0 /\ restarts' = 1 /\ address = Home
  <2>1. BoundsOK /\ restarts < MaxRestarts /\ restarts' = restarts + 1
    BY DEF Inv, Restart
  <2>2. restarts = 0
    BY <2>1, RPCAssumption DEF BoundsOK
  <2> QED BY <2>1, <2>2 DEF LeftInv, PlacesOK
<1>3. \A q \in NodeId \ {p} :
        /\ address'[q] = address[q] /\ table'[q] = table[q]
        /\ pending'[q] = pending[q] /\ opened'[q] = opened[q]
  BY <1>1, <1>2 DEF BoundsOK
<1>4. /\ address'[p] = a /\ table'[p] = EmptyTable /\ pending'[p] = {}
      /\ opened'[p] = {}
  BY <1>1, <1>2 DEF BoundsOK
<1>5. PlacesOK'
  BY <1>1, <1>2, <1>3, <1>4 DEF PlacesOK, LeftInv
<1>6. ASSUME NEW o, o.id \in NodeId, o.address = Home[o.id]
      PROVE  Here(o)' => o.id # p /\ Here(o)
  BY <1>1, <1>2, <1>3, <1>4, <1>6 DEF Here
<1>7. ASSUME NEW q \in NodeId \ {p}, NEW o, o.id \in NodeId, Known(q, o)
      PROVE  Known(q, o)'
  <2>1. o.address = Home[o.id]
    BY <1>2, <1>7 DEF Known
  <2> QED BY <1>3, <1>6, <1>7, <2>1 DEF Known
<1>8. ASSUME NEW q \in NodeId \ {p}, NEW m \in OnTheWay, OnWayTo(q, m)
      PROVE  OnWayTo(q, m)' /\ m \in OnTheWay'
  <2>1. OnWayTo(q, m)'
    BY <1>1, <1>3, <1>8 DEF OnWayTo, Arrives, Held
  <2> QED BY <2>1 DEF OnWayTo, OnTheWay
<1>9. \A q \in NodeId : pending'[q] \subseteq pending[q]
  BY <1>3, <1>4
<1>10. OnTheWay' \subseteq OnTheWay
  <2>1. BagToSet(net)' = BagToSet(net)
    BY <1>1
  <2>2. \A q \in NodeId : Held(pending[q])' \subseteq Held(pending[q])
    BY <1>9 DEF Held
  <2> QED BY <2>1, <2>2 DEF OnTheWay
<1>11. \A q \in NodeId : \A r \in pending[q] :
         r.purpose \in {"find", "evict", "key"} =>
           /\ r.to.id \in NodeId /\ Known(q, r.to) /\ r.to.address = Home[r.to.id]
  <2>1. \A q \in NodeId : \A r \in pending[q] :
          r.purpose \in {"find", "evict", "key"} => r.to.id \in NodeId
    BY DEF Inv, PeerOK, PendingOK, RequestOK, Local, Node
  <2> QED BY <1>2, <2>1 DEF LeftInv, ContactsOK, Known
<1>12. ASSUME NEW q \in NodeId
       PROVE  ContactsOK(q)'
  <2>1. CASE q = p
    <3>1. \A i \in BucketIds : EmptyTable[i] = EmptyBucket
      BY DEF EmptyTable
    <3>2. ObjectsOf(EmptyBucket) = {}
      BY DEF ObjectsOf, EmptyBucket
    <3>3. Filed(EmptyTable) = {}
      BY <3>1, <3>2 DEF Filed
    <3> QED BY <1>4, <2>1, <3>3 DEF ContactsOK
  <2>2. CASE q # p
    <3>1. \A o \in Filed(table[q]) : o.id \in NodeId /\ Known(q, o)
      <4>1. TableOK(table[q], q)
        BY DEF Inv, PeerOK, Local
      <4> QED BY <4>1, FiledFacts DEF LeftInv, ContactsOK
    <3>2. \A o \in Filed(table'[q]) : Known(q, o)'
      BY <1>3, <1>7, <2>2, <3>1
    <3>3. ASSUME NEW r \in pending[q], Due(q, r)'
          PROVE  (AskedThere(q, r) \/ AnsweredBack(q, r))'
      <4>1. r.purpose \in {"find", "evict", "key"} /\ Here(r.to)'
        BY <3>3 DEF Due
      <4>2. r.to.id \in NodeId \ {p} /\ Here(r.to)
        BY <1>6, <1>11, <4>1
      <4>3. AskedThere(q, r) \/ AnsweredBack(q, r)
        BY <1>2, <4>1, <4>2 DEF LeftInv, ContactsOK, Due
      <4>4. CASE AskedThere(q, r)
        BY <1>3, <1>8, <2>2, <4>2, <4>4 DEF AskedThere
      <4>5. CASE AnsweredBack(q, r)
        BY <1>8, <2>2, <4>5 DEF AnsweredBack, Answers
      <4> QED BY <4>3, <4>4, <4>5
    <3>4. \A r \in pending'[q] :
            /\ r.purpose \in {"find", "evict", "key"} => Known(q, r.to)'
            /\ r.purpose = "key" =>
                 r.to = [id |-> r.held.from, address |-> r.held.fromAddress]
      BY <1>3, <1>7, <1>11, <2>2 DEF LeftInv, ContactsOK
    <3> QED BY <1>3, <2>2, <3>2, <3>3, <3>4 DEF ContactsOK
  <2> QED BY <2>1, <2>2
<1>13. ASSUME NEW m \in OnTheWay'
       PROVE  Posted(m)'
  <2>1. Posted(m) /\ m.from \in NodeId
    BY <1>10 DEF LeftInv, Inv, MessageOK, Message
  <2>2. m.fromAddress = Home[m.from]
    BY <1>2, <2>1 DEF Posted
  <2>3. CASE m.from = p
    BY <1>1, <1>2, <1>4, <2>2, <2>3 DEF Posted
  <2>4. CASE m.from # p
    BY <1>3, <2>1, <2>4 DEF Posted
  <2> QED BY <2>3, <2>4
<1>14. \A q \in NodeId : \A r \in pending'[q], m \in OnTheWay' : KeyPut(r, m)'
  <2>1. SUFFICES ASSUME NEW q \in NodeId, NEW r \in pending[q], NEW m \in OnTheWay,
                        r.purpose = "key"
                 PROVE  KeyPut(r, m)'
    BY <1>9, <1>10 DEF KeyPut
  <2>2. Here(r.to)' => Here(r.to)
    BY <1>6, <1>11, <2>1
  <2>3. KeyPut(r, m)
    BY DEF LeftInv
  <2> QED BY <2>2, <2>3 DEF KeyPut
<1> QED BY <1>5, <1>12, <1>13, <1>14 DEF LeftInv

LEMMA LeftStays ==
  ASSUME Timely, MaxLost = 0, MaxRestarts <= 1, Inv, Inv', LeftInv, [Next]_vars
  PROVE  LeftInv'
<1>1. ASSUME NEW p \in NodeId, Bootstrap(p)
      PROVE  LeftInv'
  BY <1>1, BootstrapLeft
<1>2. ASSUME NEW p \in NodeId, NEW q \in NodeId, NEW subject \in Subject,
             Find(p, GetNode(table[p], p, q), subject)
      PROVE  LeftInv'
  BY <1>2, FindLeft
<1>3. ASSUME NEW p \in NodeId, NEW named \in toPing[p], PingNamed(p, named)
      PROVE  LeftInv'
  <2>1. PICK e : e = named
    OBVIOUS
  <2> QED BY <1>3, PingNamedLeft
<1>4. ASSUME NEW p \in NodeId, NEW m \in BagToSet(net), Receive(p, m)
      PROVE  LeftInv'
  BY <1>4, ReceiveLeft
<1>5. ASSUME NEW p \in NodeId, NEW r \in pending[p], Timeout(p, r)
      PROVE  LeftInv'
  BY <1>5, TimeoutLeft
<1>6. ASSUME NEW p \in NodeId, NEW a \in Address, Restart(p, a)
      PROVE  LeftInv'
  BY <1>6, RestartLeft
<1>7. ASSUME NEW m \in BagToSet(net), Undeliverable(m)
      PROVE  LeftInv'
  <2>1. PICK left : left = net (-) SetToBag({m})
    OBVIOUS
  <2>2. /\ BagToSet(left) \subseteq BagToSet(net)
        /\ \A x \in BagToSet(net) : x = m \/ x \in BagToSet(left)
    BY <2>1, BagTake DEF Inv, BoundsOK
  <2>3. BagToSet(net)' = BagToSet(left)
    BY <1>7, <2>1 DEF Undeliverable, BagToSet
  <2>4. \A q \in NodeId : \A x \in BagToSet(net) :
          Arrives(q, x) => x \in BagToSet(net)'
    BY <1>7, <2>2, <2>3 DEF Undeliverable
  <2>5. UNCHANGED <<address, table, pending, toPing, count, opened, settled, restarts>>
    BY <1>7 DEF Undeliverable
  <2> QED BY <2>2, <2>3, <2>4, <2>5, UndeliverableLeft
<1>8. ASSUME NEW m \in BagToSet(net), Lose(m) \/ Repeat(m)
      PROVE  FALSE
  BY <1>8 DEF Inv, BoundsOK, Lose, Repeat
<1>9. CASE UNCHANGED vars
  <2>1. BagToSet(net)' = BagToSet(net)
    BY <1>9 DEF vars, BagToSet
  <2>2. UNCHANGED <<address, table, pending, toPing, count, opened, settled, restarts>>
    BY <1>9 DEF vars
  <2> QED BY <2>1, <2>2, UndeliverableLeft
<1> QED BY <1>1, <1>2, <1>3, <1>4, <1>5, <1>6, <1>7, <1>8, <1>9 DEF Next

LEMMA LeftStarts ==
  ASSUME Init
  PROVE  LeftInv
<1>1. /\ address = Home /\ restarts = 0
      /\ \A p \in NodeId : pending[p] = {} /\ table[p] = EmptyTable
  BY DEF Init
<1>2. OnTheWay = {}
  BY <1>1 DEF Init, OnTheWay, Held, EmptyBag, SetToBag, BagToSet
<1>3. Filed(EmptyTable) = {}
  <2>1. \A i \in BucketIds : EmptyTable[i] = EmptyBucket
    BY DEF EmptyTable
  <2>2. ObjectsOf(EmptyBucket) = {}
    BY DEF ObjectsOf, EmptyBucket
  <2> QED BY <2>1, <2>2 DEF Filed
<1>4. PlacesOK
  BY <1>1, RPCAssumption DEF PlacesOK
<1> QED BY <1>1, <1>2, <1>3, <1>4 DEF LeftInv, ContactsOK

\* As long as timers outlast the messages, none is lost and one peer at most
\* restarts, a contact that is removed for its silence (receiveMessage,
\* findClosestNodes) is no longer where it was asked, or the peer that asked it
\* has moved.
THEOREM RemovedCorrect ==
  ASSUME Timely, MaxLost = 0, MaxRestarts <= 1
  PROVE  Spec => RemovedHadLeft
<1> DEFINE Silent == \A p \in NodeId : \A r \in pending[p] :
                       Timeout(p, r) /\ table[p] # table'[p] =>
                         address[r.to.id] # r.to.address \/ address[p] # Home[p]
<1>1. Init => Inv /\ LeftInv
  BY InvStarts, LeftStarts
<1>2. Inv /\ LeftInv /\ [Next]_vars => Inv' /\ LeftInv'
  BY InvStays, LeftStays
<1>3. Inv /\ LeftInv => Silent
  <2>1. SUFFICES ASSUME Inv, LeftInv, NEW p \in NodeId, NEW r \in pending[p],
                        Timeout(p, r), table[p] # table'[p]
                 PROVE  address[r.to.id] # r.to.address \/ address[p] # Home[p]
    OBVIOUS
  <2>2. net = EmptyBag /\ ~Due(p, r)
    BY <2>1, NothingDue DEF Timeout
  <2>3. r.purpose \in {"evict", "find"}
    <3>1. PICK s : s = Reject(Local(p), p, r)
      OBVIOUS
    <3>2. table' = [table EXCEPT ![p] = s.table] /\ table \in [NodeId -> Table]
      BY <2>1, <3>1 DEF Timeout, Commit, Inv, BoundsOK
    <3>3. r.purpose \notin {"evict", "find"} => s.table = table[p]
      BY <3>1 DEF Reject, Local
    <3> QED BY <2>1, <3>2, <3>3
  <2> QED BY <2>2, <2>3 DEF Due, Here
<1>4. Silent => [Silent]_vars
  OBVIOUS
<1>5. (Inv /\ LeftInv /\ [Next]_vars) => [Silent]_vars
  BY <1>3
<1>6. RemovedHadLeft <=> [][Silent]_vars
  BY DEF RemovedHadLeft
<1> HIDE DEF Silent
<1> QED BY <1>1, <1>2, <1>5, <1>6, PTL DEF Spec

=============================================================================
