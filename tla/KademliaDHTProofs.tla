-------------------------- MODULE KademliaDHTProofs --------------------------
(***************************************************************************)
(* That upload counts right (SuccessIsStored), and what lookups have learnt *)
(* as long as nothing failed (NotFoundIsTrue, NobodyMissed), for any ids,  *)
(* contacts, calls and failures.                                           *)
(*                                                                         *)
(* Counting (CountInv): until the lookup of a call has ended nobody is     *)
(* counted; while it stores, those waited for and those counted are, each  *)
(* once, the contacts the lookup returned; and a STORE that was kept is    *)
(* one of a peer that has the value.                                       *)
(*                                                                         *)
(* Looking up (LookInv): the calls are typed; as long as nothing failed    *)
(* all peers are there; and of those named by whom a lookup has had an     *)
(* answer from, the table knows everyone, has no room for them, or they    *)
(* are among those the lookup has yet to meet.                             *)
(***************************************************************************)
EXTENDS KademliaDHT, RoutingTableOpsProofs

Fields == {"kind", "phase", "subject", "waiting", "responses", "named",
           "holders", "closest", "success", "fail", "hadIt", "outcome"}

\* A call before its STOREs. Only a download has holders to fetch from.
Uncounting(s) ==
  /\ DOMAIN s = Fields
  /\ s.kind = "upload" => s.holders = <<>> /\ s.phase # "fetching"
  /\ s.success = {} /\ s.fail = {}
  /\ s.outcome # "resolved"

\* A call at any time, when the peers in H have the value.
Counting(s, H) ==
  /\ DOMAIN s = Fields
  /\ s.phase \notin {"storing", "done"} => Uncounting(s)
  /\ \A node \in s.success : node.id \in H
  /\ s.success \cap s.fail = {}
  /\ s.phase = "storing" =>
       /\ s.outcome # "resolved"
       /\ s.waiting \cap (s.success \cup s.fail) = {}
       /\ s.waiting \cup s.success \cup s.fail = ToSet(s.closest)
  /\ s.kind = "upload" /\ s.outcome = "resolved" =>
       s.success \cup s.fail = ToSet(s.closest)

CallInv == DOMAIN call = Call /\ \A c \in Call : Counting(call[c], has)

KeptInv == \A r \in stores : r.kept => r.node.id \in has

CountInv == CallInv /\ KeptInv

-----------------------------------------------------------------------------
(* How a call goes on.                                                     *)

LEMMA NobodyInNothing == ToSet(<<>>) = {}
  BY DEF ToSet

\* A lookup that ends has nobody counted, and waits for all it returned.
LEMMA ResolvedCounting ==
  ASSUME NEW s, NEW nodes, NEW H, Uncounting(s)
  PROVE  Counting(Resolved(s, nodes), H)
<1> DEFINE r == [s EXCEPT !.closest = nodes, !.responses = {}]
<1>1. /\ DOMAIN r = Fields /\ r.success = {} /\ r.fail = {}
      /\ r.closest = nodes /\ r.kind = s.kind /\ r.outcome = s.outcome
  BY DEF Uncounting, Fields
<1>2. ASSUME NEW o, o = "resolved" /\ s.kind = "upload" => nodes = <<>>
      PROVE  Counting(Done(r, o), H)
  <2> DEFINE d == Done(r, o)
  <2>1. /\ DOMAIN d = Fields /\ d.success = {} /\ d.fail = {}
        /\ d.closest = nodes /\ d.kind = s.kind
        /\ d.outcome = o /\ d.phase = "done"
    BY <1>1 DEF Done, Fields
  <2> HIDE DEF d
  <2>2. Counting(d, H) BY <2>1, <1>2, NobodyInNothing DEF Counting
  <2>3. QED BY <2>2 DEF d
<1>3. Counting([r EXCEPT !.phase = "storing", !.waiting = ToSet(nodes)], H)
  <2> DEFINE d == [r EXCEPT !.phase = "storing", !.waiting = ToSet(nodes)]
  <2>1. /\ DOMAIN d = Fields /\ d.success = {} /\ d.fail = {}
        /\ d.closest = nodes /\ d.waiting = ToSet(nodes)
        /\ d.outcome # "resolved" /\ d.phase = "storing"
    BY <1>1 DEF Uncounting, Fields
  <2> HIDE DEF d
  <2>2. Counting(d, H) BY <2>1 DEF Counting
  <2>3. QED BY <2>2 DEF d
<1> HIDE DEF r
<1>4. Resolved(s, nodes) \in
        {Done(r, "not found"), Done(r, "rejected")}
          \cup {x \in {Done(r, "resolved")} : s.kind = "upload" => nodes = <<>>}
          \cup {[r EXCEPT !.phase = "storing", !.waiting = ToSet(nodes)]}
  BY <1>1 DEF Resolved, r
<1>5. QED BY <1>2, <1>3, <1>4

LEMMA RoundCounting ==
  ASSUME NEW s, NEW t, NEW H, Uncounting(s)
  PROVE  Counting(Round(s, t), H)
<1> DEFINE closest == GetClosestNodes(t, Root, s.subject, NodesPerBucket)
           asks(w) == [s EXCEPT !.phase = "asking", !.waiting = w,
                                !.holders = <<>>]
<1>1. ASSUME NEW w PROVE Counting(asks(w), H)
  <2> DEFINE d == asks(w)
  <2>1. /\ DOMAIN d = Fields /\ d.success = {} /\ d.fail = {}
        /\ d.outcome # "resolved" /\ d.phase = "asking" /\ d.holders = <<>>
    BY DEF Uncounting, Fields
  <2> HIDE DEF d
  <2>2. Counting(d, H) BY <2>1 DEF Counting, Uncounting
  <2>3. QED BY <2>2 DEF d
<1>2. Counting(Resolved(s, closest), H)
  BY ResolvedCounting
<1>3. Round(s, t) = IF Pending(s, closest) = {} THEN Resolved(s, closest)
                    ELSE asks({closest[x] : x \in First(Pending(s, closest))})
  BY DEF Round
<1> HIDE DEF asks, closest
<1>4. QED BY <1>1, <1>2, <1>3

LEMMA MetCounting ==
  ASSUME NEW s, NEW t, NEW H, Uncounting(s)
  PROVE  Counting(Met(s, t), H)
<1> DEFINE d == [s EXCEPT !.phase = "fetching", !.responses = {}]
<1>1. /\ DOMAIN d = Fields /\ d.success = {} /\ d.fail = {}
      /\ d.outcome # "resolved" /\ d.phase = "fetching" /\ d.kind = s.kind
      /\ s.holders # <<>> => s.kind # "upload"
  BY DEF Uncounting, Fields
<1>2. Met(s, t) = IF s.holders # <<>> THEN d ELSE Round(s, t)
  BY DEF Met
<1> HIDE DEF d
<1>3. s.holders # <<>> => Counting(d, H)
  BY <1>1 DEF Counting, Uncounting
<1>4. QED BY <1>2, <1>3, RoundCounting

LEMMA AskedCounting ==
  ASSUME NEW s, NEW t, NEW H, Uncounting(s)
  PROVE  Counting(Asked(s, t), H)
<1> DEFINE s1   == [s EXCEPT !.named = {}]
           d(w) == [s1 EXCEPT !.phase = "meeting", !.waiting = w]
           strangers == {node \in s.named : GetNode(t, Root, node.id) = NoNode}
<1>1. Uncounting(s1)
  BY DEF Uncounting, Fields
<1>2. ASSUME NEW w PROVE Counting(d(w), H)
  <2> DEFINE m == d(w)
  <2>1. /\ DOMAIN m = Fields /\ m.success = {} /\ m.fail = {}
        /\ m.outcome # "resolved" /\ m.phase = "meeting"
        /\ m.kind = s.kind /\ m.holders = s.holders
    BY DEF Uncounting, Fields
  <2> HIDE DEF m
  <2>2. Counting(m, H) BY <2>1 DEF Counting, Uncounting
  <2>3. QED BY <2>2 DEF m
<1>3. Asked(s, t) = IF strangers = {} THEN Met(s1, t) ELSE d(strangers)
  BY DEF Asked
<1>4. Counting(Met(s1, t), H)
  <2> HIDE DEF s1
  <2>1. QED BY <1>1, MetCounting
<1> HIDE DEF s1, d, strangers
<1>5. QED BY <1>2, <1>3, <1>4

\* Before its STOREs a call that waits for one thing less goes on as a call
\* that counts right.
LEMMA GoOnCounting ==
  ASSUME NEW s, NEW t, NEW H, Uncounting(s),
         s.phase \in {"pinging", "asking", "meeting"}
  PROVE  Counting(GoOn(s, t), H)
<1>1. Counting(s, H)
  BY DEF Counting, Uncounting
<1>2. GoOn(s, t) \in {s, Round(s, t), Asked(s, t), Met(s, t)}
  BY DEF GoOn
<1>3. QED BY <1>1, <1>2, RoundCounting, AskedCounting, MetCounting

\* The same of a call that stores: node is counted, as one or the other.
LEMMA StoredCounting ==
  ASSUME NEW s, NEW t, NEW H, NEW node, NEW r,
         Counting(s, H), s.phase = "storing", node \in s.waiting,
         DOMAIN r = Fields, r.phase = "storing", r.closest = s.closest,
         r.outcome = s.outcome, r.waiting = s.waiting \ {node},
         \/ r.success = s.success \cup {node} /\ r.fail = s.fail /\ node.id \in H
         \/ r.success = s.success /\ r.fail = s.fail \cup {node}
  PROVE  Counting(GoOn(r, t), H)
<1>1. /\ r.outcome # "resolved"
      /\ \A other \in r.success : other.id \in H
      /\ r.success \cap r.fail = {}
      /\ r.waiting \cap (r.success \cup r.fail) = {}
      /\ r.waiting \cup r.success \cup r.fail = ToSet(r.closest)
  BY DEF Counting
<1>2. Counting(r, H)
  BY <1>1 DEF Counting
<1>3. CASE r.waiting # {}
  BY <1>2, <1>3 DEF GoOn
<1>4. CASE r.waiting = {}
  <2> DEFINE d == Done(r, "resolved")
  <2>1. /\ DOMAIN d = Fields /\ d.phase = "done" /\ d.outcome = "resolved"
        /\ d.success = r.success /\ d.fail = r.fail /\ d.closest = r.closest
    BY DEF Done, Fields
  <2>2. GoOn(r, t) = d
    BY <1>4 DEF GoOn
  <2> HIDE DEF d
  <2>3. Counting(d, H)
    BY <1>1, <1>4, <2>1 DEF Counting
  <2>4. QED BY <2>2, <2>3
<1>5. QED BY <1>3, <1>4

-----------------------------------------------------------------------------
(* Steps.                                                                  *)

\* One call is another one now.
LEMMA CallInvFrame ==
  ASSUME CallInv, NEW c \in Call, NEW STATE s, call' = [call EXCEPT ![c] = s],
         Counting(s, has), has' = has
  PROVE  CallInv'
  BY DEF CallInv

LEMMA KeptInvFrame ==
  ASSUME KeptInv, stores' = stores, has' = has
  PROVE  KeptInv'
  BY DEF KeptInv

\* A call that only gets done, before its STOREs.
LEMMA DoneCounting ==
  ASSUME NEW s, NEW H, NEW o, Uncounting(s), o = "resolved" => s.kind # "upload"
  PROVE  Counting(Done(s, o), H)
<1> DEFINE d == Done(s, o)
<1>1. /\ DOMAIN d = Fields /\ d.success = {} /\ d.fail = {}
      /\ d.kind = s.kind /\ d.phase = "done" /\ d.outcome = o
  BY DEF Uncounting, Done, Fields
<1> HIDE DEF d
<1>2. Counting(d, H)
  BY <1>1 DEF Counting
<1>3. QED BY <1>2 DEF d

LEMMA StartsCounting == Init => CountInv
<1> SUFFICES ASSUME Init PROVE CountInv
  OBVIOUS
<1>1. ASSUME NEW c \in Call PROVE Counting(call[c], has)
  <2> DEFINE s == Idle(Kind(c))
  <2>1. /\ DOMAIN s = Fields /\ s.success = {} /\ s.fail = {}
        /\ s.phase = "idle" /\ s.outcome = "none" /\ s.holders = <<>>
    BY DEF Idle, Fields
  <2>2. call[c] = s
    BY DEF Init
  <2> HIDE DEF s
  <2>3. QED BY <2>1, <2>2 DEF Counting, Uncounting
<1>2. QED BY <1>1 DEF CountInv, CallInv, KeptInv, Init

LEMMA BeginCounting ==
  ASSUME CountInv
  PROVE  /\ Bootstrap => CountInv'
         /\ RefreshBuckets => CountInv'
         /\ \A c \in Call : Begin(c) => CountInv'
<1>1. ASSUME Bootstrap PROVE CountInv'
  <2> DEFINE s == [call[Boot] EXCEPT !.phase   = "pinging",
                                     !.waiting = {Contact(SeedId)}]
  <2>1. Boot \in Call
    BY DEF Call
  <2>2. Uncounting(call[Boot])
    BY <1>1, <2>1 DEF Bootstrap, CountInv, CallInv, Counting
  <2>3. /\ DOMAIN s = Fields /\ s.success = {} /\ s.fail = {}
        /\ s.phase = "pinging" /\ s.outcome # "resolved"
        /\ s.kind = "upload" => s.holders = <<>>
    BY <2>2 DEF Uncounting, Fields
  <2>4. call' = [call EXCEPT ![Boot] = s]
    BY <1>1 DEF Bootstrap
  <2> HIDE DEF s
  <2>5. Counting(s, has)
    BY <2>3 DEF Counting, Uncounting
  <2>6. CallInv'
    BY <1>1, <2>1, <2>4, <2>5, CallInvFrame DEF Bootstrap, CountInv
  <2>7. QED BY <1>1, <2>6, KeptInvFrame DEF Bootstrap, CountInv
<1>2. ASSUME RefreshBuckets PROVE CountInv'
  <2> DEFINE s(id) == [Idle("refresh") EXCEPT !.subject = id]
  <2>1. ASSUME NEW id PROVE Counting(Round(s(id), buckets), has)
    <3>1. Uncounting(s(id))
      BY DEF Uncounting, Idle, Fields
    <3> HIDE DEF s
    <3>2. QED BY <3>1, RoundCounting
  <2>2. \A c \in Call : call'[c] = call[c]
                        \/ \E id : call'[c] = Round(s(id), buckets)
    BY <1>2 DEF RefreshBuckets
  <2>3. DOMAIN call' = Call
    BY <1>2 DEF RefreshBuckets
  <2>4. has' = has /\ stores' = stores
    BY <1>2 DEF RefreshBuckets
  <2> HIDE DEF s
  <2>5. CallInv'
    <3> SUFFICES ASSUME NEW c \in Call PROVE Counting(call'[c], has)
      BY <2>3, <2>4 DEF CallInv
    <3>1. CASE call'[c] = call[c]
      BY <3>1 DEF CountInv, CallInv
    <3>2. CASE \E id : call'[c] = Round(s(id), buckets)
      BY <3>2, <2>1
    <3>3. QED BY <2>2, <3>1, <3>2
  <2>6. QED BY <2>4, <2>5, KeptInvFrame DEF CountInv
<1>3. ASSUME NEW c \in Call, Begin(c) PROVE CountInv'
  <2> DEFINE s == [Idle(Kind(c)) EXCEPT
                     !.subject = Key, !.hadIt = has,
                     !.outcome = IF Kind(c) = "upload" /\ ~local
                                 THEN "rejected" ELSE "none"]
  <2>1. Uncounting(s)
    BY DEF Uncounting, Idle, Fields
  <2>2. call' = [call EXCEPT ![c] = Round(s, buckets)] /\ has' = has
        /\ stores' = stores
    BY <1>3 DEF Begin
  <2> HIDE DEF s
  <2>3. Counting(Round(s, buckets), has)
    BY <2>1, RoundCounting
  <2>4. CallInv'
    BY <2>2, <2>3, CallInvFrame DEF CountInv
  <2>5. QED BY <2>2, <2>4, KeptInvFrame DEF CountInv
<1>4. QED BY <1>1, <1>2, <1>3

LEMMA FindCounting ==
  ASSUME CountInv, NEW c \in Call, NEW node
  PROVE  /\ PingAnswered(c, node) => CountInv'
         /\ PingTimeout(c, node) => CountInv'
         /\ FindAnswered(c, node) => CountInv'
         /\ FindTimeout(c, node) => CountInv'
<1> DEFINE s == [call[c] EXCEPT !.waiting = @ \ {node}]
<1>1. ASSUME call[c].phase \in {"pinging", "asking", "meeting"}
      PROVE  /\ Uncounting(call[c])
             /\ Uncounting(s) /\ s.phase = call[c].phase
  <2>1. Uncounting(call[c])
    BY <1>1 DEF CountInv, CallInv, Counting
  <2>2. QED BY <2>1 DEF Uncounting, Fields
<1>2. ASSUME PingAnswered(c, node) PROVE CountInv'
  <2> DEFINE t == TableWith(buckets, Root, node)
  <2>1. /\ call[c].phase \in {"pinging", "asking", "meeting"}
        /\ call' = [call EXCEPT ![c] =
                      GoOn(s, t)]
        /\ has' = has /\ stores' = stores
    BY <1>2 DEF PingAnswered
  <2>2. Uncounting(s) /\ s.phase = call[c].phase
    BY <1>1, <2>1
  <2> HIDE DEF s, t
  <2>3. Counting(GoOn(s, t), has)
    BY <2>1, <2>2, GoOnCounting
  <2>4. CallInv'
    BY <2>1, <2>3, CallInvFrame DEF CountInv
  <2>5. QED BY <2>1, <2>4, KeptInvFrame DEF CountInv
<1>3. ASSUME PingTimeout(c, node) PROVE CountInv'
  <2>1. /\ call[c].phase \in {"pinging", "asking", "meeting"}
        /\ call' = [call EXCEPT ![c] = IF s.phase = "pinging"
                                       THEN Done(s, "rejected")
                                       ELSE GoOn(s, buckets)]
        /\ has' = has /\ stores' = stores
    BY <1>3 DEF PingTimeout
  <2>2. Uncounting(s) /\ s.phase = call[c].phase
    BY <1>1, <2>1
  <2> HIDE DEF s
  <2>3. CASE s.phase = "pinging"
    <3>1. Counting(Done(s, "rejected"), has)
      BY <2>2, DoneCounting
    <3>2. CallInv'
      BY <2>1, <2>3, <3>1, CallInvFrame DEF CountInv
    <3>3. QED BY <2>1, <3>2, KeptInvFrame DEF CountInv
  <2>4. CASE s.phase # "pinging"
    <3>1. Counting(GoOn(s, buckets), has)
      BY <2>1, <2>2, <2>4, GoOnCounting
    <3>2. CallInv'
      BY <2>1, <2>4, <3>1, CallInvFrame DEF CountInv
    <3>3. QED BY <2>1, <3>2, KeptInvFrame DEF CountInv
  <2>5. QED BY <2>3, <2>4
<1>4. ASSUME FindAnswered(c, node) PROVE CountInv'
  <2> DEFINE a == Answered(call[c], node)
             t == TableWith(buckets, Root, node)
  <2>1. /\ call[c].phase \in {"pinging", "asking", "meeting"}
        /\ call' = [call EXCEPT ![c] =
                      GoOn(a, t)]
        /\ has' = has /\ stores' = stores
    BY <1>4 DEF FindAnswered, CountInv, CallInv
  <2>2. Uncounting(a) /\ a.phase = call[c].phase
    <3>1. Uncounting(call[c])
      BY <1>1, <2>1
    <3>2. QED BY <3>1 DEF Answered, Uncounting, Fields
  <2> HIDE DEF a, t
  <2>3. Counting(GoOn(a, t), has)
    BY <2>1, <2>2, GoOnCounting
  <2>4. CallInv'
    BY <2>1, <2>3, CallInvFrame DEF CountInv
  <2>5. QED BY <2>1, <2>4, KeptInvFrame DEF CountInv
<1>5. ASSUME FindTimeout(c, node) PROVE CountInv'
  <2> DEFINE t == TableWithout(buckets, Root, node.id)
  <2>1. /\ call[c].phase \in {"pinging", "asking", "meeting"}
        /\ call' = [call EXCEPT ![c] =
                      GoOn(s, t)]
        /\ has' = has /\ stores' = stores
    BY <1>5 DEF FindTimeout, CountInv, CallInv
  <2>2. Uncounting(s) /\ s.phase = call[c].phase
    BY <1>1, <2>1
  <2> HIDE DEF s, t
  <2>3. Counting(GoOn(s, t), has)
    BY <2>1, <2>2, GoOnCounting
  <2>4. CallInv'
    BY <2>1, <2>3, CallInvFrame DEF CountInv
  <2>5. QED BY <2>1, <2>4, KeptInvFrame DEF CountInv
<1>6. QED BY <1>2, <1>3, <1>4, <1>5

LEMMA StoreCounting ==
  ASSUME CountInv, NEW c \in Call, NEW node
  PROVE  /\ \A kept \in BOOLEAN : StoreAnswered(c, node, kept) => CountInv'
         /\ StoreTimeout(c, node) => CountInv'
<1>1. Counting(call[c], has)
  BY DEF CountInv, CallInv
<1>2. ASSUME NEW kept \in BOOLEAN, StoreAnswered(c, node, kept)
      PROVE  CountInv'
  <2> DEFINE s == call[c]
             r == [s EXCEPT
                     !.waiting = @ \ {node},
                     !.success = IF kept THEN @ \cup {node} ELSE @,
                     !.fail    = IF kept THEN @ ELSE @ \cup {node}]
             t == TableWith(buckets, Root, node)
  <2>1. /\ s.phase = "storing" /\ node \in s.waiting
        /\ [call |-> c, node |-> node, kept |-> kept] \in stores
        /\ call' = [call EXCEPT ![c] = GoOn(r, t)]
        /\ has' = has /\ stores' = stores
    BY <1>2 DEF StoreAnswered
  <2>2. kept => node.id \in has
    BY <2>1 DEF CountInv, KeptInv
  <2>3. /\ DOMAIN r = Fields /\ r.phase = "storing" /\ r.closest = s.closest
        /\ r.outcome = s.outcome /\ r.waiting = s.waiting \ {node}
        /\ r.success = IF kept THEN s.success \cup {node} ELSE s.success
        /\ r.fail = IF kept THEN s.fail ELSE s.fail \cup {node}
    BY <1>1, <2>1 DEF Counting, Fields
  <2> HIDE DEF r, t, s
  <2>4. Counting(s, has)
    BY <1>1 DEF s
  <2>5. Counting(GoOn(r, t), has)
    BY <2>1, <2>2, <2>3, <2>4, StoredCounting
  <2>6. CallInv'
    BY <2>1, <2>5, CallInvFrame DEF CountInv
  <2>7. QED BY <2>1, <2>6, KeptInvFrame DEF CountInv
<1>3. ASSUME StoreTimeout(c, node) PROVE CountInv'
  <2> DEFINE s == call[c]
             r == Counted(s, node)
             t == TableWithout(buckets, Root, node.id)
  <2>1. /\ s.phase = "storing" /\ node \in s.waiting
        /\ call' = [call EXCEPT ![c] = GoOn(r, t)]
        /\ has' = has /\ stores' = stores
    BY <1>3 DEF StoreTimeout, CountInv, CallInv
  <2>2. /\ DOMAIN r = Fields /\ r.phase = "storing" /\ r.closest = s.closest
        /\ r.outcome = s.outcome /\ r.waiting = s.waiting \ {node}
        /\ r.success = s.success /\ r.fail = s.fail \cup {node}
    BY <1>1, <2>1 DEF Counted, Counting, Fields
  <2> HIDE DEF r, t, s
  <2>3. Counting(s, has)
    BY <1>1 DEF s
  <2>4. Counting(GoOn(r, t), has)
    BY <2>1, <2>2, <2>3, StoredCounting
  <2>5. CallInv'
    BY <2>1, <2>4, CallInvFrame DEF CountInv
  <2>6. QED BY <2>1, <2>5, KeptInvFrame DEF CountInv
<1>4. QED BY <1>2, <1>3

\* A download counts nobody.
LEMMA FetchCounting ==
  ASSUME CountInv, NEW c \in Call
  PROVE  /\ Fetched(c) => CountInv'
         /\ FetchFails(c) => CountInv'
<1>1. ASSUME call[c].phase = "fetching"
      PROVE  Uncounting(call[c]) /\ call[c].kind # "upload"
  BY <1>1 DEF CountInv, CallInv, Counting, Uncounting
<1>2. ASSUME NEW h, call[c].phase = "fetching"
      PROVE  LET s == [call[c] EXCEPT !.holders = h]
             IN  Uncounting(s) /\ s.kind # "upload" /\ s.phase = "fetching"
  BY <1>1, <1>2 DEF Uncounting, Fields
<1>3. ASSUME Fetched(c) PROVE CountInv'
  <2> DEFINE s == [call[c] EXCEPT !.holders = <<>>]
  <2>1. /\ call' = [call EXCEPT ![c] = Done(s, "resolved")]
        /\ has' = has /\ stores' = stores
    BY <1>3 DEF Fetched
  <2>2. Uncounting(s) /\ s.kind # "upload"
    BY <1>2, <1>3 DEF Fetched
  <2> HIDE DEF s
  <2>3. Counting(Done(s, "resolved"), has)
    BY <2>2, DoneCounting
  <2>4. CallInv'
    BY <2>1, <2>3, CallInvFrame DEF CountInv
  <2>5. QED BY <2>1, <2>4, KeptInvFrame DEF CountInv
<1>4. ASSUME FetchFails(c) PROVE CountInv'
  <2> DEFINE s == [call[c] EXCEPT !.holders = Front(@)]
             d == IF s.holders = <<>> THEN Done(s, "not found") ELSE s
  <2>1. /\ call' = [call EXCEPT ![c] = d]
        /\ has' = has /\ stores' = stores
    BY <1>4 DEF FetchFails
  <2>2. Uncounting(s) /\ s.kind # "upload" /\ s.phase = "fetching"
    BY <1>2, <1>4 DEF FetchFails
  <2> HIDE DEF s
  <2>3. Counting(d, has)
    <3>1. Counting(Done(s, "not found"), has)
      BY <2>2, DoneCounting
    <3>2. Counting(s, has)
      BY <2>2 DEF Counting, Uncounting
    <3>3. QED BY <3>1, <3>2
  <2> HIDE DEF d
  <2>4. CallInv'
    BY <2>1, <2>3, CallInvFrame DEF CountInv
  <2>5. QED BY <2>1, <2>4, KeptInvFrame DEF CountInv
<1>5. QED BY <1>3, <1>4

\* The more peers have the value the better.
LEMMA KeepCounting ==
  ASSUME CountInv, NEW c \in Call, NEW node, Keep(c, node)
  PROVE  CountInv'
<1>1. has \subseteq has' /\ call' = call
  BY DEF Keep
<1>2. \A r \in stores' : r \in stores \/ (r.kept => r.node.id \in has')
  BY DEF Keep
<1>3. CallInv'
  BY <1>1 DEF CountInv, CallInv, Counting
<1>4. KeptInv'
  BY <1>1, <1>2 DEF CountInv, KeptInv
<1>5. QED BY <1>3, <1>4 DEF CountInv

LEMMA NextCounting == CountInv /\ [Next]_vars => CountInv'
<1> SUFFICES ASSUME CountInv, [Next]_vars PROVE CountInv'
  OBVIOUS
<1>1. ASSUME UNCHANGED <<call, stores, has>> PROVE CountInv'
  BY <1>1 DEF CountInv, CallInv, KeptInv
<1>2. CASE Bootstrap
  BY <1>2, BeginCounting
<1>3. CASE RefreshBuckets
  BY <1>3, BeginCounting
<1>4. ASSUME NEW c \in Call, Begin(c) PROVE CountInv'
  BY <1>4, BeginCounting
<1>5. ASSUME NEW c \in Call, Settle(c) PROVE CountInv'
  BY <1>5, FindCounting, StoreCounting, FetchCounting DEF Settle
<1>6. ASSUME NEW c \in Call, NEW node \in Node, Keep(c, node) PROVE CountInv'
  BY <1>6, KeepCounting
<1>7. ASSUME NEW id \in Others, Hear(id) \/ Forget(id) \/ Leave(id)
      PROVE CountInv'
  BY <1>1, <1>7 DEF Hear, Forget, Leave
<1>8. CASE UNCHANGED vars
  BY <1>1, <1>8 DEF vars
<1>9. QED BY <1>2, <1>3, <1>4, <1>5, <1>6, <1>7, <1>8 DEF Next

\* Whom upload counts as a success has the value, and every contact that the
\* lookup returned is counted once, whatever is lost, late or goes away
\* (KademliaDHT.js, upload).
THEOREM SuccessCorrect == Spec => []SuccessIsStored
<1>1. CountInv => SuccessIsStored
  BY DEF CountInv, CallInv, Counting, SuccessIsStored
<1>2. QED BY <1>1, StartsCounting, NextCounting, PTL DEF Spec

-----------------------------------------------------------------------------
(* Types.                                                                  *)

\* The contacts a call can have to do with: this peer is not one of them.
Peer == {node \in Node : node.id # Root}

Typed(s) ==
  /\ s \in Progress
  /\ s.waiting \subseteq Peer /\ s.named \subseteq Peer
  /\ s.holders \in Seq(Peer) /\ s.closest \in Seq(Peer)
  /\ s.phase = "fetching" => s.holders # <<>>

TypedInv ==
  /\ TypeOK /\ TableOK(buckets, Root)
  /\ DOMAIN call = Call /\ \A c \in Call : Typed(call[c])

LEMMA NoPlaces == DOMAIN <<>> = {}
  OBVIOUS

LEMMA PeerFacts ==
  /\ Root \in NodeId /\ SeedId \in NodeId \ {Root} /\ Peer \subseteq Node
  /\ Key \in SUBSET (0 .. IdBits - 1) /\ Root \in SUBSET (0 .. IdBits - 1)
  /\ \A node \in Peer : node.id \in Others /\ node.id \in NodeId
  /\ \A id \in Others : Contact(id) \in Peer /\ Contact(id).id = id
  /\ \A id \in NodeId : Knows[id] \subseteq Others
BY DHTAssumption, TableAssumption DEF Peer, Others, Contact, Node

LEMMA SeqFacts ==
  ASSUME NEW S, NEW nodes \in Seq(S)
  PROVE  /\ ToSet(nodes) \subseteq S
         /\ Len(nodes) \in Nat /\ DOMAIN nodes = 1 .. Len(nodes)
         /\ \A x \in DOMAIN nodes : nodes[x] \in S
         /\ nodes # <<>> => Last(nodes) \in S
         /\ Front(nodes) \in Seq(S)
<1>1. Len(nodes) \in Nat /\ DOMAIN nodes = 1 .. Len(nodes)
  BY LenProperties
<1>2. \A x \in DOMAIN nodes : nodes[x] \in S
  BY <1>1, ElementOfSeq
<1>3. nodes # <<>> => Last(nodes) \in S
  <2>1. nodes # <<>> => Len(nodes) # 0
    BY EmptySeq
  <2>2. QED BY <1>1, <1>2, <2>1 DEF Last
<1>4. Front(nodes) \in Seq(S)
  <2>1. CASE Len(nodes) = 0
    <3>1. Front(nodes) = <<>>
      BY <2>1 DEF Front
    <3>2. QED BY <3>1
  <2>2. CASE Len(nodes) # 0
    <3>1. /\ Len(nodes) - 1 \in Nat
          /\ \A x \in 1 .. Len(nodes) - 1 : nodes[x] \in S
      BY <1>1, <1>2, <2>2
    <3>2. [x \in 1 .. Len(nodes) - 1 |-> nodes[x]] \in Seq(S)
      BY <3>1, IsASeq
    <3>3. QED BY <3>2 DEF Front
  <2>3. QED BY <2>1, <2>2
<1>5. QED BY <1>1, <1>2, <1>3, <1>4 DEF ToSet

\* A lookup finds contacts, and not the peer itself.
LEMMA ClosestPeers ==
  ASSUME NEW t, TableOK(t, Root), NEW subject \in SUBSET (0 .. IdBits - 1)
  PROVE  GetClosestNodes(t, Root, subject, NodesPerBucket) \in Seq(Peer)
<1> DEFINE nodes == GetClosestNodes(t, Root, subject, NodesPerBucket)
           centre == BucketOf(Root, subject)
<1>1. centre \in BucketIds
  BY AnyBucketInRange, PeerFacts
<1>2. nodes \in Seq(Node) /\ \E m \in Nat :
        ToSet(nodes) = UNION {ToSet(t[i].nodes) : i \in Before(centre, m)}
  BY <1>1, ClosestFacts, PeerFacts
<1> HIDE DEF nodes, centre
<1>3. \A x \in DOMAIN nodes : nodes[x] \in Peer
  <2> TAKE x \in DOMAIN nodes
  <2>1. nodes[x] \in ToSet(nodes) /\ nodes[x] \in Node
    BY <1>2, SeqFacts DEF ToSet
  <2>2. PICK i \in BucketIds : nodes[x] \in ToSet(t[i].nodes)
    BY <1>2, <2>1 DEF Before
  <2>3. nodes[x].id \in IdsIn(t[i])
    BY <2>2 DEF ToSet, IdsIn
  <2>4. QED BY <2>1, <2>3 DEF TableOK, Peer
<1>4. nodes \in Seq(Peer)
  <2>1. /\ Len(nodes) \in Nat /\ nodes = [x \in 1 .. Len(nodes) |-> nodes[x]]
        /\ \A x \in 1 .. Len(nodes) : nodes[x] \in Peer
    BY <1>2, <1>3, LenProperties
  <2>2. [x \in 1 .. Len(nodes) |-> nodes[x]] \in Seq(Peer)
    BY <2>1, IsASeq
  <2>3. QED BY <2>1, <2>2
<1>5. QED BY <1>4 DEF nodes

LEMMA DoneTyped ==
  ASSUME NEW s, Typed(s), NEW o \in {"resolved", "not found", "rejected"}
  PROVE  Typed(Done(s, o)) /\ Done(s, o).kind = s.kind
BY DEF Typed, Done, Progress

LEMMA ResolvedTyped ==
  ASSUME NEW s, Typed(s), NEW nodes \in Seq(Peer)
  PROVE  Typed(Resolved(s, nodes)) /\ Resolved(s, nodes).kind = s.kind
<1> DEFINE r == [s EXCEPT !.closest = nodes, !.responses = {}]
           d == [r EXCEPT !.phase = "storing", !.waiting = ToSet(nodes)]
<1>1. nodes \in Seq(Node) /\ ToSet(nodes) \subseteq Peer /\ Peer \subseteq Node
  BY SeqFacts, SeqMonotonic, PeerFacts
<1>2. Typed(r) /\ r.kind = s.kind
  BY <1>1 DEF Typed, Progress
<1>3. Typed(d) /\ d.kind = s.kind
  BY <1>1, <1>2 DEF Typed, Progress
<1>4. Resolved(s, nodes) \in {Done(r, "not found"), Done(r, "rejected"),
                              Done(r, "resolved"), d}
  BY DEF Resolved
<1> HIDE DEF r, d
<1>5. QED BY <1>2, <1>3, <1>4, DoneTyped

LEMMA RoundTyped ==
  ASSUME NEW s, Typed(s), NEW t, TableOK(t, Root)
  PROVE  Typed(Round(s, t)) /\ Round(s, t).kind = s.kind
<1> DEFINE closest == GetClosestNodes(t, Root, s.subject, NodesPerBucket)
           asked == {closest[x] : x \in First(Pending(s, closest))}
           d == [s EXCEPT !.phase = "asking", !.waiting = asked,
                          !.holders = <<>>]
<1>1. closest \in Seq(Peer)
  BY ClosestPeers DEF Typed, Progress
<1>2. Round(s, t) = IF Pending(s, closest) = {} THEN Resolved(s, closest) ELSE d
  BY DEF Round
<1> HIDE DEF closest
<1>3. asked \subseteq Peer /\ Peer \subseteq Node
  <2>1. First(Pending(s, closest)) \subseteq DOMAIN closest
    BY DEF First, Pending
  <2>2. \A x \in DOMAIN closest : closest[x] \in Peer
    BY <1>1, SeqFacts
  <2>3. QED BY <2>1, <2>2, PeerFacts
<1> HIDE DEF asked
<1>4. Typed(d) /\ d.kind = s.kind
  <2>1. <<>> \in Seq(Peer) /\ <<>> \in Seq(Node)
    OBVIOUS
  <2>2. d \in Progress
    BY <1>3, <2>1 DEF Typed, Progress
  <2>3. QED BY <1>3, <2>1, <2>2 DEF Typed, Progress
<1>5. QED BY <1>1, <1>2, <1>4, ResolvedTyped

LEMMA MetTyped ==
  ASSUME NEW s, Typed(s), NEW t, TableOK(t, Root)
  PROVE  Typed(Met(s, t)) /\ Met(s, t).kind = s.kind
<1> DEFINE d == [s EXCEPT !.phase = "fetching", !.responses = {}]
<1>1. s.holders # <<>> => Typed(d) /\ d.kind = s.kind
  BY DEF Typed, Progress
<1>2. Met(s, t) = IF s.holders # <<>> THEN d ELSE Round(s, t)
  BY DEF Met
<1> HIDE DEF d
<1>3. QED BY <1>1, <1>2, RoundTyped

LEMMA AskedTyped ==
  ASSUME NEW s, Typed(s), NEW t, TableOK(t, Root)
  PROVE  Typed(Asked(s, t)) /\ Asked(s, t).kind = s.kind
<1> DEFINE s1 == [s EXCEPT !.named = {}]
           strangers == {node \in s.named : GetNode(t, Root, node.id) = NoNode}
           d == [s1 EXCEPT !.phase = "meeting", !.waiting = strangers]
<1>1. Typed(s1) /\ s1.kind = s.kind
  BY DEF Typed, Progress
<1>2. strangers \subseteq Peer /\ Peer \subseteq Node
  BY PeerFacts DEF Typed
<1>3. Asked(s, t) = IF strangers = {} THEN Met(s1, t) ELSE d
  BY DEF Asked
<1> HIDE DEF s1, strangers
<1>4. Typed(d) /\ d.kind = s.kind
  BY <1>1, <1>2 DEF Typed, Progress
<1>5. QED BY <1>1, <1>3, <1>4, MetTyped

LEMMA GoOnTyped ==
  ASSUME NEW s, Typed(s), NEW t, TableOK(t, Root)
  PROVE  Typed(GoOn(s, t)) /\ GoOn(s, t).kind = s.kind
<1>1. GoOn(s, t) \in {s, Round(s, t), Asked(s, t), Met(s, t), Done(s, "resolved")}
  BY DEF GoOn
<1>2. Typed(Round(s, t)) /\ Round(s, t).kind = s.kind
  BY RoundTyped
<1>3. Typed(Asked(s, t)) /\ Asked(s, t).kind = s.kind
  BY AskedTyped
<1>4. Typed(Met(s, t)) /\ Met(s, t).kind = s.kind
  BY MetTyped
<1>5. Typed(Done(s, "resolved")) /\ Done(s, "resolved").kind = s.kind
  BY DoneTyped
<1>6. QED BY <1>1, <1>2, <1>3, <1>4, <1>5

LEMMA AnsweredTyped ==
  ASSUME NEW s, Typed(s), s.phase # "fetching", NEW node \in Peer
  PROVE  /\ Typed(Answered(s, node))
         /\ Answered(s, node).kind = s.kind /\ Answered(s, node).phase = s.phase
<1> DEFINE s1 == [s EXCEPT !.waiting   = @ \ {node},
                           !.responses = @ \cup {node.id}]
           d == [s1 EXCEPT !.holders = Append(@, node)]
           e == [s1 EXCEPT !.named = @ \cup {Contact(id) : id \in Knows[node.id]}]
<1>1. node \in Node /\ node.id \in NodeId
  BY PeerFacts
<1>2. Typed(s1) /\ s1.kind = s.kind /\ s1.phase = s.phase
  BY <1>1 DEF Typed, Progress
<1>3. Answered(s, node) \in {d, e}
  BY DEF Answered
<1> HIDE DEF s1
<1>4. Typed(d) /\ d.kind = s.kind /\ d.phase = s.phase
  <2>1. Append(s1.holders, node) \in Seq(Peer) /\ Append(s1.holders, node) \in Seq(Node)
    BY <1>1, <1>2, AppendProperties DEF Typed, Progress
  <2>2. QED BY <1>2, <2>1 DEF Typed, Progress
<1>5. Typed(e) /\ e.kind = s.kind /\ e.phase = s.phase
  <2> DEFINE met == {Contact(id) : id \in Knows[node.id]}
  <2>1. met \subseteq Peer /\ met \subseteq Node
    BY <1>1, PeerFacts
  <2> HIDE DEF met
  <2>2. [s1 EXCEPT !.named = @ \cup met] \in Progress
    BY <1>2, <2>1 DEF Typed, Progress
  <2>3. Typed([s1 EXCEPT !.named = @ \cup met])
    BY <1>2, <2>1, <2>2 DEF Typed, Progress
  <2>4. QED BY <1>2, <2>3 DEF Typed, Progress, met
<1>6. QED BY <1>3, <1>4, <1>5

-----------------------------------------------------------------------------
(* What lookups have learnt, as long as nothing has failed.                *)

\* Some contact is in the table, or there is no room for it. Where peers do not
\* answer lookups nothing is said: they are removed, and may leave room.
Familiar(t, id) ==
  Mute = {} => KnownOrFull(t[BucketOf(Root, id)], id)

\* A lookup under way, unless it has found the value: of those named by whom it
\* has had an answer from it has not missed anyone, but for those it has yet to
\* meet, and whom a download has had an answer from did not have the value.
Going(s, t, yet) ==
  s.holders = <<>> =>
    /\ \A r \in s.responses : \A id \in Knows[r] :
         Familiar(t, id) \/ Contact(id) \in yet
    /\ s.kind = "download" => s.responses \cap s.hadIt = {}

\* The same of what a lookup returned.
ReturnedOK(s, t) ==
  \A x \in DOMAIN s.closest : \A id \in Knows[s.closest[x].id] : Familiar(t, id)

NotFoundOK(s) ==
  s.kind = "download" /\ s.outcome = "not found" =>
    s.holders = <<>> /\ \A x \in DOMAIN s.closest : s.closest[x].id \notin s.hadIt

LookOK(s, t, H) ==
  /\ s.hadIt \subseteq H
  /\ s.outcome = "not found" => s.phase = "done"
  /\ s.phase \in {"idle", "pinging"} => s.responses = {} /\ s.holders = <<>>
  /\ s.phase = "asking" => Going(s, t, s.named)
  /\ s.phase = "meeting" => Going(s, t, s.waiting)
  /\ ReturnedOK(s, t) /\ NotFoundOK(s)

QuietInv ==
  faults = 0 => up = Others /\ \A c \in Call : LookOK(call[c], buckets, has)

\* Filing a contact makes it familiar and leaves the others so.
LEMMA FamiliarGrows ==
  ASSUME NEW t, TableOK(t, Root), NEW node \in Peer, NEW id \in NodeId,
         Familiar(t, id) \/ id = node.id
  PROVE  Familiar(TableWith(t, Root, node), id)
<1> SUFFICES ASSUME Mute = {}
             PROVE  KnownOrFull(TableWith(t, Root, node)[BucketOf(Root, id)], id)
  BY DEF Familiar
<1> DEFINE i == BucketOf(Root, id)
           j == BucketOf(Root, node.id)
<1>1. i \in BucketIds /\ j \in BucketIds /\ node \in Node
  BY BucketInRange, PeerFacts
<1>2. TableWith(t, Root, node) = [t EXCEPT ![j] = Save(@, node)]
  BY DEF TableWith, Peer
<1>3. t \in Table /\ t[i] \in Bucket /\ BucketOK(t[i])
  BY <1>1 DEF TableOK, Table
<1>4. KnownOrFull(t[i], id) \/ id = node.id
  BY DEF Familiar
<1>5. id = node.id => i = j
  OBVIOUS
<1> HIDE DEF i, j
<1>6. CASE i = j
  <2>1. KnownOrFull(Save(t[i], node), id)
    BY <1>1, <1>3, <1>4, SaveKnows
  <2>2. QED BY <1>1, <1>2, <1>3, <1>6, <2>1 DEF Table, i
<1>7. CASE i # j
  BY <1>1, <1>2, <1>3, <1>4, <1>5, <1>7 DEF Table, i
<1>8. QED BY <1>6, <1>7

LEMMA StillLooking ==
  ASSUME NEW s, Typed(s), NEW t, NEW u, NEW H, NEW K, LookOK(s, t, H),
         H \subseteq K, \A id \in Others : Familiar(t, id) => Familiar(u, id)
  PROVE  LookOK(s, u, K)
<1>1. /\ s.responses \subseteq NodeId
      /\ \A x \in DOMAIN s.closest : s.closest[x].id \in NodeId
  BY SeqFacts, PeerFacts DEF Typed, Progress
<1>2. \A yet : Going(s, t, yet) => Going(s, u, yet)
  BY <1>1, PeerFacts DEF Going
<1>3. ReturnedOK(s, u)
  BY <1>1, PeerFacts DEF LookOK, ReturnedOK
<1>4. QED BY <1>2, <1>3 DEF LookOK

\* What is known of a call that goes on to a round.
Ready(s, t, H) ==
  /\ s.hadIt \subseteq H /\ s.outcome # "not found" /\ ReturnedOK(s, t)
  /\ Going(s, t, {})

LEMMA ResolvedLooks ==
  ASSUME NEW s, Typed(s), NEW t, NEW H, Ready(s, t, H), s.holders = <<>>,
         NEW nodes \in Seq(Peer), \A x \in DOMAIN nodes : nodes[x].id \in s.responses
  PROVE  LookOK(Resolved(s, nodes), t, H)
<1> DEFINE r == [s EXCEPT !.closest = nodes, !.responses = {}]
<1>1. /\ r.closest = nodes /\ r.responses = {} /\ r.holders = <<>>
      /\ r.hadIt = s.hadIt /\ r.outcome = s.outcome /\ r.kind = s.kind
      /\ DOMAIN r = Fields
  BY DEF Typed, Progress, Fields
<1>2. ReturnedOK(r, t)
  BY <1>1 DEF Ready, Going, ReturnedOK
<1>3. s.kind = "download" =>
        \A x \in DOMAIN nodes : nodes[x].id \notin s.hadIt
  BY DEF Ready, Going
<1>4. ASSUME NEW o, o = "not found" => s.kind = "download"
      PROVE  LookOK(Done(r, o), t, H)
  <2> DEFINE d == Done(r, o)
  <2>1. /\ d.closest = nodes /\ d.holders = <<>> /\ d.hadIt = s.hadIt
        /\ d.outcome = o /\ d.kind = s.kind /\ d.phase = "done"
    BY <1>1 DEF Done, Fields
  <2> HIDE DEF d
  <2>2. LookOK(d, t, H)
    BY <1>1, <1>2, <1>3, <2>1 DEF LookOK, ReturnedOK, NotFoundOK, Ready
  <2>3. QED BY <2>2 DEF d
<1>5. LookOK([r EXCEPT !.phase = "storing", !.waiting = ToSet(nodes)], t, H)
  <2> DEFINE d == [r EXCEPT !.phase = "storing", !.waiting = ToSet(nodes)]
  <2>1. /\ d.closest = nodes /\ d.hadIt = s.hadIt
        /\ d.outcome = s.outcome /\ d.phase = "storing"
    BY <1>1 DEF Fields
  <2> HIDE DEF d
  <2>2. LookOK(d, t, H)
    BY <1>1, <1>2, <2>1 DEF LookOK, ReturnedOK, NotFoundOK, Ready
  <2>3. QED BY <2>2 DEF d
<1> HIDE DEF r
<1>6. Resolved(s, nodes) =
        IF s.kind = "download" THEN Done(r, "not found")
        ELSE IF s.outcome = "rejected" THEN Done(r, "rejected")
        ELSE IF s.kind = "upload" /\ nodes # <<>>
        THEN [r EXCEPT !.phase = "storing", !.waiting = ToSet(nodes)]
        ELSE Done(r, "resolved")
  BY DEF Resolved, r
<1>7. LookOK(Done(r, "rejected"), t, H) /\ LookOK(Done(r, "resolved"), t, H)
      /\ (s.kind = "download" => LookOK(Done(r, "not found"), t, H))
  BY <1>4
<1>8. QED BY <1>5, <1>6, <1>7

\* A lookup that ends has had the answers of everyone it returns.
LEMMA RoundLooks ==
  ASSUME NEW s, Typed(s), NEW t, TableOK(t, Root), NEW H, Ready(s, t, H),
         s.holders = <<>>
  PROVE  LookOK(Round(s, t), t, H)
<1> DEFINE closest == GetClosestNodes(t, Root, s.subject, NodesPerBucket)
           d == [s EXCEPT !.phase = "asking",
                          !.waiting = {closest[x] : x \in First(Pending(s, closest))},
                          !.holders = <<>>]
<1>1. closest \in Seq(Peer)
  BY ClosestPeers DEF Typed, Progress
<1>2. Round(s, t) = IF Pending(s, closest) = {} THEN Resolved(s, closest) ELSE d
  BY DEF Round
<1> HIDE DEF closest
<1>3. CASE Pending(s, closest) = {}
  <2>1. \A x \in DOMAIN closest : closest[x].id \in s.responses
    BY <1>3 DEF Pending
  <2>2. QED BY <1>1, <1>2, <1>3, <2>1, ResolvedLooks
<1>4. CASE Pending(s, closest) # {}
  <2>1. /\ d.phase = "asking" /\ d.holders = <<>> /\ d.hadIt = s.hadIt
        /\ d.outcome = s.outcome /\ d.kind = s.kind /\ d.closest = s.closest
        /\ d.responses = s.responses
    BY DEF Typed, Progress
  <2>2. Round(s, t) = d
    BY <1>2, <1>4
  <2> HIDE DEF d
  <2>3. LookOK(d, t, H)
    BY <2>1 DEF LookOK, Ready, Going, ReturnedOK, NotFoundOK
  <2>4. QED BY <2>2, <2>3
<1>5. QED BY <1>3, <1>4

LEMMA MetLooks ==
  ASSUME NEW s, Typed(s), NEW t, TableOK(t, Root), NEW H, Ready(s, t, H)
  PROVE  LookOK(Met(s, t), t, H)
<1> DEFINE d == [s EXCEPT !.phase = "fetching", !.responses = {}]
<1>1. Met(s, t) = IF s.holders # <<>> THEN d ELSE Round(s, t)
  BY DEF Met
<1>2. /\ d.phase = "fetching" /\ d.hadIt = s.hadIt /\ d.outcome = s.outcome
      /\ d.closest = s.closest
  BY DEF Typed, Progress
<1> HIDE DEF d
<1>3. LookOK(d, t, H)
  BY <1>2 DEF LookOK, Ready, ReturnedOK, NotFoundOK
<1>4. QED BY <1>1, <1>3, RoundLooks

\* Whoever was named is met, unless the table knows it.
LEMMA AskedLooks ==
  ASSUME NEW s, Typed(s), NEW t, TableOK(t, Root), NEW H, LookOK(s, t, H),
         s.phase = "asking"
  PROVE  LookOK(Asked(s, t), t, H)
<1> DEFINE s1 == [s EXCEPT !.named = {}]
           strangers == {node \in s.named : GetNode(t, Root, node.id) = NoNode}
           d == [s1 EXCEPT !.phase = "meeting", !.waiting = strangers]
<1>1. Asked(s, t) = IF strangers = {} THEN Met(s1, t) ELSE d
  BY DEF Asked
<1>2. Typed(s1)
  BY DEF Typed, Progress
<1>3. /\ s1.hadIt = s.hadIt /\ s1.outcome = s.outcome /\ s1.kind = s.kind
      /\ s1.closest = s.closest /\ s1.responses = s.responses
      /\ s1.holders = s.holders /\ DOMAIN s1 = Fields
  BY DEF Typed, Progress, Fields
<1>4. Going(s1, t, strangers)
  <2> SUFFICES ASSUME s.holders = <<>>
               PROVE  /\ \A r \in s.responses : \A id \in Knows[r] :
                           Familiar(t, id) \/ Contact(id) \in strangers
                      /\ s.kind = "download" => s.responses \cap s.hadIt = {}
    BY <1>3 DEF Going
  <2>1. ASSUME NEW r \in s.responses, NEW id \in Knows[r]
        PROVE  Familiar(t, id) \/ Contact(id) \in strangers
    <3>1. Familiar(t, id) \/ Contact(id) \in s.named
      BY <2>1 DEF LookOK, Going
    <3>2. id \in Others
      BY <2>1, PeerFacts DEF Typed, Progress
    <3>3. GetNode(t, Root, id) # NoNode => Familiar(t, id)
      BY DEF Familiar, KnownOrFull, GetNode
    <3>4. QED BY <3>1, <3>2, <3>3, PeerFacts
  <2>2. QED BY <2>1 DEF LookOK, Going
<1> HIDE DEF s1, strangers
<1>5. CASE strangers = {}
  <2>1. Ready(s1, t, H)
    BY <1>3, <1>4, <1>5 DEF Ready, LookOK, ReturnedOK
  <2>2. QED BY <1>1, <1>2, <1>5, <2>1, MetLooks
<1>6. CASE strangers # {}
  <2>1. /\ d.phase = "meeting" /\ d.waiting = strangers
        /\ d.hadIt = s.hadIt /\ d.outcome = s.outcome /\ d.kind = s.kind
        /\ d.closest = s.closest /\ d.responses = s.responses
        /\ d.holders = s.holders
    BY <1>3 DEF Fields
  <2>2. Asked(s, t) = d
    BY <1>1, <1>6
  <2> HIDE DEF d
  <2>3. Going(d, t, strangers)
    BY <1>3, <1>4, <2>1 DEF Going
  <2>4. LookOK(d, t, H)
    BY <2>1, <2>3 DEF LookOK, ReturnedOK, NotFoundOK
  <2>5. QED BY <2>2, <2>4
<1>7. QED BY <1>5, <1>6

LEMMA GoOnLooks ==
  ASSUME NEW s, Typed(s), NEW t, TableOK(t, Root), NEW H, LookOK(s, t, H),
         s.phase \in {"pinging", "asking", "meeting", "storing"}
  PROVE  LookOK(GoOn(s, t), t, H)
<1>1. CASE s.waiting # {}
  BY <1>1 DEF GoOn
<1>2. CASE s.waiting = {} /\ s.phase \in {"pinging", "meeting"}
  <2>1. Ready(s, t, H)
    BY <1>2 DEF Ready, LookOK, Going
  <2>2. s.phase = "pinging" => s.holders = <<>>
    BY DEF LookOK
  <2>3. GoOn(s, t) = IF s.phase = "pinging" THEN Round(s, t) ELSE Met(s, t)
    BY <1>2 DEF GoOn
  <2>4. QED BY <1>2, <2>1, <2>2, <2>3, RoundLooks, MetLooks
<1>3. CASE s.waiting = {} /\ s.phase = "asking"
  <2>1. GoOn(s, t) = Asked(s, t)
    BY <1>3 DEF GoOn
  <2>2. QED BY <1>3, <2>1, AskedLooks
<1>4. CASE s.waiting = {} /\ s.phase = "storing"
  <2> DEFINE d == Done(s, "resolved")
  <2>1. GoOn(s, t) = d
    BY <1>4 DEF GoOn
  <2>2. /\ d.phase = "done" /\ d.outcome = "resolved" /\ d.hadIt = s.hadIt
        /\ d.closest = s.closest
    BY DEF Done, Typed, Progress
  <2> HIDE DEF d
  <2>3. LookOK(d, t, H)
    BY <2>2 DEF LookOK, ReturnedOK, NotFoundOK
  <2>4. QED BY <2>1, <2>3
<1>5. QED BY <1>1, <1>2, <1>3, <1>4

-----------------------------------------------------------------------------
(* Steps.                                                                  *)

LookInv == TypedInv /\ QuietInv

RestOK ==
  /\ stores \subseteq [call : Call, node : Node, kept : BOOLEAN]
  /\ has \subseteq NodeId /\ local \in BOOLEAN /\ up \subseteq Others
  /\ refreshes \in 0 .. MaxRefreshes
  /\ faults \in 0 .. MaxFaults

\* As much as the table knew, it knows.
Learns(t, u) == \A id \in Others : Familiar(t, id) => Familiar(u, id)

LEMMA TypedParts ==
  ASSUME TypedInv
  PROVE  /\ RestOK /\ TableOK(buckets, Root) /\ faults \in Nat
         /\ DOMAIN call = Call
         /\ \A c \in Call : Typed(call[c]) /\ call[c].kind = Kind(c)
BY DHTAssumption DEF TypedInv, TypeOK, RestOK

LEMMA TypedWhole ==
  ASSUME RestOK, TableOK(buckets, Root), DOMAIN call = Call,
         \A c \in Call : Typed(call[c]) /\ call[c].kind = Kind(c)
  PROVE  TypedInv
BY DEF TypedInv, TypeOK, RestOK, TableOK, Typed

LEMMA TypedWholeNext ==
  ASSUME RestOK', TableOK(buckets', Root), DOMAIN call' = Call,
         \A c \in Call : Typed(call'[c]) /\ call'[c].kind = Kind(c)
  PROVE  TypedInv'
BY DEF TypedInv, TypeOK, RestOK, TableOK, Typed

\* One call is another one now; whatever else there is is typed.
LEMMA OneCallLooks ==
  ASSUME LookInv, NEW c \in Call, NEW STATE s, call' = [call EXCEPT ![c] = s],
         RestOK', NEW STATE t, buckets' = t, TableOK(t, Root),
         Typed(s), s.kind = Kind(c),
         faults' = 0 => /\ faults = 0 /\ up' = up /\ has \subseteq has'
                        /\ Learns(buckets, t) /\ LookOK(s, t, has')
  PROVE  LookInv'
<1>1. /\ DOMAIN call = Call
      /\ \A d \in Call : Typed(call[d]) /\ call[d].kind = Kind(d)
  BY TypedParts DEF LookInv
<1>2. /\ DOMAIN call' = Call
      /\ \A d \in Call : call'[d] = IF d = c THEN s ELSE call[d]
  BY <1>1
<1>3. \A d \in Call : Typed(call'[d]) /\ call'[d].kind = Kind(d)
  BY <1>1, <1>2
<1>4. TypedInv'
  BY <1>2, <1>3, TypedWholeNext
<1>5. ASSUME faults' = 0
      PROVE  up' = Others /\ \A d \in Call : LookOK(call'[d], buckets', has')
  <2>1. up' = Others /\ \A d \in Call : LookOK(call[d], buckets, has)
    BY <1>5 DEF LookInv, QuietInv
  <2>2. ASSUME NEW d \in Call PROVE LookOK(call[d], t, has')
    BY <1>1, <1>5, <2>1, StillLooking DEF Learns
  <2>3. QED BY <1>2, <1>5, <2>1, <2>2
<1>6. QED BY <1>4, <1>5 DEF LookInv, QuietInv

\* No call is another one now.
LEMMA NoCallLooks ==
  ASSUME LookInv, call' = call,
         RestOK', NEW STATE t, buckets' = t, TableOK(t, Root),
         faults' = 0 => /\ faults = 0 /\ up' = up /\ has \subseteq has'
                        /\ Learns(buckets, t)
  PROVE  LookInv'
<1>1. /\ DOMAIN call = Call
      /\ \A d \in Call : Typed(call[d]) /\ call[d].kind = Kind(d)
  BY TypedParts DEF LookInv
<1>2. TypedInv'
  BY <1>1, TypedWholeNext
<1>3. ASSUME faults' = 0
      PROVE  up' = Others /\ \A d \in Call : LookOK(call'[d], buckets', has')
  <2>1. up' = Others /\ \A d \in Call : LookOK(call[d], buckets, has)
    BY <1>3 DEF LookInv, QuietInv
  <2>2. ASSUME NEW d \in Call PROVE LookOK(call[d], t, has')
    BY <1>1, <1>3, <2>1, StillLooking DEF Learns
  <2>3. QED BY <2>1, <2>2
<1>4. QED BY <1>2, <1>3 DEF LookInv, QuietInv

LEMMA TableGrows ==
  ASSUME LookInv, NEW node \in Peer
  PROVE  /\ TableOK(TableWith(buckets, Root, node), Root)
         /\ Learns(buckets, TableWith(buckets, Root, node))
         /\ Familiar(TableWith(buckets, Root, node), node.id)
<1>1. TableOK(buckets, Root)
  BY TypedParts DEF LookInv
<1>2. QED BY <1>1, FamiliarGrows, TableWithOK, PeerFacts DEF Learns, Others

LEMMA TableShrinks ==
  ASSUME LookInv, NEW id \in NodeId
  PROVE  /\ TableOK(TableWithout(buckets, Root, id), Root)
         /\ Mute # {} => Learns(buckets, TableWithout(buckets, Root, id))
<1>1. TableOK(buckets, Root)
  BY TypedParts DEF LookInv
<1>2. QED BY <1>1, TableWithoutOK, PeerFacts DEF Learns, Familiar

\* Nothing has failed: a request has not, but for one to a peer that does not
\* answer.
LEMMA Surely ==
  ASSUME LookInv, NEW id \in Others
  PROVE  /\ Unanswered(id, up) => faults' # 0 /\ faults' \in 0 .. MaxFaults
         /\ Unanswered(id, up \ Mute) =>
              /\ faults' \in 0 .. MaxFaults
              /\ faults' = 0 => faults = 0 /\ Mute # {}
<1>1. faults \in 0 .. MaxFaults /\ MaxFaults \in Nat
  BY TypedParts, DHTAssumption DEF LookInv, RestOK
<1>2. faults = 0 => up = Others
  BY DEF LookInv, QuietInv
<1>3. QED BY <1>1, <1>2 DEF Unanswered, Fault

LEMMA StartsLooking == Init => LookInv
<1> SUFFICES ASSUME Init PROVE LookInv
  OBVIOUS
<1>1. TableOK(buckets, Root)
  BY EmptyTableOK DEF Init
<1>2. RestOK
  BY DHTAssumption DEF Init, RestOK, Others
<1>3. ASSUME NEW c \in Call
      PROVE  /\ Typed(call[c]) /\ call[c].kind = Kind(c)
             /\ LookOK(call[c], buckets, has)
  <2>1. call[c] = Idle(Kind(c))
    BY DEF Init
  <2>2. Kind(c) \in {"bootstrap", "refresh", "upload", "download"}
    BY DEF Kind, Call, Boot
  <2>3. <<>> \in Seq(Node) /\ <<>> \in Seq(Peer) /\ DOMAIN <<>> = {}
    OBVIOUS
  <2>4. Typed(Idle(Kind(c)))
    BY <2>2, <2>3, PeerFacts DEF Idle, Typed, Progress
  <2>5. LookOK(Idle(Kind(c)), buckets, has)
    BY <2>3 DEF Idle, LookOK, ReturnedOK, NotFoundOK
  <2>6. QED BY <2>1, <2>4, <2>5 DEF Idle
<1>4. TypedInv
  BY <1>1, <1>2, <1>3, TypedWhole DEF Init
<1>5. QED BY <1>3, <1>4 DEF LookInv, QuietInv, Init

LEMMA BootstrapLooks == LookInv /\ Bootstrap => LookInv'
<1> SUFFICES ASSUME LookInv, Bootstrap PROVE LookInv'
  OBVIOUS
<1> DEFINE s == [call[Boot] EXCEPT !.phase   = "pinging",
                                   !.waiting = {Contact(SeedId)}]
<1>1. /\ Boot \in Call /\ Contact(SeedId) \in Peer /\ Contact(SeedId) \in Node
  BY PeerFacts DEF Call, Others
<1>2. /\ RestOK /\ TableOK(buckets, Root)
      /\ Typed(call[Boot]) /\ call[Boot].kind = Kind(Boot)
  BY <1>1, TypedParts DEF LookInv
<1>3. Typed(s) /\ s.kind = Kind(Boot)
  BY <1>1, <1>2 DEF Typed, Progress
<1>4. faults = 0 => LookOK(call[Boot], buckets, has)
  BY <1>1 DEF LookInv, QuietInv
<1>5. faults = 0 => LookOK(s, buckets, has)
  <2>1. /\ s.hadIt = call[Boot].hadIt /\ s.outcome = call[Boot].outcome
        /\ s.kind = call[Boot].kind /\ s.closest = call[Boot].closest
        /\ s.responses = call[Boot].responses /\ s.holders = call[Boot].holders
        /\ s.phase = "pinging" /\ call[Boot].phase = "idle"
    BY <1>2 DEF Typed, Progress, Bootstrap
  <2> HIDE DEF s
  <2>2. QED BY <1>4, <2>1 DEF LookOK, ReturnedOK, NotFoundOK
<1>6. /\ call' = [call EXCEPT ![Boot] = s] /\ buckets' = buckets /\ RestOK'
      /\ faults' = faults /\ up' = up /\ has' = has
  BY <1>2 DEF Bootstrap, RestOK
<1> HIDE DEF s
<1>7. QED BY <1>1, <1>2, <1>3, <1>5, <1>6, OneCallLooks DEF Learns

\* A call that begins with a round.
LEMMA FreshLooks ==
  ASSUME LookInv, NEW STATE s, Typed(s), s.responses = {}, s.holders = <<>>,
         s.closest = <<>>, s.hadIt \subseteq has, s.outcome # "not found"
  PROVE  /\ Typed(Round(s, buckets)) /\ Round(s, buckets).kind = s.kind
         /\ LookOK(Round(s, buckets), buckets, has)
<1>1. TableOK(buckets, Root)
  BY TypedParts DEF LookInv
<1>2. Ready(s, buckets, has)
  BY NoPlaces DEF Ready, ReturnedOK, Going
<1>3. QED BY <1>1, <1>2, RoundTyped, RoundLooks

LEMMA RefreshLooks == LookInv /\ RefreshBuckets => LookInv'
<1> SUFFICES ASSUME LookInv, RefreshBuckets PROVE LookInv'
  OBVIOUS
<1> DEFINE s(id) == [Idle("refresh") EXCEPT !.subject = id]
<1>1. /\ RestOK /\ TableOK(buckets, Root)
      /\ \A c \in Call : Typed(call[c]) /\ call[c].kind = Kind(c)
      /\ buckets \in Table
  BY TypedParts DEF LookInv, TableOK
<1>2. ASSUME NEW id \in NodeId
      PROVE  /\ Typed(Round(s(id), buckets)) /\ Round(s(id), buckets).kind = "refresh"
             /\ LookOK(Round(s(id), buckets), buckets, has)
  <2>1. <<>> \in Seq(Node) /\ <<>> \in Seq(Peer) /\ id \in SUBSET (0 .. IdBits - 1)
    BY TableAssumption
  <2>2. Typed(s(id)) /\ s(id).kind = "refresh"
    BY <2>1 DEF Typed, Progress, Idle
  <2>3. /\ s(id).responses = {} /\ s(id).holders = <<>> /\ s(id).closest = <<>>
        /\ s(id).hadIt = {} /\ s(id).outcome = "none"
    BY DEF Idle
  <2> HIDE DEF s
  <2>4. QED BY <2>2, <2>3, FreshLooks
<1>3. ASSUME NEW c \in Call
      PROVE  \/ call'[c] = call[c]
             \/ Kind(c) = "refresh" /\ \E id \in NodeId :
                                         call'[c] = Round(s(id), buckets)
  <2>1. PICK place \in [{i \in BucketIds : buckets[i].nodes # <<>>}
                          -> 1 .. NodesPerBucket] :
          /\ \A i \in {i \in BucketIds : buckets[i].nodes # <<>>} :
               place[i] \in DOMAIN buckets[i].nodes
          /\ call'[c] =
               IF Kind(c) = "refresh"
                    /\ c[2] \in {i \in BucketIds : buckets[i].nodes # <<>>}
               THEN Round(s(buckets[c[2]].nodes[place[c[2]]].id), buckets)
               ELSE call[c]
    BY DEF RefreshBuckets
  <2> HIDE DEF s
  <2>2. CASE /\ Kind(c) = "refresh" /\ c[2] \in BucketIds
             /\ buckets[c[2]].nodes # <<>>
    <3>1. buckets[c[2]].nodes \in Seq(Node)
      BY <1>1, <2>2 DEF Table, Bucket
    <3>2. buckets[c[2]].nodes[place[c[2]]] \in Node
      BY <2>1, <2>2, <3>1, SeqFacts
    <3>3. buckets[c[2]].nodes[place[c[2]]].id \in NodeId
      BY <3>2 DEF Node
    <3>4. QED BY <2>1, <2>2, <3>3
  <2>3. QED BY <2>1, <2>2
<1>4. /\ DOMAIN call' = Call /\ buckets' = buckets /\ has' = has /\ up' = up
      /\ faults' = faults /\ RestOK'
  BY <1>1, DHTAssumption DEF RefreshBuckets, RestOK
<1> HIDE DEF s
<1>5. \A c \in Call : Typed(call'[c]) /\ call'[c].kind = Kind(c)
  BY <1>1, <1>2, <1>3
<1>6. faults = 0 => \A c \in Call : LookOK(call'[c], buckets, has)
  BY <1>2, <1>3 DEF LookInv, QuietInv
<1>7. TypedInv'
  BY <1>1, <1>4, <1>5, TypedWholeNext
<1>8. QED BY <1>4, <1>6, <1>7 DEF LookInv, QuietInv

LEMMA BeginLooks ==
  ASSUME LookInv, NEW c \in Call, Begin(c)
  PROVE  LookInv'
<1> DEFINE s == [Idle(Kind(c)) EXCEPT
                   !.subject = Key, !.hadIt = has,
                   !.outcome = IF Kind(c) = "upload" /\ ~local
                               THEN "rejected" ELSE "none"]
<1>1. RestOK /\ TableOK(buckets, Root)
  BY TypedParts DEF LookInv
<1>2. Typed(s) /\ s.kind = Kind(c)
  <2>1. <<>> \in Seq(Node) /\ <<>> \in Seq(Peer)
    OBVIOUS
  <2>2. Kind(c) \in {"upload", "download"} /\ has \subseteq NodeId
    BY <1>1 DEF Begin, RestOK
  <2>3. QED BY <2>1, <2>2, PeerFacts DEF Typed, Progress, Idle
<1>3. /\ s.responses = {} /\ s.holders = <<>> /\ s.closest = <<>>
      /\ s.hadIt = has /\ s.outcome # "not found"
  BY DEF Idle
<1>4. /\ call' = [call EXCEPT ![c] = Round(s, buckets)] /\ buckets' = buckets
      /\ faults' = faults /\ up' = up /\ has' = has /\ RestOK'
  BY <1>1 DEF Begin, RestOK
<1> HIDE DEF s
<1>5. /\ Typed(Round(s, buckets)) /\ Round(s, buckets).kind = Kind(c)
      /\ LookOK(Round(s, buckets), buckets, has)
  BY <1>2, <1>3, FreshLooks
<1>6. QED BY <1>1, <1>4, <1>5, OneCallLooks DEF Learns

\* A call that waits for one thing less.
Less(s, node) == [s EXCEPT !.waiting = @ \ {node}]

LEMMA LessFacts ==
  ASSUME NEW s, Typed(s), NEW node
  PROVE  /\ Typed(Less(s, node)) /\ DOMAIN s = Fields
         /\ Less(s, node) = [s EXCEPT !.waiting = @ \ {node}]
         /\ Less(s, node).waiting = s.waiting \ {node}
         /\ Less(s, node).kind = s.kind /\ Less(s, node).phase = s.phase
         /\ Less(s, node).hadIt = s.hadIt /\ Less(s, node).outcome = s.outcome
         /\ Less(s, node).closest = s.closest /\ Less(s, node).named = s.named
         /\ Less(s, node).responses = s.responses
         /\ Less(s, node).holders = s.holders
BY DEF Less, Typed, Progress, Fields

\* It has not missed anyone, if the contact it waited for is familiar now.
LEMMA LessLooks ==
  ASSUME NEW s, Typed(s), NEW t, NEW H, LookOK(s, t, H), NEW node \in Peer,
         s.phase = "meeting" => Familiar(t, node.id)
  PROVE  LookOK(Less(s, node), t, H)
<1> DEFINE r == Less(s, node)
<1>1. /\ r.waiting = s.waiting \ {node} /\ r.phase = s.phase /\ r.kind = s.kind
      /\ r.hadIt = s.hadIt /\ r.outcome = s.outcome /\ r.closest = s.closest
      /\ r.named = s.named /\ r.responses = s.responses /\ r.holders = s.holders
  BY LessFacts
<1> HIDE DEF r
<1>2. s.phase = "meeting" => Going(r, t, r.waiting)
  <2> SUFFICES ASSUME s.phase = "meeting", s.holders = <<>>
               PROVE  /\ \A x \in s.responses : \A id \in Knows[x] :
                           Familiar(t, id) \/ Contact(id) \in s.waiting \ {node}
                      /\ s.kind = "download" => s.responses \cap s.hadIt = {}
    BY <1>1 DEF Going
  <2>1. ASSUME NEW x \in s.responses, NEW id \in Knows[x]
        PROVE  Familiar(t, id) \/ Contact(id) \in s.waiting \ {node}
    <3>1. Familiar(t, id) \/ Contact(id) \in s.waiting
      BY DEF LookOK, Going
    <3>2. Contact(id) = node => id = node.id
      BY DEF Contact
    <3>3. QED BY <3>1, <3>2
  <2>2. QED BY <2>1 DEF LookOK, Going
<1>3. s.phase = "asking" => Going(r, t, r.named)
  BY <1>1 DEF LookOK, Going
<1>4. LookOK(r, t, H)
  BY <1>1, <1>2, <1>3 DEF LookOK, ReturnedOK, NotFoundOK
<1>5. QED BY <1>4 DEF r

LEMMA CallFacts ==
  ASSUME LookInv, NEW c \in Call
  PROVE  /\ RestOK /\ TableOK(buckets, Root)
         /\ Typed(call[c]) /\ call[c].kind = Kind(c)
         /\ \A node \in call[c].waiting : /\ node \in Peer /\ node \in Node
                                          /\ node.id \in Others /\ node.id \in NodeId
         /\ faults = 0 => up = Others /\ LookOK(call[c], buckets, has)
         /\ \A node \in Peer : faults = 0 =>
              LookOK(call[c], TableWith(buckets, Root, node), has)
<1>1. /\ RestOK /\ TableOK(buckets, Root)
      /\ Typed(call[c]) /\ call[c].kind = Kind(c)
      /\ faults = 0 => up = Others /\ LookOK(call[c], buckets, has)
  BY TypedParts DEF LookInv, QuietInv
<1>2. \A node \in call[c].waiting : /\ node \in Peer /\ node \in Node
                                    /\ node.id \in Others /\ node.id \in NodeId
  BY <1>1, PeerFacts DEF Typed
<1>3. ASSUME NEW node \in Peer, faults = 0
      PROVE  LookOK(call[c], TableWith(buckets, Root, node), has)
  BY <1>1, <1>3, TableGrows, StillLooking DEF Learns
<1>4. QED BY <1>1, <1>2, <1>3

LEMMA PingLooks ==
  ASSUME LookInv, NEW c \in Call, NEW node \in call[c].waiting
  PROVE  /\ PingAnswered(c, node) => LookInv'
         /\ PingTimeout(c, node) => LookInv'
<1> DEFINE s == Less(call[c], node)
<1>1. /\ node \in Peer /\ node.id \in Others /\ Typed(call[c]) /\ RestOK
      /\ TableOK(buckets, Root)
  BY CallFacts
<1>2. /\ s = [call[c] EXCEPT !.waiting = @ \ {node}] /\ Typed(s)
      /\ s.kind = Kind(c) /\ s.phase = call[c].phase
  BY <1>1, LessFacts, CallFacts
<1>3. ASSUME PingAnswered(c, node) PROVE LookInv'
  <2> DEFINE t == TableWith(buckets, Root, node)
  <2>1. /\ call' = [call EXCEPT ![c] = GoOn(s, t)]
        /\ buckets' = t /\ faults' = faults /\ up' = up /\ has' = has /\ RestOK'
        /\ s.phase \in {"pinging", "meeting"}
    BY <1>1, <1>2, <1>3 DEF PingAnswered, RestOK
  <2>2. TableOK(t, Root) /\ Learns(buckets, t) /\ Familiar(t, node.id)
    BY <1>1, TableGrows
  <2>3. faults = 0 => LookOK(s, t, has)
    BY <1>1, <2>2, CallFacts, LessLooks
  <2> HIDE DEF s, t
  <2>4. Typed(GoOn(s, t)) /\ GoOn(s, t).kind = Kind(c)
    BY <1>2, <2>2, GoOnTyped
  <2>5. faults = 0 => LookOK(GoOn(s, t), t, has)
    BY <1>2, <2>1, <2>2, <2>3, GoOnLooks
  <2>6. QED BY <2>1, <2>2, <2>4, <2>5, OneCallLooks
<1>4. ASSUME PingTimeout(c, node) PROVE LookInv'
  <2> DEFINE d == IF s.phase = "pinging" THEN Done(s, "rejected")
                  ELSE GoOn(s, buckets)
  <2>1. call' = [call EXCEPT ![c] = d] /\ buckets' = buckets
    BY <1>2, <1>4 DEF PingTimeout
  <2>2. faults' # 0 /\ faults' \in 0 .. MaxFaults
    BY <1>1, <1>4, Surely DEF PingTimeout
  <2>3. RestOK'
    BY <1>1, <1>4, <2>2 DEF PingTimeout, RestOK
  <2> HIDE DEF s
  <2>4. Typed(d) /\ d.kind = Kind(c)
    BY <1>1, <1>2, GoOnTyped, DoneTyped
  <2> HIDE DEF d
  <2>5. QED BY <1>1, <2>1, <2>2, <2>3, <2>4, OneCallLooks
<1>5. QED BY <1>3, <1>4

\* Whoever answers without the value names others, and did not have it before.
LEMMA AnsweredLooks ==
  ASSUME NEW s, Typed(s), s.phase = "asking", NEW t, LookOK(s, t, has),
         NEW node \in Peer
  PROVE  LookOK(Answered(s, node), t, has)
<1> DEFINE s1 == [s EXCEPT !.waiting   = @ \ {node},
                           !.responses = @ \cup {node.id}]
           d == [s1 EXCEPT !.holders = Append(@, node)]
           met == {Contact(id) : id \in Knows[node.id]}
           e == [s1 EXCEPT !.named = @ \cup met]
<1>1. /\ s1.phase = "asking" /\ s1.hadIt = s.hadIt /\ s1.kind = s.kind
      /\ s1.outcome = s.outcome /\ s1.closest = s.closest /\ s1.named = s.named
      /\ s1.responses = s.responses \cup {node.id} /\ s1.holders = s.holders
      /\ DOMAIN s1 = Fields
  BY DEF Typed, Progress, Fields
<1>2. Answered(s, node) = IF s.kind = "download" /\ node.id \in has THEN d ELSE e
  BY DEF Answered
<1> HIDE DEF s1
<1>3. LookOK(d, t, has)
  <2>1. /\ d.phase = "asking" /\ d.hadIt = s.hadIt /\ d.kind = s.kind
        /\ d.outcome = s.outcome /\ d.closest = s.closest
        /\ d.holders = Append(s.holders, node)
    BY <1>1 DEF Fields
  <2>2. Append(s.holders, node) # <<>>
    BY AppendProperties, EmptySeq DEF Typed
  <2> HIDE DEF d
  <2>3. QED BY <2>1, <2>2 DEF LookOK, Going, ReturnedOK, NotFoundOK
<1>4. CASE ~(s.kind = "download" /\ node.id \in has)
  <2>1. /\ e.phase = "asking" /\ e.hadIt = s.hadIt /\ e.kind = s.kind
        /\ e.outcome = s.outcome /\ e.closest = s.closest
        /\ e.holders = s.holders /\ e.responses = s.responses \cup {node.id}
        /\ e.named = s.named \cup met
    BY <1>1 DEF Fields
  <2> HIDE DEF e
  <2>2. Going(e, t, e.named)
    <3> SUFFICES ASSUME s.holders = <<>>
                 PROVE  /\ \A r \in e.responses : \A id \in Knows[r] :
                             Familiar(t, id) \/ Contact(id) \in e.named
                        /\ e.kind = "download" => e.responses \cap e.hadIt = {}
      BY <2>1 DEF Going
    <3>1. \A r \in s.responses : \A id \in Knows[r] :
            Familiar(t, id) \/ Contact(id) \in s.named
      BY DEF LookOK, Going
    <3>2. \A id \in Knows[node.id] : Contact(id) \in met
      OBVIOUS
    <3>3. s.kind = "download" => s.responses \cap s.hadIt = {}
      BY DEF LookOK, Going
    <3> HIDE DEF met
    <3>4. \A r \in e.responses : \A id \in Knows[r] :
            Familiar(t, id) \/ Contact(id) \in e.named
      BY <2>1, <3>1, <3>2
    <3>5. e.kind = "download" => e.responses \cap e.hadIt = {}
      BY <1>4, <2>1, <3>3 DEF LookOK
    <3>6. QED BY <3>4, <3>5
  <2>3. LookOK(e, t, has)
    BY <2>1, <2>2 DEF LookOK, ReturnedOK, NotFoundOK
  <2>4. QED BY <1>2, <1>4, <2>3
<1> HIDE DEF d, e
<1>5. QED BY <1>2, <1>3, <1>4

LEMMA FindLooks ==
  ASSUME LookInv, NEW c \in Call, NEW node \in call[c].waiting
  PROVE  /\ FindAnswered(c, node) => LookInv'
         /\ FindTimeout(c, node) => LookInv'
<1>1. /\ node \in Peer /\ node.id \in Others /\ node.id \in NodeId
      /\ Typed(call[c]) /\ RestOK /\ TableOK(buckets, Root)
      /\ DOMAIN call = Call
  BY CallFacts, TypedParts DEF LookInv
<1>2. ASSUME FindAnswered(c, node) PROVE LookInv'
  <2> DEFINE t == TableWith(buckets, Root, node)
             s == Answered(call[c], node)
  <2>1. /\ call' = [call EXCEPT ![c] = GoOn(s, t)]
        /\ buckets' = t /\ faults' = faults /\ up' = up /\ has' = has /\ RestOK'
        /\ call[c].phase = "asking"
    BY <1>1, <1>2 DEF FindAnswered, RestOK
  <2>2. TableOK(t, Root) /\ Learns(buckets, t)
    BY <1>1, TableGrows
  <2>3. Typed(s) /\ s.kind = Kind(c) /\ s.phase = "asking"
    BY <1>1, <2>1, AnsweredTyped, CallFacts
  <2>4. faults = 0 => LookOK(s, t, has)
    BY <1>1, <2>1, CallFacts, AnsweredLooks
  <2> HIDE DEF s, t
  <2>5. Typed(GoOn(s, t)) /\ GoOn(s, t).kind = Kind(c)
    BY <2>2, <2>3, GoOnTyped
  <2>6. faults = 0 => LookOK(GoOn(s, t), t, has)
    BY <2>2, <2>3, <2>4, GoOnLooks
  <2>7. QED BY <2>1, <2>2, <2>5, <2>6, OneCallLooks
<1>3. ASSUME FindTimeout(c, node) PROVE LookInv'
  <2> DEFINE t == TableWithout(buckets, Root, node.id)
             s == Less(call[c], node)
  <2>1. /\ s = [call[c] EXCEPT !.waiting = @ \ {node}] /\ Typed(s)
        /\ s.kind = Kind(c) /\ s.phase = call[c].phase
    BY <1>1, LessFacts, CallFacts
  <2>2. /\ call' = [call EXCEPT ![c] = GoOn(s, t)] /\ buckets' = t
        /\ up' = up /\ has' = has /\ s.phase = "asking"
    BY <1>3, <2>1 DEF FindTimeout
  <2>3. /\ faults' \in 0 .. MaxFaults
        /\ faults' = 0 => faults = 0 /\ Mute # {}
    BY <1>1, <1>3, Surely DEF FindTimeout
  <2>4. RestOK'
    BY <1>1, <1>3, <2>3 DEF FindTimeout, RestOK
  <2>5. TableOK(t, Root) /\ (Mute # {} => Learns(buckets, t))
    BY <1>1, TableShrinks
  <2>6. faults' = 0 => LookOK(s, t, has)
    <3> SUFFICES ASSUME faults' = 0 PROVE LookOK(s, t, has)
      OBVIOUS
    <3>1. LookOK(s, buckets, has)
      BY <1>1, <2>1, <2>2, <2>3, CallFacts, LessLooks
    <3>2. QED BY <2>1, <2>3, <2>5, <3>1, StillLooking DEF Learns
  <2> HIDE DEF s, t
  <2>7. Typed(GoOn(s, t)) /\ GoOn(s, t).kind = Kind(c)
    BY <2>1, <2>5, GoOnTyped
  <2>8. faults' = 0 => LookOK(GoOn(s, t), t, has)
    BY <2>1, <2>2, <2>5, <2>6, GoOnLooks
  <2>9. QED BY <2>2, <2>3, <2>4, <2>5, <2>7, <2>8, OneCallLooks
<1>4. QED BY <1>2, <1>3

\* A STORE is counted: what the lookup learnt stays.
LEMMA StoredLooks ==
  ASSUME LookInv, NEW c \in Call, NEW node \in call[c].waiting,
         call[c].phase = "storing", NEW good, NEW bad,
         good \subseteq Node, bad \subseteq Node,
         NEW STATE t, TableOK(t, Root), NEW STATE s,
         s = [call[c] EXCEPT !.waiting = @ \ {node}, !.success = good, !.fail = bad],
         call' = [call EXCEPT ![c] = GoOn(s, t)], buckets' = t, RestOK',
         faults' = 0 => /\ faults = 0 /\ up' = up /\ has' = has
                        /\ Learns(buckets, t)
  PROVE  LookInv'
<1>1. Typed(call[c]) /\ call[c].kind = Kind(c)
  BY CallFacts
<1>2. /\ Typed(s) /\ s.kind = Kind(c) /\ s.phase = "storing"
      /\ s.hadIt = call[c].hadIt /\ s.outcome = call[c].outcome
      /\ s.closest = call[c].closest /\ s.holders = call[c].holders
  BY <1>1 DEF Typed, Progress
<1>3. Typed(GoOn(s, t)) /\ GoOn(s, t).kind = Kind(c)
  BY <1>2, GoOnTyped
<1>4. ASSUME faults' = 0 PROVE LookOK(GoOn(s, t), t, has')
  <2>1. LookOK(call[c], t, has')
    BY <1>1, <1>4, CallFacts, StillLooking DEF Learns
  <2>2. LookOK(s, t, has')
    BY <1>1, <1>2, <2>1 DEF LookOK, ReturnedOK, NotFoundOK
  <2>3. QED BY <1>2, <2>2, GoOnLooks
<1>5. QED BY <1>3, <1>4, OneCallLooks

LEMMA StoreLooks ==
  ASSUME LookInv, NEW c \in Call, NEW node \in call[c].waiting
  PROVE  /\ \A kept \in BOOLEAN : StoreAnswered(c, node, kept) => LookInv'
         /\ StoreTimeout(c, node) => LookInv'
<1>1. /\ node \in Peer /\ node \in Node /\ node.id \in Others /\ node.id \in NodeId
      /\ Typed(call[c]) /\ RestOK /\ DOMAIN call = Call
      /\ call[c].success \subseteq Node /\ call[c].fail \subseteq Node
  BY CallFacts, TypedParts DEF LookInv, Typed, Progress
<1>2. ASSUME NEW kept \in BOOLEAN, StoreAnswered(c, node, kept) PROVE LookInv'
  <2> DEFINE t == TableWith(buckets, Root, node)
             good == IF kept THEN call[c].success \cup {node} ELSE call[c].success
             bad == IF kept THEN call[c].fail ELSE call[c].fail \cup {node}
             s == [call[c] EXCEPT !.waiting = @ \ {node},
                                  !.success = good, !.fail = bad]
  <2>1. /\ call' = [call EXCEPT ![c] = GoOn(s, t)]
        /\ buckets' = t /\ faults' = faults /\ up' = up /\ has' = has /\ RestOK'
        /\ call[c].phase = "storing"
    BY <1>1, <1>2 DEF StoreAnswered, RestOK
  <2>2. TableOK(t, Root) /\ Learns(buckets, t)
    BY <1>1, TableGrows
  <2>3. good \subseteq Node /\ bad \subseteq Node
    BY <1>1
  <2>4. s = [call[c] EXCEPT !.waiting = @ \ {node}, !.success = good, !.fail = bad]
    OBVIOUS
  <2> HIDE DEF good, bad, t, s
  <2>5. QED BY <2>1, <2>2, <2>3, <2>4, StoredLooks
<1>3. ASSUME StoreTimeout(c, node) PROVE LookInv'
  <2> DEFINE t == TableWithout(buckets, Root, node.id)
             good == call[c].success
             bad == call[c].fail \cup {node}
             s == Counted(call[c], node)
  <2>1. /\ call' = [call EXCEPT ![c] = GoOn(s, t)]
        /\ buckets' = t /\ call[c].phase = "storing"
    BY <1>1, <1>3 DEF StoreTimeout
  <2>2. faults' # 0 /\ faults' \in 0 .. MaxFaults
    BY <1>1, <1>3, Surely DEF StoreTimeout
  <2>3. RestOK'
    BY <1>1, <1>3, <2>2 DEF StoreTimeout, RestOK
  <2>4. TableOK(t, Root)
    BY <1>1, TableShrinks
  <2>5. good \subseteq Node /\ bad \subseteq Node
    BY <1>1
  <2>6. s = [call[c] EXCEPT !.waiting = @ \ {node}, !.success = good, !.fail = bad]
    BY <1>1 DEF Counted, Typed, Progress
  <2> HIDE DEF good, bad, t, s
  <2>7. QED BY <2>1, <2>2, <2>3, <2>4, <2>5, <2>6, StoredLooks
<1>4. QED BY <1>2, <1>3

LEMMA KeepLooks ==
  ASSUME LookInv, NEW c \in Call, NEW node \in Node, Keep(c, node)
  PROVE  LookInv'
<1>1. RestOK /\ TableOK(buckets, Root)
  BY CallFacts
<1>2. /\ call' = call /\ buckets' = buckets /\ up' = up /\ has \subseteq has'
      /\ faults' = 0 => faults = 0
  BY <1>1 DEF Keep, Fault, RestOK
<1>3. RestOK'
  <2>1. node.id \in NodeId /\ MaxFaults \in Nat
    BY DHTAssumption DEF Node
  <2>2. \A kept \in BOOLEAN : [call |-> c, node |-> node, kept |-> kept]
                                \in [call : Call, node : Node, kept : BOOLEAN]
    OBVIOUS
  <2>3. faults' \in 0 .. MaxFaults
    BY <1>1, <2>1 DEF Keep, Fault, RestOK
  <2>4. stores' \subseteq [call : Call, node : Node, kept : BOOLEAN]
    BY <1>1, <2>2 DEF Keep, RestOK
  <2>5. QED BY <1>1, <2>1, <2>3, <2>4 DEF Keep, RestOK
<1>4. QED BY <1>1, <1>2, <1>3, NoCallLooks DEF Learns

LEMMA FetchLooks ==
  ASSUME LookInv, NEW c \in Call
  PROVE  /\ Fetched(c) => LookInv'
         /\ FetchFails(c) => LookInv'
<1>1. /\ RestOK /\ TableOK(buckets, Root) /\ Typed(call[c])
      /\ call[c].kind = Kind(c) /\ DOMAIN call = Call
      /\ faults = 0 => up = Others /\ LookOK(call[c], buckets, has)
  BY CallFacts, TypedParts DEF LookInv
<1>2. ASSUME Fetched(c) PROVE LookInv'
  <2> DEFINE s == [call[c] EXCEPT !.holders = <<>>]
             d == [call[c] EXCEPT !.holders = <<>>, !.phase = "done",
                                  !.outcome = "resolved"]
  <2>1. /\ call' = [call EXCEPT ![c] = d] /\ buckets' = buckets
        /\ faults' = faults /\ up' = up /\ has' = has /\ RestOK'
    <3>1. Done(s, "resolved") = d
      BY <1>1 DEF Done, Typed, Progress
    <3>2. QED BY <1>1, <1>2, <3>1 DEF Fetched, RestOK
  <2>2. /\ Typed(d) /\ d.kind = Kind(c) /\ d.phase = "done"
        /\ d.outcome = "resolved" /\ d.closest = call[c].closest
        /\ d.hadIt = call[c].hadIt
    <3>1. <<>> \in Seq(Node) /\ <<>> \in Seq(Peer)
      OBVIOUS
    <3>2. QED BY <1>1, <3>1 DEF Typed, Progress
  <2> HIDE DEF d
  <2>3. faults = 0 => LookOK(d, buckets, has)
    BY <1>1, <2>2 DEF LookOK, ReturnedOK, NotFoundOK
  <2>4. QED BY <1>1, <2>1, <2>2, <2>3, OneCallLooks DEF Learns
<1>3. ASSUME FetchFails(c) PROVE LookInv'
  <2> DEFINE s == [call[c] EXCEPT !.holders = Front(@)]
             d == IF s.holders = <<>> THEN Done(s, "not found") ELSE s
  <2>1. call' = [call EXCEPT ![c] = d] /\ buckets' = buckets
    BY <1>3 DEF FetchFails
  <2>2. faults' # 0 /\ faults' \in 0 .. MaxFaults
    <3>1. Last(call[c].holders) \in Peer
      BY <1>1, <1>3, SeqFacts DEF FetchFails, Typed
    <3>2. Last(call[c].holders).id \in Others
      BY <3>1, PeerFacts
    <3>3. faults \in 0 .. MaxFaults /\ MaxFaults \in Nat
      BY <1>1, DHTAssumption DEF RestOK
    <3>4. \/ Last(call[c].holders).id \notin up /\ faults' = faults
          \/ faults < MaxFaults /\ faults' = faults + 1
      BY <1>3 DEF FetchFails, Fault
    <3>5. faults = 0 => up = Others
      BY <1>1
    <3>6. QED BY <3>2, <3>3, <3>4, <3>5
  <2>3. RestOK'
    BY <1>1, <1>3, <2>2 DEF FetchFails, RestOK
  <2>4. Typed(d) /\ d.kind = Kind(c)
    <3>1. Front(call[c].holders) \in Seq(Peer) /\ Front(call[c].holders) \in Seq(Node)
      BY <1>1, SeqFacts DEF Typed, Progress
    <3>2. /\ s \in Progress /\ s.kind = Kind(c)
          /\ s.holders = Front(call[c].holders)
          /\ s.waiting = call[c].waiting /\ s.named = call[c].named
          /\ s.closest = call[c].closest
      BY <1>1, <3>1 DEF Typed, Progress
    <3> HIDE DEF s
    <3>3. CASE s.holders # <<>>
      BY <1>1, <3>1, <3>2, <3>3 DEF Typed
    <3>4. CASE s.holders = <<>>
      <4>1. /\ Done(s, "not found") \in Progress
            /\ Done(s, "not found").kind = Kind(c)
            /\ Done(s, "not found").phase = "done"
            /\ Done(s, "not found").holders = s.holders
            /\ Done(s, "not found").waiting = s.waiting
            /\ Done(s, "not found").named = s.named
            /\ Done(s, "not found").closest = s.closest
        BY <3>2 DEF Done, Progress
      <4>2. Typed(Done(s, "not found"))
        BY <1>1, <3>1, <3>2, <4>1 DEF Typed
      <4>3. QED BY <3>4, <4>1, <4>2
    <3>5. QED BY <3>3, <3>4
  <2> HIDE DEF d
  <2>5. QED BY <1>1, <2>1, <2>2, <2>3, <2>4, OneCallLooks
<1>4. QED BY <1>2, <1>3

LEMMA ElseLooks ==
  ASSUME LookInv, NEW id \in Others
  PROVE  /\ Hear(id) => LookInv'
         /\ Forget(id) => LookInv'
         /\ Leave(id) => LookInv'
<1>1. /\ RestOK /\ TableOK(buckets, Root) /\ MaxFaults \in Nat
      /\ id \in NodeId /\ Contact(id) \in Peer
  BY TypedParts, PeerFacts, DHTAssumption DEF LookInv, Others
<1>2. ASSUME Hear(id) PROVE LookInv'
  <2> DEFINE t == TableWith(buckets, Root, Contact(id))
  <2>1. /\ call' = call /\ buckets' = t /\ faults' = faults /\ up' = up
        /\ has' = has /\ RestOK'
    BY <1>1, <1>2 DEF Hear, RestOK
  <2>2. TableOK(t, Root) /\ Learns(buckets, t)
    BY <1>1, TableGrows
  <2> HIDE DEF t
  <2>3. QED BY <2>1, <2>2, NoCallLooks
<1>3. ASSUME Forget(id) PROVE LookInv'
  <2> DEFINE t == TableWithout(buckets, Root, id)
  <2>1. faults' # 0 /\ faults' \in 0 .. MaxFaults
    BY <1>3, Surely DEF Forget
  <2>2. call' = call /\ buckets' = t /\ RestOK'
    BY <1>1, <1>3, <2>1 DEF Forget, RestOK
  <2>3. TableOK(t, Root)
    BY <1>1, TableShrinks
  <2> HIDE DEF t
  <2>4. QED BY <2>1, <2>2, <2>3, NoCallLooks
<1>4. ASSUME Leave(id) PROVE LookInv'
  <2>1. faults' # 0 /\ faults' \in 0 .. MaxFaults
    BY <1>1, <1>4 DEF Leave, Fault, RestOK
  <2>2. call' = call /\ buckets' = buckets /\ RestOK'
    BY <1>1, <1>4, <2>1 DEF Leave, RestOK
  <2>3. QED BY <1>1, <2>1, <2>2, NoCallLooks
<1>5. QED BY <1>2, <1>3, <1>4

LEMMA NextLooks == LookInv /\ [Next]_vars => LookInv'
<1> SUFFICES ASSUME LookInv, [Next]_vars PROVE LookInv'
  OBVIOUS
<1>1. CASE Bootstrap
  BY <1>1, BootstrapLooks
<1>2. CASE RefreshBuckets
  BY <1>2, RefreshLooks
<1>3. ASSUME NEW c \in Call, Begin(c) PROVE LookInv'
  BY <1>3, BeginLooks
<1>4. ASSUME NEW c \in Call, Settle(c) PROVE LookInv'
  BY <1>4, PingLooks, FindLooks, StoreLooks, FetchLooks DEF Settle
<1>5. ASSUME NEW c \in Call, NEW node \in Node, Keep(c, node) PROVE LookInv'
  BY <1>5, KeepLooks
<1>6. ASSUME NEW id \in Others, Hear(id) \/ Forget(id) \/ Leave(id)
      PROVE LookInv'
  BY <1>6, ElseLooks
<1>7. CASE UNCHANGED vars
  <2>1. RestOK /\ TableOK(buckets, Root)
    BY TypedParts DEF LookInv
  <2>2. /\ call' = call /\ buckets' = buckets /\ faults' = faults /\ up' = up
        /\ has' = has /\ RestOK'
    BY <1>7, <2>1 DEF vars, RestOK
  <2>3. QED BY <2>1, <2>2, NoCallLooks DEF Learns
<1>8. QED BY <1>1, <1>2, <1>3, <1>4, <1>5, <1>6, <1>7 DEF Next

\* The table, the calls and what they wait for are of their types.
THEOREM TypeCorrect == Spec => []TypeOK
<1>1. LookInv => TypeOK
  BY DEF LookInv, TypedInv
<1>2. QED BY <1>1, StartsLooking, NextLooks, PTL DEF Spec

\* A download that ends without the value was right, as long as nothing failed:
\* whoever the lookup returned has answered, and did not have it when the
\* download began (KademliaDHT.js, download and findClosestNodes).
THEOREM NotFoundCorrect == Spec => []NotFoundIsTrue
<1>1. LookInv => NotFoundIsTrue
  BY DEF LookInv, QuietInv, LookOK, NotFoundOK, NotFoundIsTrue
<1>2. QED BY <1>1, StartsLooking, NextLooks, PTL DEF Spec

\* As long as nothing failed the table knows whoever was named by a contact that
\* a lookup returned, or has no room for it, where all peers answer lookups. One
\* that does not is removed, also long after the lookup ended, and may leave room
\* where there was none.
THEOREM NobodyMissedCorrect ==
  ASSUME Mute = {}
  PROVE  Spec => []NobodyMissed
<1>1. LookInv => NobodyMissed
  <2> SUFFICES ASSUME LookInv, faults = 0, NEW c \in Call,
                      NEW x \in DOMAIN call[c].closest,
                      NEW id \in Knows[call[c].closest[x].id]
               PROVE  \/ GetNode(buckets, Root, id) # NoNode
                      \/ Len(buckets[BucketOf(Root, id)].nodes) = NodesPerBucket
    BY DEF NobodyMissed
  <2>1. Familiar(buckets, id)
    BY DEF LookInv, QuietInv, LookOK, ReturnedOK
  <2>2. QED BY <2>1 DEF Familiar, KnownOrFull, GetNode
<1>2. QED BY <1>1, StartsLooking, NextLooks, PTL DEF Spec

=============================================================================
