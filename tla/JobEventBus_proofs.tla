------------------------ MODULE JobEventBus_proofs ------------------------
(***************************************************************************)
(* Proofs about JobEventBus, for every number of sessions, subscribers,    *)
(* channels and events.                                                    *)
(***************************************************************************)
EXTENDS JobEventBus, TLAPS

\* What Publish appends is an event.
LEMMA EventTyped ==
  ASSUME TypeOK, NEW c \in Channel, NEW stage \in Stage
  PROVE  NextEvent(c, stage) \in Event
BY BusAssumption DEF TypeOK, NextEvent, Event

\* SetDefault keeps the dictionary and the set of channel objects typed.
LEMMA SetDefaultTyped ==
  ASSUME TypeOK, NEW s \in Session, NEW c \in Channel, SetDefault(s, c)
  PROVE  /\ channelOf' \in [Session -> Channels]
         /\ allocated' \in SUBSET Channel
BY DEF TypeOK, SetDefault, Channels

\* Feeding the listeners, with an event or the sentinel, keeps the queues typed.
LEMMA PutTyped ==
  ASSUME TypeOK, NEW c \in Channel, NEW x \in Event \cup {Sentinel},
         PutToListeners(c, x)
  PROVE  queue' \in [Subscriber -> Seq(Event \cup {Sentinel})]
BY DEF TypeOK, PutToListeners

\* A generator that ends keeps every variable typed.
LEMMA LeaveTyped ==
  ASSUME TypeOK, NEW u \in Subscriber, pc[u] # "idle", Leave(u)
  PROVE  TypeOK'
BY DEF TypeOK, Leave

\* Every variable keeps its type: in particular what a consumer is given are
\* always events, never the sentinel, although both travel in its queue.
THEOREM TypeCorrect == Spec => []TypeOK
<1>1. Init => TypeOK
  BY DEF Init, TypeOK, Channels
<1>2. TypeOK /\ [Next]_vars => TypeOK'
  <2> SUFFICES ASSUME TypeOK, [Next]_vars PROVE TypeOK'
    OBVIOUS
  <2>1. ASSUME NEW s \in Session, NEW stage \in Stage, Publish(s, stage)
        PROVE  TypeOK'
    <3>1. PICK c \in Channel : Publish(s, stage)!(c)
      BY <2>1 DEF Publish
    <3>2. NextEvent(c, stage) \in Event
      BY EventTyped
    <3>3. channelOf' \in [Session -> Channels] /\ allocated' \in SUBSET Channel
      BY <3>1, SetDefaultTyped
    <3>4. queue' \in [Subscriber -> Seq(Event \cup {Sentinel})]
      BY <3>1, <3>2, PutTyped
    <3>5. backlog' \in [Channel -> Seq(Event)]
      BY <3>1, <3>2 DEF TypeOK
    <3> QED BY <3>1, <3>3, <3>4, <3>5 DEF TypeOK
  <2>2. ASSUME NEW s \in Session, CleanupSession(s)
        PROVE  TypeOK'
    <3>1. channelOf[s] \in Channel
      BY <2>2 DEF TypeOK, CleanupSession, Channels
    <3>2. queue' \in [Subscriber -> Seq(Event \cup {Sentinel})]
      BY <2>2, <3>1, PutTyped DEF CleanupSession
    <3> QED BY <2>2, <3>2 DEF TypeOK, CleanupSession, Channels
  <2>3. ASSUME NEW u \in Subscriber, NEW s \in Session,
               NEW wantReplay \in BOOLEAN, NEW close \in BOOLEAN,
               Subscribe(u, s, wantReplay, close)
        PROVE  TypeOK'
    <3>1. PICK c \in Channel : Subscribe(u, s, wantReplay, close)!(c)
      BY <2>3 DEF Subscribe
    <3>2. channelOf' \in [Session -> Channels] /\ allocated' \in SUBSET Channel
      BY <3>1, SetDefaultTyped
    <3>3. SnapshotOf(c, wantReplay) \in Seq(Event)
      BY DEF TypeOK, SnapshotOf
    <3>4. /\ attached' \in [Subscriber -> Channels]
          /\ replay' \in [Subscriber -> BOOLEAN]
          /\ closeOnDone' \in [Subscriber -> BOOLEAN]
          /\ snap' \in [Subscriber -> Seq(Event)]
      BY <3>1, <3>3 DEF TypeOK, Channels
    <3>5. CASE SnapshotOf(c, wantReplay) # <<>>
      <4>1. backlog[c] \in Seq(Event) /\ backlog[c] # <<>>
        BY <3>5 DEF SnapshotOf, TypeOK
      <4>2. backlog[c][1] \in Event
        BY <4>1
      <4>3. /\ pc' = [pc EXCEPT ![u] = "replaying"]
            /\ received' = [received EXCEPT ![u] = Append(@, backlog[c][1])]
            /\ UNCHANGED <<listeners, joined, backlog, queue>>
            /\ attached' = [attached EXCEPT ![u] = c]
        BY <3>1, <3>5 DEF Yield
      <4>4. received' \in [Subscriber -> Seq(Event)]
        BY <4>2, <4>3 DEF TypeOK
      <4> QED BY <3>2, <3>4, <4>3, <4>4 DEF TypeOK
    <3>6. CASE SnapshotOf(c, wantReplay) = <<>>
      <4>1. /\ pc' = [pc EXCEPT ![u] = "live"]
            /\ listeners' = [listeners EXCEPT ![c] = @ \cup {u}]
            /\ joined' = [joined EXCEPT ![u] = Len(backlog[c])]
            /\ UNCHANGED <<received, backlog, queue>>
            /\ attached' = [attached EXCEPT ![u] = c]
        BY <3>1, <3>6 DEF Register
      <4> QED BY <3>2, <3>4, <4>1 DEF TypeOK
    <3> QED BY <3>5, <3>6
  <2>4. ASSUME NEW u \in Subscriber, ReplayNext(u)
        PROVE  TypeOK'
    <3>1. snap[u][Len(received[u]) + 1] \in Event
      BY <2>4 DEF ReplayNext, TypeOK
    <3> QED BY <2>4, <3>1 DEF ReplayNext, Yield, TypeOK, busVars
  <2>5. ASSUME NEW u \in Subscriber, ReplayDone(u)
        PROVE  TypeOK'
    BY <2>5 DEF ReplayDone, Register, TypeOK
  <2>6. ASSUME NEW u \in Subscriber, Deliver(u)
        PROVE  TypeOK'
    <3>1. /\ Head(queue[u]) \in Event
          /\ Tail(queue[u]) \in Seq(Event \cup {Sentinel})
      BY <2>6 DEF Deliver, TypeOK
    <3> QED BY <2>6, <3>1 DEF Deliver, Yield, TypeOK, busVars
  <2>7. ASSUME NEW u \in Subscriber,
               StopOnSentinel(u) \/ StopOnTerminal(u) \/ Cancel(u)
        PROVE  TypeOK'
    BY <2>7, LeaveTyped DEF StopOnSentinel, StopOnTerminal, Cancel
  <2>8. CASE UNCHANGED vars
    BY <2>8 DEF TypeOK, vars
  <2> QED BY <2>1, <2>2, <2>3, <2>4, <2>5, <2>6, <2>7, <2>8 DEF Next, Progress
<1> QED BY <1>1, <1>2, PTL DEF Spec

----------------------------------------------------------------------------
IInv == TypeOK /\ StreamInv /\ InOrderOnce /\ NothingAfterTerminal

SubInv(u) == IdleIsFresh(u) /\ ReplayExact(u) /\ LiveExact(u)

\* What dict.setdefault guarantees to its callers: the channel is the session's
\* own, no other session's, and one that nobody waits on when it is new.
LEMMA SetDefaultOwned ==
  ASSUME TypeOK, ChannelsOwned, NEW s \in Session, NEW c \in Channel,
         SetDefault(s, c)
  PROVE  /\ \A t \in Session : channelOf'[t] \in allocated' \cup {NoChannel}
         /\ \A t, r \in Session :
              t # r /\ channelOf'[t] = channelOf'[r] => channelOf'[t] = NoChannel
         /\ c \in allocated' /\ allocated \subseteq allocated'
         /\ \A d \in allocated : (\A t \in Session : channelOf[t] # d)
              => \A t \in Session : channelOf'[t] # d
BY BusAssumption DEF TypeOK, ChannelsOwned, SetDefault, Channels

\* What Append does to length and elements, once for all queues.
LEMMA AppendFacts ==
  ASSUME NEW S, NEW q \in Seq(S), NEW x \in S
  PROVE  /\ Append(q, x) \in Seq(S)
         /\ Len(q) \in Nat
         /\ Len(Append(q, x)) = Len(q) + 1
         /\ \A i \in 1..Len(q) : Append(q, x)[i] = q[i]
         /\ Append(q, x)[Len(q) + 1] = x
OBVIOUS

\* What Head and Tail do to length and elements, once for all queues.
LEMMA TailFacts ==
  ASSUME NEW S, NEW q \in Seq(S), q # <<>>
  PROVE  /\ Head(q) = q[1] /\ q[1] \in S
         /\ Tail(q) \in Seq(S)
         /\ Len(q) \in Nat /\ Len(q) > 0
         /\ Len(Tail(q)) = Len(q) - 1
         /\ \A i \in 1..Len(Tail(q)) : Tail(q)[i] = q[i + 1]
OBVIOUS

\* The lengths the invariant speaks of are natural numbers.
LEMMA Lengths ==
  ASSUME TypeOK, NEW u \in Subscriber
  PROVE  /\ Copied(u) \in Nat /\ Given(u) \in Nat
         /\ Waiting(u) \in Nat /\ joined[u] \in Nat
         /\ \A c \in Channel : Published(c) \in Nat
BY DEF TypeOK, Copied, Given, Waiting, Published

\* Publishing extends the backlog and every listener's queue by the same
\* event, so each stream stays exact.
LEMMA PublishStream ==
  ASSUME IInv, TypeOK', NEW s \in Session, NEW stage \in Stage,
         Publish(s, stage)
  PROVE  StreamInv'
<1>c. PICK c \in Channel : Publish(s, stage)!(c)
  BY DEF Publish
<1> DEFINE e == NextEvent(c, stage)
<1>0. /\ SetDefault(s, c)
      /\ backlog' = [backlog EXCEPT ![c] = Append(@, e)]
      /\ queue' = [u \in Subscriber |->
                     IF u \in listeners[c] THEN Append(queue[u], e) ELSE queue[u]]
      /\ UNCHANGED <<listeners, pc, attached, closeOnDone, replay, snap,
                     received, joined>>
  BY <1>c DEF PutToListeners
<1>1. /\ e \in Event /\ e.n = Published(c) + 1 /\ e # Sentinel
  BY EventTyped, BusAssumption DEF NextEvent, IInv, Published
<1> HIDE DEF e
<1>2. /\ backlog'[c] = Append(backlog[c], e)
      /\ Published(c)' = Published(c) + 1
      /\ \A i \in 1..Published(c) : backlog'[c][i] = backlog[c][i]
      /\ backlog'[c][Published(c) + 1] = e
      /\ \A d \in Channel \ {c} : backlog'[d] = backlog[d] /\ Published(d)' = Published(d)
  <2>1. backlog[c] \in Seq(Event) /\ backlog'[c] = Append(backlog[c], e)
    BY <1>0 DEF IInv, TypeOK
  <2>2. \A d \in Channel \ {c} : backlog'[d] = backlog[d]
    BY <1>0 DEF IInv, TypeOK
  <2> QED BY <2>1, <2>2, <1>1, AppendFacts DEF Published
<1>3. \A d \in Channel : Published(d) \in Nat
  BY DEF IInv, TypeOK, Published
<1>4. BacklogNumbered'
  <2> SUFFICES ASSUME NEW d \in Channel, NEW i \in 1..(Published(d)')
               PROVE  backlog'[d][i].n = i
    BY DEF BacklogNumbered
  <2>1. CASE d = c
    <3>1. i \in 1..Published(c) \/ i = Published(c) + 1
      BY <2>1, <1>2, <1>3
    <3> QED BY <2>1, <3>1, <1>1, <1>2 DEF IInv, StreamInv, BacklogNumbered
  <2>2. CASE d # c
    BY <2>2, <1>2 DEF IInv, StreamInv, BacklogNumbered
  <2> QED BY <2>1, <2>2
<1>5. ChannelsOwned'
  BY <1>0, SetDefaultOwned DEF IInv, StreamInv, ChannelsOwned
<1>6. ListenersAreLive'
  BY <1>0 DEF ListenersAreLive, IInv, StreamInv
<1>7. ASSUME NEW u \in Subscriber
      PROVE  SubInv(u)'
  <2>0. SubInv(u)
    BY DEF IInv, StreamInv, SubInv
  <2>1. /\ pc'[u] = pc[u] /\ attached'[u] = attached[u] /\ joined'[u] = joined[u]
        /\ received'[u] = received[u] /\ snap'[u] = snap[u]
        /\ Given(u)' = Given(u) /\ Copied(u)' = Copied(u)
        /\ \A i : Position(u, i)' = Position(u, i)
    BY <1>0 DEF Given, Copied, Position
  <2>2. /\ Copied(u) \in Nat /\ Given(u) \in Nat
        /\ Waiting(u) \in Nat /\ joined[u] \in Nat
    BY Lengths DEF IInv
  <2>3. CASE u \in listeners[c]
    <3>1. pc[u] = "live" /\ attached[u] = c
      BY <2>3 DEF IInv, StreamInv, ListenersAreLive
    <3>2. ~SentinelQueued(u)
      <4>1. c \in allocated
        BY <3>1 DEF IInv, StreamInv, ChannelsOwned
      <4>2. channelOf[s] = c
        BY <4>1, <1>0 DEF SetDefault
      <4> QED BY <4>2, <3>1, <2>0 DEF SubInv, LiveExact
    <3>3. /\ queue'[u] = Append(queue[u], e)
          /\ queue[u] \in Seq(Event \cup {Sentinel})
      BY <1>0, <2>3 DEF IInv, TypeOK
    <3>4. /\ Waiting(u)' = Waiting(u) + 1
          /\ \A i \in 1..Waiting(u) : queue'[u][i] = queue[u][i]
          /\ queue'[u][Waiting(u) + 1] = e
      BY <3>3, <1>1, AppendFacts DEF Waiting
    <3>5. ~SentinelQueued(u)'
      BY <3>4, <1>1 DEF SentinelQueued, Waiting
    <3>6. \A i \in 1..Waiting(u) : queue[u][i] # Sentinel
      <4> SUFFICES ASSUME NEW i \in 1..Waiting(u), queue[u][i] = Sentinel
                   PROVE  FALSE
        OBVIOUS
      <4>1. i = Waiting(u)
        BY <3>1, <2>0 DEF SubInv, LiveExact
      <4> QED BY <4>1, <3>2, <3>3 DEF SentinelQueued, Waiting
    <3>7. Published(c) + Copied(u) = joined[u] + Given(u) + Waiting(u)
      BY <3>1, <3>2, <2>0 DEF SubInv, LiveExact
    <3>8. e.n = joined[u] + Given(u) + (Waiting(u) + 1) - Copied(u)
      BY <3>7, <2>2, <1>1, <1>3
    <3>9. ASSUME NEW i \in 1..(Waiting(u)')
          PROVE  /\ queue'[u][i] # Sentinel
                 /\ queue'[u][i].n = joined[u] + Given(u) + i - Copied(u)
      <4>1. CASE i \in 1..Waiting(u)
        BY <4>1, <3>1, <3>4, <3>6, <2>0 DEF SubInv, LiveExact
      <4>2. CASE i = Waiting(u) + 1
        BY <4>2, <3>4, <3>8, <1>1
      <4> QED BY <4>1, <4>2, <3>4, <2>2
    <3>10. LiveExact(u)'
      <4>1. Published(c)' + Copied(u) = joined[u] + Given(u) + Waiting(u)'
        <5>1. Published(c) \in Nat /\ Published(c)' = Published(c) + 1
          BY <1>2, <1>3
        <5>2. Waiting(u)' = Waiting(u) + 1
          BY <3>4
        <5>3. (Published(c) + 1) + Copied(u) = joined[u] + Given(u) + (Waiting(u) + 1)
          BY <5>1, <3>7, <2>2
        <5> QED BY <5>1, <5>2, <5>3
      <4>2. /\ Copied(u) <= Given(u) /\ Copied(u) <= joined[u]
            /\ \A i \in 1..Given(u) : received[u][i].n = Position(u, i)
        BY <3>1, <2>0 DEF SubInv, LiveExact
      <4> QED BY <4>1, <4>2, <3>1, <3>5, <3>9, <2>1 DEF LiveExact
    <3> QED BY <3>1, <3>10, <2>1 DEF SubInv, IdleIsFresh, ReplayExact
  <2>4. CASE u \notin listeners[c]
    <3>1. /\ queue'[u] = queue[u] /\ Waiting(u)' = Waiting(u)
          /\ SentinelQueued(u)' = SentinelQueued(u)
      BY <2>4, <1>0 DEF Waiting, SentinelQueued
    <3>2. CASE pc[u] = "live"
      <4>1. attached[u] \in allocated /\ attached[u] # c /\ attached[u] \in Channel
        BY <2>4, <3>2 DEF IInv, StreamInv, ListenersAreLive, ChannelsOwned, TypeOK
      <4>2. Published(attached[u])' = Published(attached[u])
        BY <4>1, <2>1, <1>2 DEF Published
      <4>3. (\A t \in Session : channelOf[t] # attached[u])
              => \A t \in Session : channelOf'[t] # attached[u]
        BY <4>1, <1>0, SetDefaultOwned DEF IInv, StreamInv
      <4>4. LiveExact(u)'
        BY <3>1, <3>2, <4>2, <4>3, <2>0, <2>1 DEF SubInv, LiveExact
      <4> QED BY <3>2, <4>4, <2>1 DEF SubInv, IdleIsFresh, ReplayExact
    <3>3. CASE pc[u] = "replaying"
      <4>1. attached[u] \in Channel
        BY <3>3 DEF IInv, TypeOK
      <4>2. Published(attached[u]) <= Published(attached[u])'
        BY <4>1, <2>1, <1>2, <1>3 DEF Published
      <4>3. Copied(u) <= Published(attached[u])'
        BY <4>1, <4>2, <3>3, <2>0, <2>1, <2>2, <1>3, <1>2 DEF SubInv, ReplayExact
      <4> QED BY <3>1, <3>3, <4>3, <2>0, <2>1
              DEF SubInv, IdleIsFresh, ReplayExact, LiveExact
    <3>4. CASE pc[u] \notin {"live", "replaying"}
      BY <3>4, <3>1, <2>0, <2>1 DEF SubInv, IdleIsFresh, ReplayExact, LiveExact
    <3> QED BY <3>2, <3>3, <3>4
  <2> QED BY <2>3, <2>4
<1> QED BY <1>4, <1>5, <1>6, <1>7 DEF StreamInv, SubInv

\* A step that leaves a generator and its channel's backlog alone, and does not
\* put a dropped channel back, keeps what holds of the generator.
LEMMA FrameSub ==
  ASSUME NEW v \in Subscriber, SubInv(v),
         pc'[v] = pc[v], attached'[v] = attached[v], joined'[v] = joined[v],
         received'[v] = received[v], snap'[v] = snap[v], queue'[v] = queue[v],
         pc[v] \in {"replaying", "live"} =>
           backlog'[attached[v]] = backlog[attached[v]],
         pc[v] = "live" /\ (\A t \in Session : channelOf[t] # attached[v])
           => \A t \in Session : channelOf'[t] # attached[v]
  PROVE  SubInv(v)'
<1>1. /\ Given(v)' = Given(v) /\ Copied(v)' = Copied(v)
      /\ Waiting(v)' = Waiting(v) /\ SentinelQueued(v)' = SentinelQueued(v)
      /\ \A i : Position(v, i)' = Position(v, i)
  BY DEF Given, Copied, Waiting, SentinelQueued, Position
<1>2. pc[v] \in {"replaying", "live"} =>
        Published(attached[v])' = Published(attached[v])
  BY DEF Published
<1>3. IdleIsFresh(v)'
  BY DEF SubInv, IdleIsFresh
<1>4. ReplayExact(v)'
  BY <1>1, <1>2 DEF SubInv, ReplayExact
<1>5. LiveExact(v)'
  BY <1>1, <1>2 DEF SubInv, LiveExact
<1> QED BY <1>3, <1>4, <1>5 DEF SubInv

\* Yielding a later event than all yielded so far, to a consumer whose stream
\* has not ended, keeps the order and the end of the stream.
LEMMA YieldKeeps ==
  ASSUME TypeOK, InOrderOnce, NothingAfterTerminal,
         NEW u \in Subscriber, NEW x \in Event,
         received' = [received EXCEPT ![u] = Append(@, x)],
         UNCHANGED closeOnDone, ~Ended(u),
         \A i \in 1..Given(u) : received[u][i].n < x.n
  PROVE  InOrderOnce' /\ NothingAfterTerminal'
<1>1. /\ received[u] \in Seq(Event)
      /\ received'[u] = Append(received[u], x)
      /\ \A v \in Subscriber \ {u} : received'[v] = received[v]
  BY DEF TypeOK
<1>2. /\ Len(received[u]) \in Nat
      /\ Len(received'[u]) = Len(received[u]) + 1
      /\ \A i \in 1..Len(received[u]) : received'[u][i] = received[u][i]
      /\ received'[u][Len(received[u]) + 1] = x
  BY <1>1, AppendFacts
<1>3. InOrderOnce'
  <2> SUFFICES ASSUME NEW v \in Subscriber,
                      NEW i \in 1..Len(received'[v]), NEW j \in 1..Len(received'[v]),
                      i < j
               PROVE  received'[v][i].n < received'[v][j].n
    BY DEF InOrderOnce
  <2>1. CASE v # u
    BY <2>1, <1>1 DEF InOrderOnce
  <2>2. CASE v = u /\ j \in 1..Len(received[u])
    <3>1. i \in 1..Len(received[u])
      BY <2>2, <1>2
    <3> QED BY <2>2, <3>1, <1>2 DEF InOrderOnce
  <2>3. CASE v = u /\ j = Len(received[u]) + 1
    <3>1. i \in 1..Len(received[u])
      BY <2>3, <1>2
    <3> QED BY <2>3, <3>1, <1>2 DEF Given
  <2> QED BY <2>1, <2>2, <2>3, <1>2
<1>4. NothingAfterTerminal'
  <2> SUFFICES ASSUME NEW v \in Subscriber, NEW i \in 1..Len(received'[v]),
                      closeOnDone[v], received'[v][i].stage \in Terminal
               PROVE  i = Len(received'[v])
    BY DEF NothingAfterTerminal
  <2>1. CASE v # u
    BY <2>1, <1>1 DEF NothingAfterTerminal
  <2>2. CASE v = u /\ i \in 1..Len(received[u])
    <3>1. i = Len(received[u]) /\ received[u][i].stage \in Terminal
      BY <2>2, <1>2 DEF NothingAfterTerminal
    <3>2. received[u] # <<>>
      BY <3>1, <2>2, <1>1
    <3> QED BY <3>1, <3>2, <2>2 DEF Ended
  <2>3. CASE v = u /\ i = Len(received[u]) + 1
    BY <2>3, <1>2
  <2> QED BY <2>1, <2>2, <2>3, <1>2
<1> QED BY <1>3, <1>4

\* A generator that ends, for whatever reason, leaves the others exact.
LEMMA LeaveInv ==
  ASSUME IInv, NEW u \in Subscriber, pc[u] # "idle", Leave(u)
  PROVE  IInv'
<1>1. TypeOK'
  BY LeaveTyped DEF IInv
<1>2. /\ pc' = [pc EXCEPT ![u] = "closed"]
      /\ listeners' = [listeners EXCEPT ![attached[u]] = @ \ {u}]
      /\ UNCHANGED <<channelOf, allocated, backlog, attached, closeOnDone,
                     replay, snap, received, queue, joined>>
  BY DEF Leave
<1>3. pc'[u] = "closed" /\ \A v \in Subscriber \ {u} : pc'[v] = pc[v]
  BY <1>2 DEF IInv, TypeOK
<1>4. BacklogNumbered' /\ ChannelsOwned' /\ InOrderOnce' /\ NothingAfterTerminal'
  BY <1>2, <1>3 DEF IInv, StreamInv, BacklogNumbered, ChannelsOwned, Published,
     InOrderOnce, NothingAfterTerminal
<1>5. ListenersAreLive'
  <2>1. attached[u] \in Channel
    BY DEF IInv, TypeOK
  <2>2. \A c \in Channel :
          listeners'[c] = IF c = attached[u] THEN listeners[c] \ {u} ELSE listeners[c]
    BY <2>1, <1>2 DEF IInv, TypeOK
  <2> QED BY <2>1, <2>2, <1>2, <1>3 DEF IInv, StreamInv, ListenersAreLive
<1>6. ASSUME NEW v \in Subscriber
      PROVE  SubInv(v)'
  <2>1. CASE v = u
    BY <2>1, <1>3 DEF SubInv, IdleIsFresh, ReplayExact, LiveExact
  <2>2. CASE v # u
    BY <2>2, <1>2, <1>3, FrameSub DEF IInv, StreamInv, SubInv
  <2> QED BY <2>1, <2>2
<1> QED BY <1>1, <1>4, <1>5, <1>6 DEF IInv, StreamInv, SubInv

\* The sentinel of cleanup_session becomes the last element of every queue
\* of the dropped channel.
LEMMA CleanupStream ==
  ASSUME IInv, NEW s \in Session, CleanupSession(s)
  PROVE  StreamInv'
<1> DEFINE c == channelOf[s]
<1>1. /\ channelOf' = [channelOf EXCEPT ![s] = NoChannel]
      /\ queue' = [u \in Subscriber |-> IF u \in listeners[c]
                     THEN Append(queue[u], Sentinel) ELSE queue[u]]
      /\ UNCHANGED <<allocated, backlog, listeners, pc, attached, closeOnDone,
                     replay, snap, received, joined>>
  BY DEF CleanupSession, PutToListeners
<1>2. c \in Channel
  BY DEF CleanupSession, IInv, TypeOK, Channels
<1>3. \A t \in Session : channelOf'[t] = IF t = s THEN NoChannel ELSE channelOf[t]
  BY <1>1 DEF IInv, TypeOK
<1>4. \A t \in Session : channelOf'[t] # c
  BY <1>2, <1>3, BusAssumption DEF IInv, StreamInv, ChannelsOwned
<1> HIDE DEF c
<1>5. BacklogNumbered' /\ ListenersAreLive'
  BY <1>1 DEF IInv, StreamInv, BacklogNumbered, ListenersAreLive, Published
<1>6. ChannelsOwned'
  BY <1>1, <1>3 DEF IInv, StreamInv, ChannelsOwned
<1>7. ASSUME NEW u \in Subscriber
      PROVE  SubInv(u)'
  <2>0. SubInv(u)
    BY DEF IInv, StreamInv, SubInv
  <2>1. CASE u \in listeners[c]
    <3>1. pc[u] = "live" /\ attached[u] = c
      BY <2>1, <1>2 DEF IInv, StreamInv, ListenersAreLive
    <3>2. /\ pc'[u] = "live" /\ attached'[u] = c /\ joined'[u] = joined[u]
          /\ received'[u] = received[u]
          /\ Given(u)' = Given(u) /\ Copied(u)' = Copied(u)
          /\ \A i : Position(u, i)' = Position(u, i)
      BY <1>1, <3>1 DEF Given, Copied, Position
    <3>p. Published(attached[u])' = Published(attached[u])
      BY <1>1 DEF Published
    <3>3. /\ Copied(u) \in Nat /\ Given(u) \in Nat
          /\ Waiting(u) \in Nat /\ joined[u] \in Nat /\ Published(c) \in Nat
      BY <1>2, Lengths DEF IInv
    <3>4. /\ queue[u] \in Seq(Event \cup {Sentinel})
          /\ queue'[u] = Append(queue[u], Sentinel)
      BY <1>1, <2>1 DEF IInv, TypeOK
    <3>5. /\ Waiting(u)' = Waiting(u) + 1
          /\ \A i \in 1..Waiting(u) : queue'[u][i] = queue[u][i]
          /\ queue'[u][Waiting(u) + 1] = Sentinel
          /\ queue'[u] # <<>>
      BY <3>4, AppendFacts DEF Waiting
    <3>6. SentinelQueued(u)'
      BY <3>5 DEF SentinelQueued, Waiting
    <3>7. ~SentinelQueued(u)
      <4>1. \E t \in Session : channelOf[t] = c
        BY DEF c
      <4> QED BY <4>1, <3>1, <2>0 DEF SubInv, LiveExact
    <3>8. \A i \in 1..Waiting(u) : queue[u][i] # Sentinel
      <4> SUFFICES ASSUME NEW i \in 1..Waiting(u), queue[u][i] = Sentinel
                   PROVE  FALSE
        OBVIOUS
      <4>1. i = Waiting(u)
        BY <3>1, <2>0 DEF SubInv, LiveExact
      <4> QED BY <4>1, <3>7, <3>4 DEF SentinelQueued, Waiting
    <3>9. Published(c) + Copied(u) = joined[u] + Given(u) + Waiting(u)
      BY <3>1, <3>7, <2>0 DEF SubInv, LiveExact
    <3>10. Published(attached[u])' + Copied(u)' + 1 =
             joined'[u] + Given(u)' + Waiting(u)'
      <4>1. Published(c) + Copied(u) + 1 = joined[u] + Given(u) + (Waiting(u) + 1)
        BY <3>9, <3>3
      <4> QED BY <4>1, <3>1, <3>2, <3>5, <3>p
    <3>11. /\ \A i \in 1..Waiting(u) : queue[u][i].n = joined[u] + Given(u) + i - Copied(u)
           /\ Copied(u) <= Given(u) /\ Copied(u) <= joined[u]
           /\ \A i \in 1..Given(u) : received[u][i].n = Position(u, i)
      BY <3>1, <3>8, <2>0 DEF SubInv, LiveExact
    <3>12. \A i \in 1..(Waiting(u)') : i \in 1..Waiting(u) \/ i = Waiting(u) + 1
      BY <3>5, <3>3
    <3>13. LiveExact(u)'
      <4>1. ASSUME NEW i \in 1..(Waiting(u)')
            PROVE  /\ queue'[u][i] # Sentinel =>
                        queue'[u][i].n = joined[u] + Given(u) + i - Copied(u)
                   /\ queue'[u][i] = Sentinel => i = Waiting(u)'
        BY <3>5, <3>8, <3>11, <3>12
      <4> QED BY <4>1, <3>2, <3>6, <3>10, <3>11, <1>4 DEF LiveExact
    <3> QED BY <3>2, <3>13 DEF SubInv, IdleIsFresh, ReplayExact
  <2>2. CASE u \notin listeners[c]
    <3>1. pc[u] = "live" => attached[u] # NoChannel
      BY BusAssumption DEF IInv, TypeOK
    <3> QED BY <2>0, <2>2, <3>1, <1>1, <1>3, FrameSub
  <2> QED BY <2>1, <2>2
<1> QED BY <1>5, <1>6, <1>7 DEF StreamInv, SubInv

\* Yielding the next element of the copy keeps the invariant.
LEMMA ReplayNextInv ==
  ASSUME IInv, TypeOK', NEW u \in Subscriber, ReplayNext(u)
  PROVE  IInv'
<1> DEFINE x == snap[u][Len(received[u]) + 1]
<1>1. /\ pc[u] = "replaying" /\ ~Ended(u) /\ Given(u) < Copied(u)
      /\ received' = [received EXCEPT ![u] = Append(@, x)]
      /\ UNCHANGED <<channelOf, allocated, backlog, listeners, pc, attached,
                     closeOnDone, replay, snap, queue, joined>>
  BY DEF ReplayNext, Yield, busVars, Given, Copied
<1>2. /\ Copied(u) \in Nat /\ Given(u) \in Nat
      /\ received[u] \in Seq(Event) /\ snap[u] \in Seq(Event)
  BY Lengths DEF IInv, TypeOK
<1>3. SubInv(u)
  BY DEF IInv, StreamInv, SubInv
<1>4. x \in Event /\ x.n = Given(u) + 1
  <2>1. Given(u) + 1 \in 1..Copied(u)
    BY <1>1, <1>2
  <2> QED BY <2>1, <1>1, <1>2, <1>3 DEF SubInv, ReplayExact, Given, Copied
<1> HIDE DEF x
<1>5. \A i \in 1..Given(u) : received[u][i].n = i
  BY <1>1, <1>3 DEF SubInv, ReplayExact
<1>6. \A i \in 1..Given(u) : received[u][i].n < x.n
  BY <1>2, <1>4, <1>5
<1>7. InOrderOnce' /\ NothingAfterTerminal'
  BY <1>1, <1>4, <1>6, YieldKeeps DEF IInv
<1>8. BacklogNumbered' /\ ChannelsOwned' /\ ListenersAreLive'
  BY <1>1 DEF IInv, StreamInv, BacklogNumbered, ChannelsOwned, ListenersAreLive,
     Published
<1>9. ASSUME NEW v \in Subscriber
      PROVE  SubInv(v)'
  <2>1. CASE v = u
    <3>1. received'[u] = Append(received[u], x)
      BY <1>1 DEF IInv, TypeOK
    <3>2. /\ Given(u)' = Given(u) + 1
          /\ \A i \in 1..Given(u) : received'[u][i] = received[u][i]
          /\ received'[u][Given(u) + 1] = x
      BY <3>1, <1>2, <1>4, AppendFacts DEF Given
    <3>3. \A i \in 1..(Given(u)') : received'[u][i].n = i
      <4>1. \A i \in 1..(Given(u)') : i \in 1..Given(u) \/ i = Given(u) + 1
        BY <3>2, <1>2
      <4> QED BY <4>1, <3>2, <1>4, <1>5
    <3>4. Given(u)' \in 1..Copied(u)
      BY <3>2, <1>1, <1>2
    <3>5. /\ Copied(u)' = Copied(u) /\ pc'[u] = "replaying" /\ queue'[u] = queue[u]
          /\ snap'[u] = snap[u] /\ Published(attached[u])' = Published(attached[u])
      BY <1>1 DEF Copied, Published
    <3>6. ReplayExact(u)'
      <4>1. /\ queue[u] = <<>> /\ Copied(u) <= Published(attached[u])
            /\ \A i \in 1..Copied(u) : snap[u][i].n = i
        BY <1>1, <1>3 DEF SubInv, ReplayExact
      <4> QED BY <4>1, <3>3, <3>4, <3>5 DEF ReplayExact
    <3> QED BY <2>1, <3>5, <3>6 DEF SubInv, IdleIsFresh, LiveExact
  <2>2. CASE v # u
    <3>1. received'[v] = received[v]
      BY <2>2, <1>1 DEF IInv, TypeOK
    <3> QED BY <3>1, <1>1, FrameSub DEF IInv, StreamInv, SubInv
  <2> QED BY <2>1, <2>2
<1> QED BY <1>7, <1>8, <1>9 DEF IInv, StreamInv, SubInv

\* Registering u on c: everyone else's listeners stay, u becomes a live one.
LEMMA RegisterListeners ==
  ASSUME TypeOK, ListenersAreLive, NEW u \in Subscriber, NEW c \in Channel,
         Register(u, c), attached'[u] = c,
         \A v \in Subscriber \ {u} : attached'[v] = attached[v],
         pc[u] # "live"
  PROVE  ListenersAreLive'
<1>1. /\ \A d \in Channel :
           listeners'[d] = IF d = c THEN listeners[d] \cup {u} ELSE listeners[d]
      /\ pc'[u] = "live" /\ \A v \in Subscriber \ {u} : pc'[v] = pc[v]
  BY DEF Register, TypeOK
<1> SUFFICES ASSUME NEW d \in Channel, NEW v \in Subscriber
             PROVE  v \in listeners'[d] <=> pc'[v] = "live" /\ attached'[v] = d
  BY DEF ListenersAreLive
<1>2. CASE v = u
  BY <1>2, <1>1 DEF ListenersAreLive
<1>3. CASE v # u
  <2>0. v \in Subscriber \ {u}
    BY <1>3
  <2>1. pc'[v] = pc[v] /\ attached'[v] = attached[v]
    BY <2>0, <1>1
  <2>2. CASE d = c
    <3>1. listeners'[d] = listeners[d] \cup {u}
      BY <2>2, <1>1
    <3> QED BY <3>1, <1>3, <2>1 DEF ListenersAreLive
  <2>3. CASE d # c
    <3>1. listeners'[d] = listeners[d]
      BY <2>3, <1>1
    <3> QED BY <3>1, <2>1 DEF ListenersAreLive
  <2> QED BY <2>2, <2>3
<1> QED BY <1>2, <1>3

\* Registering after the copy was yielded keeps the invariant.
LEMMA ReplayDoneInv ==
  ASSUME IInv, TypeOK', NEW u \in Subscriber, ReplayDone(u)
  PROVE  IInv'
<1>1. /\ pc[u] = "replaying" /\ Given(u) = Copied(u)
      /\ Register(u, attached[u])
      /\ UNCHANGED <<channelOf, allocated, backlog, attached, closeOnDone,
                     replay, snap, received, queue>>
  BY DEF ReplayDone, Given, Copied
<1>2. /\ pc' = [pc EXCEPT ![u] = "live"]
      /\ joined' = [joined EXCEPT ![u] = Published(attached[u])]
  BY <1>1 DEF Register, Published
<1>3. /\ attached[u] \in Channel
      /\ Copied(u) \in Nat /\ Published(attached[u]) \in Nat
  BY <1>1, Lengths DEF IInv, TypeOK
<1>4. BacklogNumbered' /\ InOrderOnce' /\ NothingAfterTerminal'
  BY <1>1 DEF IInv, StreamInv, BacklogNumbered, InOrderOnce, NothingAfterTerminal,
     Published
<1>5. ChannelsOwned'
  BY <1>1, <1>2 DEF IInv, StreamInv, ChannelsOwned, TypeOK
<1>6. ListenersAreLive'
  BY <1>1, <1>3, RegisterListeners DEF IInv, StreamInv
<1>7. ASSUME NEW v \in Subscriber
      PROVE  SubInv(v)'
  <2>0. SubInv(v)
    BY DEF IInv, StreamInv, SubInv
  <2>1. CASE v = u
    <3>1. /\ pc'[u] = "live" /\ joined'[u] = Published(attached[u])
          /\ received'[u] = received[u] /\ queue'[u] = queue[u]
          /\ Given(u)' = Given(u) /\ Copied(u)' = Copied(u)
          /\ Published(attached[u])' = Published(attached[u])
      BY <1>1, <1>2 DEF IInv, TypeOK, Given, Copied, Published
    <3>2. /\ queue[u] = <<>>
          /\ Copied(u) <= Published(attached[u])
          /\ \A i \in 1..Given(u) : received[u][i].n = i
      BY <1>1, <2>0, <2>1 DEF SubInv, ReplayExact
    <3>3. Waiting(u)' = 0 /\ ~SentinelQueued(u)'
      BY <3>1, <3>2 DEF Waiting, SentinelQueued
    <3>4. \A i \in 1..(Given(u)') : Position(u, i)' = i
      BY <3>1, <1>1, <1>3 DEF Position
    <3>5. Published(attached[u])' + Copied(u)' =
            joined'[u] + Given(u)' + Waiting(u)'
      <4>1. Published(attached[u]) + Copied(u) = Published(attached[u]) + Given(u) + 0
        BY <1>1, <1>3
      <4> QED BY <4>1, <3>1, <3>3
    <3>6. /\ Copied(u)' <= Given(u)' /\ Copied(u)' <= joined'[u]
          /\ \A i \in 1..(Given(u)') : received'[u][i].n = Position(u, i)'
      BY <1>1, <1>3, <3>1, <3>2, <3>4
    <3>7. LiveExact(u)'
      BY <3>3, <3>5, <3>6 DEF LiveExact
    <3> QED BY <2>1, <3>1, <3>7 DEF SubInv, IdleIsFresh, ReplayExact
  <2>2. CASE v # u
    <3>1. pc'[v] = pc[v] /\ joined'[v] = joined[v]
      BY <2>2, <1>2 DEF IInv, TypeOK
    <3> QED BY <2>0, <3>1, <1>1, FrameSub
  <2> QED BY <2>1, <2>2
<1> QED BY <1>4, <1>5, <1>6, <1>7 DEF IInv, StreamInv, SubInv

\* Yielding the head of the queue keeps the invariant.
LEMMA DeliverInv ==
  ASSUME IInv, TypeOK', NEW u \in Subscriber, Deliver(u)
  PROVE  IInv'
<1> DEFINE x == Head(queue[u])
<1>1. /\ pc[u] = "live" /\ ~Ended(u) /\ queue[u] # <<>> /\ x # Sentinel
      /\ received' = [received EXCEPT ![u] = Append(@, x)]
      /\ queue' = [queue EXCEPT ![u] = Tail(@)]
      /\ UNCHANGED <<channelOf, allocated, backlog, listeners, pc, attached,
                     closeOnDone, replay, snap, joined>>
  BY DEF Deliver, Yield, busVars
<1>2. /\ received[u] \in Seq(Event) /\ queue[u] \in Seq(Event \cup {Sentinel})
      /\ received'[u] = Append(received[u], x) /\ queue'[u] = Tail(queue[u])
  BY <1>1 DEF IInv, TypeOK
<1>3. /\ Copied(u) \in Nat /\ Given(u) \in Nat /\ Waiting(u) \in Nat
      /\ joined[u] \in Nat
  BY Lengths DEF IInv
<1>4. SubInv(u)
  BY DEF IInv, StreamInv, SubInv
<1>5. /\ x = queue[u][1] /\ x \in Event
      /\ Waiting(u) > 0 /\ Waiting(u)' = Waiting(u) - 1
      /\ \A i \in 1..(Waiting(u)') : queue'[u][i] = queue[u][i + 1]
      /\ queue'[u] \in Seq(Event \cup {Sentinel})
  <2>1. /\ Head(queue[u]) = queue[u][1]
        /\ queue[u][1] \in Event \cup {Sentinel}
        /\ Tail(queue[u]) \in Seq(Event \cup {Sentinel})
        /\ Len(queue[u]) \in Nat /\ Len(queue[u]) > 0
        /\ Len(Tail(queue[u])) = Len(queue[u]) - 1
        /\ \A i \in 1..Len(Tail(queue[u])) : Tail(queue[u])[i] = queue[u][i + 1]
    BY <1>1, <1>2, TailFacts
  <2> QED BY <2>1, <1>1, <1>2 DEF Waiting
<1> HIDE DEF x
<1>6. /\ Given(u)' = Given(u) + 1
      /\ \A i \in 1..Given(u) : received'[u][i] = received[u][i]
      /\ received'[u][Given(u) + 1] = x
  BY <1>2, <1>5, AppendFacts DEF Given
<1>7. /\ Copied(u) <= Given(u) /\ Copied(u) <= joined[u]
      /\ \A i \in 1..Given(u) : received[u][i].n = Position(u, i)
  BY <1>1, <1>4 DEF SubInv, LiveExact
<1>8. x.n = joined[u] + Given(u) + 1 - Copied(u)
  <2>1. 1 \in 1..Waiting(u)
    BY <1>3, <1>5
  <2> QED BY <2>1, <1>1, <1>4, <1>5 DEF SubInv, LiveExact
<1>9. \A i \in 1..Given(u) : received[u][i].n < x.n
  BY <1>3, <1>7, <1>8 DEF Position
<1>10. InOrderOnce' /\ NothingAfterTerminal'
  BY <1>1, <1>5, <1>9, YieldKeeps DEF IInv
<1>11. BacklogNumbered' /\ ChannelsOwned' /\ ListenersAreLive'
  BY <1>1 DEF IInv, StreamInv, BacklogNumbered, ChannelsOwned, ListenersAreLive,
     Published
<1>12. ASSUME NEW v \in Subscriber
       PROVE  SubInv(v)'
  <2>1. CASE v = u
    <3>1. /\ pc'[u] = "live" /\ joined'[u] = joined[u] /\ Copied(u)' = Copied(u)
          /\ Published(attached[u])' = Published(attached[u])
          /\ \A i : Position(u, i)' = Position(u, i)
      BY <1>1 DEF Copied, Published, Position
    <3>2. \A i \in 1..(Given(u)') : received'[u][i].n = Position(u, i)'
      <4>1. Position(u, Given(u) + 1) = joined[u] + Given(u) + 1 - Copied(u)
        BY <1>3, <1>7 DEF Position
      <4>2. \A i \in 1..(Given(u)') : i \in 1..Given(u) \/ i = Given(u) + 1
        BY <1>3, <1>6
      <4> QED BY <4>1, <4>2, <3>1, <1>6, <1>7, <1>8
    <3>3. ASSUME NEW i \in 1..(Waiting(u)')
          PROVE  /\ queue'[u][i] # Sentinel =>
                      queue'[u][i].n = joined[u] + Given(u)' + i - Copied(u)
                 /\ queue'[u][i] = Sentinel => i = Waiting(u)'
      <4>1. i + 1 \in 1..Waiting(u) /\ queue'[u][i] = queue[u][i + 1] /\ i \in Nat
        BY <1>3, <1>5
      <4>2. /\ queue[u][i + 1] # Sentinel =>
                 queue[u][i + 1].n = joined[u] + Given(u) + (i + 1) - Copied(u)
            /\ queue[u][i + 1] = Sentinel => i + 1 = Waiting(u)
        BY <4>1, <1>1, <1>4 DEF SubInv, LiveExact
      <4>3. joined[u] + Given(u) + (i + 1) - Copied(u) =
              joined[u] + (Given(u) + 1) + i - Copied(u)
        BY <4>1, <1>3
      <4>4. i + 1 = Waiting(u) => i = Waiting(u) - 1
        BY <4>1, <1>3
      <4> QED BY <4>1, <4>2, <4>3, <4>4, <1>5, <1>6
    <3>4. SentinelQueued(u)' <=> SentinelQueued(u)
      <4>1. CASE Waiting(u) = 1
        <5>0. Len(queue'[u]) = 0
          BY <4>1, <1>5 DEF Waiting
        <5>1. queue'[u] = <<>>
          BY <5>0, <1>5
        <5> QED BY <5>1, <4>1, <1>1, <1>5 DEF SentinelQueued, Waiting
      <4>2. CASE Waiting(u) > 1
        <5>1. /\ Waiting(u) - 1 \in 1..(Waiting(u)')
              /\ queue'[u][Waiting(u)'] = queue[u][Waiting(u)]
              /\ Waiting(u)' # 0
          BY <4>2, <1>3, <1>5
        <5>2. queue'[u] # <<>>
          BY <5>1 DEF Waiting
        <5> QED BY <5>1, <5>2, <1>1 DEF SentinelQueued, Waiting
      <4> QED BY <4>1, <4>2, <1>3, <1>5
    <3>5. joined[u] + Given(u)' + Waiting(u)' = joined[u] + Given(u) + Waiting(u)
      <4>1. joined[u] + (Given(u) + 1) + (Waiting(u) - 1) =
              joined[u] + Given(u) + Waiting(u)
        BY <1>3
      <4> QED BY <4>1, <1>5, <1>6
    <3>6. Copied(u) <= Given(u)'
      BY <1>3, <1>6, <1>7
    <3>7. LiveExact(u)'
      <4>1. /\ SentinelQueued(u) =>
                 /\ \A s \in Session : channelOf'[s] # attached'[u]
                 /\ Published(attached[u]) + Copied(u) + 1 =
                      joined[u] + Given(u) + Waiting(u)
            /\ ~SentinelQueued(u) =>
                 Published(attached[u]) + Copied(u) =
                   joined[u] + Given(u) + Waiting(u)
        BY <1>1, <1>4 DEF SubInv, LiveExact
      <4> QED BY <4>1, <3>1, <3>2, <3>3, <3>4, <3>5, <3>6, <1>7 DEF LiveExact
    <3> QED BY <2>1, <3>1, <3>7 DEF SubInv, IdleIsFresh, ReplayExact
  <2>2. CASE v # u
    <3>1. received'[v] = received[v] /\ queue'[v] = queue[v]
      BY <2>2, <1>1 DEF IInv, TypeOK
    <3> QED BY <3>1, <1>1, FrameSub DEF IInv, StreamInv, SubInv
  <2> QED BY <2>1, <2>2
<1> QED BY <1>10, <1>11, <1>12 DEF IInv, StreamInv, SubInv

\* Starting a generator, with or without anything to replay, keeps the
\* invariant.
LEMMA SubscribeInv ==
  ASSUME IInv, TypeOK', NEW u \in Subscriber, NEW s \in Session,
         NEW wantReplay \in BOOLEAN, NEW close \in BOOLEAN,
         Subscribe(u, s, wantReplay, close)
  PROVE  IInv'
<1>c. PICK c \in Channel : Subscribe(u, s, wantReplay, close)!(c)
  BY DEF Subscribe
<1> DEFINE copy == SnapshotOf(c, wantReplay)
<1>1. /\ pc[u] = "idle" /\ SetDefault(s, c)
      /\ attached' = [attached EXCEPT ![u] = c]
      /\ closeOnDone' = [closeOnDone EXCEPT ![u] = close]
      /\ snap' = [snap EXCEPT ![u] = copy]
      /\ UNCHANGED <<backlog, queue>>
  BY <1>c
<1>2. \/ /\ copy # <<>>
         /\ pc' = [pc EXCEPT ![u] = "replaying"]
         /\ received' = [received EXCEPT ![u] = Append(@, backlog[c][1])]
         /\ UNCHANGED <<listeners, joined>>
      \/ /\ copy = <<>>
         /\ Register(u, c)
         /\ UNCHANGED received
  BY <1>c DEF Yield
<1>3. /\ received[u] = <<>> /\ queue[u] = <<>> /\ copy \in Seq(Event)
      /\ copy # <<>> => copy = backlog[c]
      /\ backlog[c] \in Seq(Event)
  BY <1>1 DEF IInv, StreamInv, IdleIsFresh, SnapshotOf, TypeOK
<1>4. /\ attached'[u] = c /\ snap'[u] = copy /\ queue'[u] = <<>>
      /\ \A v \in Subscriber \ {u} :
           /\ attached'[v] = attached[v] /\ snap'[v] = snap[v]
           /\ closeOnDone'[v] = closeOnDone[v]
  BY <1>1, <1>3 DEF IInv, TypeOK
<1> HIDE DEF copy
<1>5. \A v \in Subscriber \ {u} :
        pc'[v] = pc[v] /\ received'[v] = received[v] /\ joined'[v] = joined[v]
  BY <1>2 DEF Register, IInv, TypeOK
<1>6. /\ pc'[u] \in {"replaying", "live"}
      /\ Len(received'[u]) \in {0, 1}
  <2>1. CASE copy # <<>>
    <3>1. received'[u] = Append(<<>>, backlog[c][1]) /\ pc'[u] = "replaying"
      BY <2>1, <1>2, <1>3 DEF IInv, TypeOK
    <3> QED BY <3>1
  <2>2. CASE copy = <<>>
    BY <2>2, <1>2, <1>3 DEF Register, IInv, TypeOK
  <2> QED BY <2>1, <2>2
<1>7. InOrderOnce'
  <2> SUFFICES ASSUME NEW v \in Subscriber,
                      NEW i \in 1..Len(received'[v]), NEW j \in 1..Len(received'[v]),
                      i < j
               PROVE  received'[v][i].n < received'[v][j].n
    BY DEF InOrderOnce
  <2>1. CASE v = u
    BY <2>1, <1>6
  <2>2. CASE v # u
    BY <2>2, <1>5 DEF IInv, InOrderOnce
  <2> QED BY <2>1, <2>2
<1>8. NothingAfterTerminal'
  <2> SUFFICES ASSUME NEW v \in Subscriber, NEW i \in 1..Len(received'[v]),
                      closeOnDone'[v], received'[v][i].stage \in Terminal
               PROVE  i = Len(received'[v])
    BY DEF NothingAfterTerminal
  <2>1. CASE v = u
    <3>1. i \in 1..Len(received'[u])
      BY <2>1
    <3>2. Len(received'[u]) = 1
      BY <3>1, <1>6
    <3> QED BY <2>1, <3>1, <3>2
  <2>2. CASE v # u
    BY <2>2, <1>4, <1>5 DEF IInv, NothingAfterTerminal
  <2> QED BY <2>1, <2>2
<1>9. BacklogNumbered'
  BY <1>1 DEF IInv, StreamInv, BacklogNumbered, Published
<1>10. ChannelsOwned'
  <2>1. /\ \A t \in Session : channelOf'[t] \in allocated' \cup {NoChannel}
        /\ \A t, r \in Session :
             t # r /\ channelOf'[t] = channelOf'[r] => channelOf'[t] = NoChannel
        /\ c \in allocated' /\ allocated \subseteq allocated'
    BY <1>1, SetDefaultOwned DEF IInv, StreamInv
  <2>2. ASSUME NEW v \in Subscriber, pc'[v] # "idle"
        PROVE  attached'[v] \in allocated'
    <3>1. CASE v = u
      BY <3>1, <2>1, <1>4
    <3>2. CASE v # u
      BY <3>2, <2>1, <2>2, <1>4, <1>5 DEF IInv, StreamInv, ChannelsOwned
    <3> QED BY <3>1, <3>2
  <2> QED BY <2>1, <2>2 DEF ChannelsOwned
<1>11. ListenersAreLive'
  <2>1. CASE copy # <<>>
    <3>1. listeners' = listeners /\ pc'[u] = "replaying"
      BY <2>1, <1>2 DEF IInv, TypeOK
    <3> SUFFICES ASSUME NEW d \in Channel, NEW v \in Subscriber
                 PROVE  v \in listeners'[d] <=> pc'[v] = "live" /\ attached'[v] = d
      BY DEF ListenersAreLive
    <3>2. CASE v = u
      BY <3>1, <3>2, <1>1 DEF IInv, StreamInv, ListenersAreLive
    <3>3. CASE v # u
      BY <3>1, <3>3, <1>4, <1>5 DEF IInv, StreamInv, ListenersAreLive
    <3> QED BY <3>2, <3>3
  <2>2. CASE copy = <<>>
    BY <2>2, <1>1, <1>2, <1>4, RegisterListeners DEF IInv, StreamInv
  <2> QED BY <2>1, <2>2
<1>12. SubInv(u)'
  <2>1. CASE copy # <<>>
    <3>1. /\ pc'[u] = "replaying"
          /\ received'[u] = Append(<<>>, backlog[c][1])
          /\ copy = backlog[c] /\ Len(backlog[c]) > 0 /\ Len(backlog[c]) \in Nat
      BY <2>1, <1>2, <1>3 DEF IInv, TypeOK
    <3>2. Given(u)' = 1 /\ received'[u][1] = backlog[c][1]
      BY <3>1 DEF Given
    <3>3. /\ Copied(u)' = Published(c) /\ Published(attached[u])' = Published(c)
          /\ snap'[u] = backlog[c]
      BY <3>1, <1>1, <1>4 DEF Copied, Published
    <3>4. Published(c) \in Nat /\ Published(c) > 0
      BY <3>1 DEF Published
    <3>5. \A i \in 1..Published(c) : backlog[c][i].n = i
      BY DEF IInv, StreamInv, BacklogNumbered
    <3>6. ReplayExact(u)'
      <4>1. Given(u)' \in 1..(Copied(u)')
        BY <3>2, <3>3, <3>4
      <4>2. \A i \in 1..(Given(u)') : received'[u][i].n = i
        BY <3>2, <3>4, <3>5
      <4>3. Copied(u)' <= Published(attached[u])'
        BY <3>3, <3>4
      <4> QED BY <4>1, <4>2, <4>3, <3>3, <3>5, <1>4 DEF ReplayExact
    <3> QED BY <3>1, <3>6 DEF SubInv, IdleIsFresh, LiveExact
  <2>2. CASE copy = <<>>
    <3>1. /\ pc'[u] = "live" /\ received'[u] = <<>> /\ joined'[u] = Published(c)
          /\ Published(attached[u])' = Published(c) /\ Published(c) \in Nat
      BY <2>2, <1>1, <1>2, <1>3, <1>4 DEF Register, IInv, TypeOK, Published
    <3>2. Given(u)' = 0 /\ Copied(u)' = 0 /\ Waiting(u)' = 0 /\ ~SentinelQueued(u)'
      BY <3>1, <2>2, <1>4 DEF Given, Copied, Waiting, SentinelQueued
    <3>3. LiveExact(u)'
      <4>1. /\ Published(attached[u])' + Copied(u)' =
                 joined'[u] + Given(u)' + Waiting(u)'
            /\ Copied(u)' <= Given(u)' /\ Copied(u)' <= joined'[u]
        BY <3>1, <3>2
      <4> QED BY <4>1, <3>2 DEF LiveExact
    <3> QED BY <3>1, <3>3 DEF SubInv, IdleIsFresh, ReplayExact
  <2> QED BY <2>1, <2>2
<1>13. ASSUME NEW v \in Subscriber, v # u
       PROVE  SubInv(v)'
  <2>1. SubInv(v)
    BY DEF IInv, StreamInv, SubInv
  <2>2. /\ pc'[v] = pc[v] /\ attached'[v] = attached[v] /\ joined'[v] = joined[v]
        /\ received'[v] = received[v] /\ snap'[v] = snap[v] /\ queue'[v] = queue[v]
    BY <1>1, <1>4, <1>5, <1>13
  <2>3. pc[v] = "live" /\ (\A t \in Session : channelOf[t] # attached[v])
          => \A t \in Session : channelOf'[t] # attached[v]
    BY <1>1, SetDefaultOwned DEF IInv, StreamInv, ChannelsOwned
  <2> QED BY <2>1, <2>2, <2>3, <1>1, FrameSub
<1> QED BY <1>7, <1>8, <1>9, <1>10, <1>11, <1>12, <1>13 DEF IInv, StreamInv, SubInv

\* The publisher's two operations keep the invariant.
LEMMA PublishInv ==
  ASSUME IInv, TypeOK', NEW s \in Session,
         (\E stage \in Stage : Publish(s, stage)) \/ CleanupSession(s)
  PROVE  IInv'
<1>1. StreamInv'
  BY PublishStream, CleanupStream
<1>2. UNCHANGED <<received, closeOnDone>>
  BY DEF Publish, CleanupSession
<1> QED BY <1>1, <1>2 DEF IInv, InOrderOnce, NothingAfterTerminal

\* A step that changes nothing keeps the invariant.
LEMMA StutterInv ==
  ASSUME IInv, UNCHANGED vars
  PROVE  IInv'
BY DEF IInv, vars, TypeOK, StreamInv, InOrderOnce, NothingAfterTerminal,
   BacklogNumbered, ChannelsOwned, ListenersAreLive, IdleIsFresh, ReplayExact,
   LiveExact, SentinelQueued, Position, Published, Copied, Given, Waiting

\* The invariant holds in the initial state.
LEMMA InitInv == Init => IInv
<1> SUFFICES ASSUME Init PROVE IInv
  OBVIOUS
<1>1. TypeOK
  BY DEF Init, TypeOK, Channels
<1>2. StreamInv
  BY DEF Init, StreamInv, BacklogNumbered, ChannelsOwned, ListenersAreLive,
     IdleIsFresh, ReplayExact, LiveExact, Published
<1>3. InOrderOnce /\ NothingAfterTerminal
  BY DEF Init, InOrderOnce, NothingAfterTerminal
<1> QED BY <1>1, <1>2, <1>3 DEF IInv

\* The bus keeps its bookkeeping exact, whatever publishers, subscribers and
\* clean-ups do and however their steps interleave.
LEMMA Inductive == Spec => []IInv
<1>1. TypeOK' /\ IInv /\ [Next]_vars => IInv'
  <2> SUFFICES ASSUME TypeOK', IInv, [Next]_vars PROVE IInv'
    OBVIOUS
  <2>1. ASSUME NEW s \in Session,
               (\E stage \in Stage : Publish(s, stage)) \/ CleanupSession(s)
        PROVE  IInv'
    BY <2>1, PublishInv
  <2>2. ASSUME NEW u \in Subscriber,
               \E s \in Session, wantReplay, close \in BOOLEAN :
                 Subscribe(u, s, wantReplay, close)
        PROVE  IInv'
    BY <2>2, SubscribeInv
  <2>3. ASSUME NEW u \in Subscriber, Progress(u) \/ Cancel(u)
        PROVE  IInv'
    <3>1. CASE ReplayNext(u) \/ ReplayDone(u) \/ Deliver(u)
      BY <3>1, ReplayNextInv, ReplayDoneInv, DeliverInv
    <3>2. CASE StopOnSentinel(u) \/ StopOnTerminal(u) \/ Cancel(u)
      <4>1. pc[u] # "idle" /\ Leave(u)
        BY <3>2 DEF StopOnSentinel, StopOnTerminal, Cancel
      <4> QED BY <4>1, LeaveInv
    <3> QED BY <2>3, <3>1, <3>2 DEF Progress
  <2>4. CASE UNCHANGED vars
    BY <2>4, StutterInv
  <2> QED BY <2>1, <2>2, <2>3, <2>4 DEF Next
<1> QED BY <1>1, InitInv, TypeCorrect, PTL DEF Spec

\* At every point of a stream the backlog, the copy, the queue and what was
\* yielded fit together exactly (event_bus.py:80-101).
THEOREM StreamCorrect == Spec => []StreamInv
<1>1. IInv => StreamInv
  BY DEF IInv
<1> QED BY <1>1, Inductive, PTL

\* Order, uniqueness and the end of a stream, for any number of subscribers.
THEOREM DeliveryCorrect ==
  Spec => [](InOrderOnce /\ NothingAfterTerminal /\ ListenersAreLive)
<1>1. IInv => InOrderOnce /\ NothingAfterTerminal /\ ListenersAreLive
  BY DEF IInv, StreamInv
<1> QED BY <1>1, Inductive, PTL

\* A generator that ended, however it ended, is not fed any more, and one that
\* waits always is (event_bus.py:100-101).
THEOREM ListenersCorrect == Spec => []ListenersAreLive
BY DeliveryCorrect, PTL

\* The terminal event is the last thing a closing consumer gets
\* (event_bus.py:86-87, 98-99).
THEOREM TerminalIsLast == Spec => []NothingAfterTerminal
BY DeliveryCorrect, PTL

\* A registered listener misses the events published while it replayed the old
\* ones and no others.
THEOREM MissedExactly == Spec => []MissedOnlyBeforeJoining
<1>1. ASSUME IInv PROVE MissedOnlyBeforeJoining
  <2> SUFFICES ASSUME NEW u \in Subscriber, pc[u] = "live"
               PROVE  Missed(u) = (Copied(u) + 1)..joined[u]
    BY DEF MissedOnlyBeforeJoining
  <2>1. LiveExact(u)
    BY <1>1 DEF IInv, StreamInv
  <2>2. /\ Copied(u) \in Nat /\ Given(u) \in Nat /\ Waiting(u) \in Nat
        /\ joined[u] \in Nat /\ Published(attached[u]) \in Nat
    BY <1>1, Lengths DEF IInv, TypeOK
  <2>3. /\ Copied(u) <= Given(u) /\ Copied(u) <= joined[u]
        /\ \A i \in 1..Given(u) : received[u][i].n = Position(u, i)
        /\ \A i \in 1..Waiting(u) : queue[u][i] # Sentinel =>
             queue[u][i].n = joined[u] + Given(u) + i - Copied(u)
        /\ \A i \in 1..Waiting(u) : queue[u][i] = Sentinel => i = Waiting(u)
    BY <2>1 DEF LiveExact
  <2>4. /\ SentinelQueued(u) => /\ Waiting(u) > 0
                                /\ Published(attached[u]) + Copied(u) + 1 =
                                     joined[u] + Given(u) + Waiting(u)
        /\ ~SentinelQueued(u) => Published(attached[u]) + Copied(u) =
                                   joined[u] + Given(u) + Waiting(u)
    <3>1. SentinelQueued(u) => Waiting(u) > 0
      BY <1>1 DEF SentinelQueued, Waiting, IInv, TypeOK
    <3> QED BY <3>1, <2>1 DEF LiveExact
  <2>5. joined[u] <= Published(attached[u])
    BY <2>2, <2>3, <2>4
  <2>6. ASSUME NEW k \in 1..Published(attached[u]), k <= Copied(u)
        PROVE  k \notin Missed(u)
    <3>1. k \in 1..Given(u) /\ Position(u, k) = k
      BY <2>2, <2>3, <2>6 DEF Position
    <3> QED BY <3>1, <2>3 DEF Missed
  <2>7. ASSUME NEW k \in 1..Published(attached[u]), k > joined[u]
        PROVE  k \notin Missed(u)
    <3> DEFINE i == k - joined[u] + Copied(u)
               q == i - Given(u)
    <3>1. i \in Int /\ i > Copied(u) /\ i > 0
      BY <2>2, <2>7
    <3>2. CASE i <= Given(u)
      <4>1. i \in 1..Given(u) /\ Position(u, i) = k
        BY <3>1, <3>2, <2>2, <2>7 DEF Position
      <4> QED BY <4>1, <2>3 DEF Missed
    <3>3. CASE i > Given(u)
      <4>1. SentinelQueued(u) => q <= Waiting(u) - 1
        BY <2>2, <2>4, <2>7
      <4>2. ~SentinelQueued(u) => q <= Waiting(u)
        BY <2>2, <2>4, <2>7
      <4>3. q \in 1..Waiting(u)
        BY <3>1, <3>3, <4>1, <4>2, <2>2
      <4>4. queue[u][q] # Sentinel
        <5>1. SUFFICES ASSUME queue[u][q] = Sentinel PROVE FALSE
          OBVIOUS
        <5>2. q = Waiting(u)
          BY <5>1, <4>3, <2>3
        <5>3. SentinelQueued(u)
          BY <5>1, <5>2, <4>3, <1>1 DEF SentinelQueued, Waiting, IInv, TypeOK
        <5> QED BY <5>2, <5>3, <4>1, <2>2
      <4>5. joined[u] + Given(u) + q - Copied(u) = k
        BY <2>2, <2>7
      <4> HIDE DEF q
      <4> QED BY <4>3, <4>4, <4>5, <2>3 DEF Missed
    <3> QED BY <3>1, <3>2, <3>3, <2>2
  <2>8. ASSUME NEW k \in 1..Published(attached[u]),
               Copied(u) < k, k <= joined[u]
        PROVE  k \in Missed(u)
    <3>1. \A i \in 1..Given(u) : Position(u, i) # k
      BY <2>2, <2>8 DEF Position
    <3>2. \A i \in 1..Waiting(u) : joined[u] + Given(u) + i - Copied(u) # k
      BY <2>2, <2>3, <2>8
    <3> QED BY <3>1, <3>2, <2>3 DEF Missed
  <2>9. \A k : k \in Missed(u) => k \in 1..Published(attached[u])
    BY DEF Missed
  <2>10. \A k \in (Copied(u) + 1)..joined[u] :
           k \in 1..Published(attached[u]) /\ Copied(u) < k /\ k <= joined[u]
    BY <2>2, <2>5
  <2>11. \A k \in 1..Published(attached[u]) :
           Copied(u) < k /\ k <= joined[u] => k \in (Copied(u) + 1)..joined[u]
    BY <2>2
  <2>12. \A k \in 1..Published(attached[u]) :
           k <= Copied(u) \/ k > joined[u] \/ (Copied(u) < k /\ k <= joined[u])
    BY <2>2
  <2> QED BY <2>6, <2>7, <2>8, <2>9, <2>10, <2>11, <2>12
<1> QED BY <1>1, Inductive, PTL

----------------------------------------------------------------------------
(* JobEventBus implements EventStream: every step of the bus is a step of  *)
(* the logs and cursors, or changes nothing of them. (Safety; that what is *)
(* due is also given under fairness is model-checked.)                     *)

\* Every event a generator copied or has in its queue is the one its channel's
\* backlog holds under its number.
FromBacklog(u, e) ==
  e.n \in 1..Published(attached[u]) /\ e = backlog[attached[u]][e.n]

SourceInv ==
  \A u \in Subscriber :
    /\ pc[u] \in {"idle", "replaying"} => joined[u] = 0
    /\ pc[u] # "idle" => \A i \in 1..Copied(u) : FromBacklog(u, snap[u][i])
    /\ \A i \in 1..Waiting(u) :
         queue[u][i] # Sentinel => FromBacklog(u, queue[u][i])

RefInv == IInv /\ SourceInv

\* What is in a backlog stays there under its number.
LEMMA BacklogGrows ==
  ASSUME TypeOK, NEW c \in Channel, NEW stage \in Stage,
         backlog' = [backlog EXCEPT ![c] = Append(@, NextEvent(c, stage))]
  PROVE  \A d \in Channel :
           /\ Published(d) \in Nat /\ Published(d)' \in Nat
           /\ Published(d) <= Published(d)'
           /\ \A k \in 1..Published(d) : backlog'[d][k] = backlog[d][k]
           /\ d # c => backlog'[d] = backlog[d]
<1>1. backlog[c] \in Seq(Event) /\ NextEvent(c, stage) \in Event
  BY EventTyped DEF TypeOK
<1>2. backlog'[c] = Append(backlog[c], NextEvent(c, stage))
  BY DEF TypeOK
<1>3. \A d \in Channel : backlog[d] \in Seq(Event)
  BY DEF TypeOK
<1>4. \A d \in Channel : d # c => backlog'[d] = backlog[d]
  BY DEF TypeOK
<1>5. /\ Len(backlog[c]) \in Nat
      /\ Len(backlog'[c]) = Len(backlog[c]) + 1
      /\ \A k \in 1..Len(backlog[c]) : backlog'[c][k] = backlog[c][k]
  BY <1>1, <1>2, AppendFacts
<1>6. \A d \in Channel : Len(backlog[d]) \in Nat
  BY <1>3
<1> QED BY <1>4, <1>5, <1>6 DEF Published

\* Publishing puts the event under its number and into the listeners' queues.
LEMMA PublishSource ==
  ASSUME RefInv, NEW s \in Session, NEW stage \in Stage, Publish(s, stage)
  PROVE  SourceInv'
<1> USE DEF RefInv
<1>1. PICK c \in Channel : Publish(s, stage)!(c)
  BY DEF Publish
<1>2. TypeOK /\ ListenersAreLive
  BY DEF IInv, StreamInv
<1>e. PICK e : e = NextEvent(c, stage)
  OBVIOUS
<1>3. /\ e \in Event /\ e # Sentinel /\ e.n = Published(c) + 1
      /\ backlog[c] \in Seq(Event)
      /\ backlog'[c] = Append(backlog[c], e)
  BY <1>1, <1>2, <1>e, EventTyped, BusAssumption DEF TypeOK, NextEvent, Published
<1>4. Published(c)' = Published(c) + 1 /\ backlog'[c][e.n] = e /\ Published(c) \in Nat
  BY <1>3, AppendFacts DEF Published
<1>5. \A d \in Channel :
        /\ Published(d) \in Nat /\ Published(d)' \in Nat
        /\ Published(d) <= Published(d)'
        /\ \A k \in 1..Published(d) : backlog'[d][k] = backlog[d][k]
  BY <1>1, <1>2, BacklogGrows
<1>6. ASSUME NEW u \in Subscriber, attached[u] \in Channel, NEW x, FromBacklog(u, x)
      PROVE  FromBacklog(u, x)'
  BY <1>1, <1>5, <1>6 DEF FromBacklog, Published
<1> SUFFICES ASSUME NEW u \in Subscriber
             PROVE  /\ pc'[u] \in {"idle", "replaying"} => joined'[u] = 0
                    /\ pc'[u] # "idle" => \A i \in 1..Copied(u)' : FromBacklog(u, snap[u][i])'
                    /\ \A i \in 1..Waiting(u)' :
                         queue'[u][i] # Sentinel => FromBacklog(u, queue[u][i])'
  BY DEF SourceInv
<1>7. /\ pc' = pc /\ joined' = joined /\ snap' = snap /\ Copied(u)' = Copied(u)
      /\ queue' = [v \in Subscriber |->
                     IF v \in listeners[c] THEN Append(queue[v], e) ELSE queue[v]]
      /\ attached' = attached
  BY <1>1, <1>e DEF PutToListeners, Copied
<1>8. pc[u] # "idle" => attached[u] \in Channel
  BY <1>2 DEF TypeOK
<1>9. /\ pc'[u] \in {"idle", "replaying"} => joined'[u] = 0
      /\ pc'[u] # "idle" => \A i \in 1..Copied(u)' : FromBacklog(u, snap[u][i])'
  BY <1>6, <1>7, <1>8 DEF SourceInv
<1>10. queue[u] \in Seq(Event \cup {Sentinel}) /\ Waiting(u) \in Nat /\ Waiting(u) = Len(queue[u])
  BY <1>2 DEF TypeOK, Waiting
<1>11. pc[u] = "idle" => queue[u] = <<>>
  BY DEF IInv, StreamInv, IdleIsFresh
<1>12. CASE u \in listeners[c]
  <2>1. pc[u] = "live" /\ attached[u] = c
    BY <1>2, <1>12 DEF ListenersAreLive
  <2>2. queue'[u] = Append(queue[u], e)
    BY <1>7, <1>12
  <2>3. /\ Waiting(u)' = Waiting(u) + 1
        /\ \A i \in 1..Waiting(u) : queue'[u][i] = queue[u][i]
        /\ queue'[u][Waiting(u) + 1] = e
    BY <2>2, <1>3, <1>10, AppendFacts DEF Waiting
  <2>4. FromBacklog(u, e)'
    BY <2>1, <1>3, <1>4, <1>7 DEF FromBacklog, Published
  <2>5. ASSUME NEW i \in 1..Waiting(u)', queue'[u][i] # Sentinel
        PROVE  FromBacklog(u, queue[u][i])'
    <3>1. CASE i = Waiting(u) + 1
      BY <3>1, <2>3, <2>4 DEF FromBacklog, Published
    <3>2. CASE i \in 1..Waiting(u)
      <4>1. FromBacklog(u, queue[u][i])
        BY <3>2, <2>3, <2>5 DEF SourceInv
      <4>2. \A x : FromBacklog(u, x) => FromBacklog(u, x)'
        BY <1>6, <2>1
      <4> QED BY <4>1, <4>2, <3>2, <2>3 DEF FromBacklog
    <3> QED BY <3>1, <3>2, <2>3, <1>10
  <2> QED BY <2>5, <1>9
<1>13. CASE u \notin listeners[c]
  <2>1. queue'[u] = queue[u] /\ Waiting(u)' = Waiting(u)
    BY <1>7, <1>13 DEF Waiting
  <2>2. CASE pc[u] = "idle"
    BY <2>1, <2>2, <1>9, <1>11 DEF Waiting
  <2>3. CASE pc[u] # "idle"
    BY <2>1, <2>3, <1>6, <1>8, <1>9 DEF SourceInv, FromBacklog
  <2> QED BY <2>2, <2>3
<1> QED BY <1>12, <1>13

\* The sentinel is no event; the queues keep what they held.
LEMMA CleanupSource ==
  ASSUME RefInv, NEW s \in Session, CleanupSession(s)
  PROVE  SourceInv'
<1>1. TypeOK
  BY DEF RefInv, IInv
<1>2. /\ pc' = pc /\ joined' = joined /\ snap' = snap /\ backlog' = backlog
      /\ attached' = attached
      /\ queue' = [u \in Subscriber |-> IF u \in listeners[channelOf[s]]
                                        THEN Append(queue[u], Sentinel) ELSE queue[u]]
  BY DEF CleanupSession, PutToListeners
<1> SUFFICES ASSUME NEW u \in Subscriber
             PROVE  \A i \in 1..Waiting(u)' :
                      queue'[u][i] # Sentinel => FromBacklog(u, queue[u][i])'
  BY <1>2 DEF SourceInv, RefInv, FromBacklog, Copied, Published
<1>3. queue[u] \in Seq(Event \cup {Sentinel})
  BY <1>1 DEF TypeOK
<1>4. CASE u \in listeners[channelOf[s]]
  <2>1. queue'[u] = Append(queue[u], Sentinel)
    BY <1>2, <1>4
  <2>2. /\ Waiting(u)' = Waiting(u) + 1 /\ Waiting(u) \in Nat
        /\ \A i \in 1..Waiting(u) : queue'[u][i] = queue[u][i]
        /\ queue'[u][Waiting(u) + 1] = Sentinel
    BY <2>1, <1>3, AppendFacts DEF Waiting
  <2>3. ASSUME NEW i \in 1..Waiting(u)', queue'[u][i] # Sentinel
        PROVE  FromBacklog(u, queue[u][i])'
    <3>1. i \in 1..Waiting(u) /\ queue'[u][i] = queue[u][i]
      BY <2>2, <2>3
    <3>2. FromBacklog(u, queue[u][i])
      BY <3>1, <2>3 DEF SourceInv, RefInv
    <3> QED BY <3>1, <3>2, <1>2 DEF FromBacklog, Published
  <2> QED BY <2>3
<1>5. CASE u \notin listeners[channelOf[s]]
  BY <1>2, <1>5 DEF SourceInv, RefInv, FromBacklog, Published, Waiting
<1> QED BY <1>4, <1>5

\* The copy a generator takes is the backlog, which is numbered.
LEMMA SubscribeSource ==
  ASSUME RefInv, NEW u \in Subscriber, NEW s \in Session,
         NEW wantReplay \in BOOLEAN, NEW close \in BOOLEAN,
         Subscribe(u, s, wantReplay, close)
  PROVE  SourceInv'
<1>1. PICK c \in Channel : Subscribe(u, s, wantReplay, close)!(c)
  BY DEF Subscribe
<1>2. TypeOK /\ BacklogNumbered /\ IdleIsFresh(u)
  BY DEF RefInv, IInv, StreamInv
<1>3. /\ pc[u] = "idle" /\ queue[u] = <<>> /\ joined[u] = 0
  BY <1>1, <1>2 DEF IdleIsFresh, SourceInv, RefInv
<1>4. /\ backlog' = backlog /\ queue' = queue
      /\ attached' = [attached EXCEPT ![u] = c]
      /\ snap' = [snap EXCEPT ![u] = SnapshotOf(c, wantReplay)]
      /\ \/ pc' = [pc EXCEPT ![u] = "replaying"] /\ joined' = joined
         \/ pc' = [pc EXCEPT ![u] = "live"]
            /\ joined' = [joined EXCEPT ![u] = Len(backlog[c])]
  BY <1>1 DEF Register
<1> SUFFICES ASSUME NEW v \in Subscriber
             PROVE  /\ pc'[v] \in {"idle", "replaying"} => joined'[v] = 0
                    /\ pc'[v] # "idle" => \A i \in 1..Copied(v)' : FromBacklog(v, snap[v][i])'
                    /\ \A i \in 1..Waiting(v)' :
                         queue'[v][i] # Sentinel => FromBacklog(v, queue[v][i])'
  BY DEF SourceInv
<1>5. CASE v = u
  <2>1. /\ attached'[u] = c /\ snap'[u] = SnapshotOf(c, wantReplay) /\ queue'[u] = <<>>
        /\ pc'[u] \in {"idle", "replaying"} => joined'[u] = 0
    BY <1>2, <1>3, <1>4 DEF TypeOK
  <2>2. Waiting(u)' = 0
    BY <2>1 DEF Waiting
  <2>3. backlog[c] \in Seq(Event) /\ \A i \in 1..Len(backlog[c]) : backlog[c][i].n = i
    BY <1>2 DEF TypeOK, BacklogNumbered, Published
  <2>4. \A i \in 1..Len(snap'[u]) : snap'[u][i].n = i /\ i <= Len(backlog[c])
                                     /\ snap'[u][i] = backlog[c][i]
    BY <2>1, <2>3 DEF SnapshotOf
  <2>5. \A i \in 1..Copied(u)' : FromBacklog(u, snap[u][i])'
    BY <2>1, <2>3, <2>4, <1>4 DEF FromBacklog, Published, Copied
  <2> QED BY <1>5, <2>1, <2>2, <2>5
<1>6. CASE v # u
  <2>1. /\ attached'[v] = attached[v] /\ snap'[v] = snap[v] /\ queue'[v] = queue[v]
        /\ pc'[v] = pc[v] /\ joined'[v] = joined[v]
    BY <1>2, <1>4, <1>6 DEF TypeOK
  <2> QED BY <2>1, <1>4 DEF SourceInv, RefInv, FromBacklog, Published, Copied, Waiting
<1> QED BY <1>5, <1>6

\* A generator that yields, registers or ends keeps its copy, and takes at most
\* the head off its queue.
LEMMA ResumeSource ==
  ASSUME RefInv, NEW u \in Subscriber, Progress(u) \/ Cancel(u)
  PROVE  SourceInv'
<1>1. TypeOK
  BY DEF RefInv, IInv
<1>2. CASE Deliver(u)
  <2>1. /\ backlog' = backlog /\ attached' = attached /\ snap' = snap
        /\ pc' = pc /\ joined' = joined
        /\ queue' = [queue EXCEPT ![u] = Tail(@)] /\ queue[u] # <<>>
    BY <1>2 DEF Deliver, busVars
  <2> SUFFICES ASSUME NEW v \in Subscriber
               PROVE  \A i \in 1..Waiting(v)' :
                        queue'[v][i] # Sentinel => FromBacklog(v, queue[v][i])'
    BY <2>1 DEF SourceInv, RefInv, FromBacklog, Published, Copied
  <2>2. CASE v = u
    <3>1. queue[u] \in Seq(Event \cup {Sentinel}) /\ queue'[u] = Tail(queue[u])
      BY <1>1, <2>1 DEF TypeOK
    <3>2. /\ Waiting(u)' = Waiting(u) - 1 /\ Waiting(u) \in Nat
          /\ \A i \in 1..Waiting(u)' : queue'[u][i] = queue[u][i + 1]
      BY <3>1, <2>1, TailFacts DEF Waiting
    <3>3. \A i \in 1..Waiting(u)' : i + 1 \in 1..Waiting(u)
      BY <3>2
    <3>4. ASSUME NEW i \in 1..Waiting(u)', queue'[u][i] # Sentinel
          PROVE  FromBacklog(u, queue[u][i])'
      <4>1. FromBacklog(u, queue[u][i + 1])
        BY <3>2, <3>3, <3>4 DEF SourceInv, RefInv
      <4> QED BY <4>1, <3>2, <3>4, <2>1 DEF FromBacklog, Published
    <3> QED BY <2>2, <3>4
  <2>3. CASE v # u
    <3>1. queue'[v] = queue[v]
      BY <2>1, <2>3, <1>1 DEF TypeOK
    <3> QED BY <3>1, <2>1 DEF SourceInv, RefInv, FromBacklog, Published, Waiting
  <2> QED BY <2>2, <2>3
<1>3. CASE ReplayNext(u)
  BY <1>3 DEF ReplayNext, busVars, SourceInv, RefInv, FromBacklog, Published, Copied, Waiting
<1>4. CASE ReplayDone(u)
  <2>1. /\ backlog' = backlog /\ attached' = attached /\ snap' = snap /\ queue' = queue
        /\ pc[u] # "idle" /\ pc' = [pc EXCEPT ![u] = "live"]
        /\ joined' = [joined EXCEPT ![u] = Len(backlog[attached[u]])]
    BY <1>4 DEF ReplayDone, Register
  <2> QED BY <2>1, <1>1
          DEF TypeOK, SourceInv, RefInv, FromBacklog, Published, Copied, Waiting
<1>5. CASE StopOnSentinel(u) \/ StopOnTerminal(u) \/ Cancel(u)
  <2>1. /\ backlog' = backlog /\ attached' = attached /\ snap' = snap /\ queue' = queue
        /\ pc[u] # "idle" /\ pc' = [pc EXCEPT ![u] = "closed"] /\ joined' = joined
    BY <1>5 DEF StopOnSentinel, StopOnTerminal, Cancel, Leave
  <2> QED BY <2>1, <1>1
          DEF TypeOK, SourceInv, RefInv, FromBacklog, Published, Copied, Waiting
<1> QED BY <1>2, <1>3, <1>4, <1>5 DEF Progress

LEMMA RefInvariant == Spec => []RefInv
<1>1. Init => SourceInv
  BY DEF Init, SourceInv, Waiting
<1>2. IInv /\ SourceInv /\ [Next]_vars => SourceInv'
  <2> SUFFICES ASSUME RefInv, [Next]_vars PROVE SourceInv'
    BY DEF RefInv
  <2>1. CASE UNCHANGED vars
    BY <2>1 DEF vars, RefInv, SourceInv, FromBacklog, Published, Copied, Waiting
  <2> QED BY <2>1, PublishSource, CleanupSource, SubscribeSource, ResumeSource DEF Next
<1> QED BY <1>1, <1>2, Inductive, PTL DEF Spec, RefInv

----------------------------------------------------------------------------
\* The channels that can be written and joined, as the mapping names them.
Open == {channelOf[s] : s \in Session} \ {NoChannel}
Ending == {u \in Subscriber : SentinelQueued(u)}

\* setdefault takes the session's channel into use, or a new one.
LEMMA SetDefaultUses ==
  ASSUME TypeOK, ChannelsOwned, NEW s \in Session, NEW c \in Channel, SetDefault(s, c)
  PROVE  /\ c \in Open \/ c \notin allocated
         /\ Open' = Open \cup {c}
         /\ allocated' = allocated \cup {c}
<1>1. c # NoChannel
  BY BusAssumption
<1>2. channelOf' = [channelOf EXCEPT ![s] = c] /\ channelOf \in [Session -> Channels]
  BY DEF SetDefault, TypeOK
<1>3. channelOf[s] = NoChannel \/ channelOf[s] = c
  BY DEF SetDefault
<1> QED BY <1>1, <1>2, <1>3 DEF SetDefault, Open

\* A published event is written to the log of the session's channel; nobody
\* who waits for the end of a dropped channel is fed.
LEMMA PublishRefines ==
  ASSUME RefInv, NEW s \in Session, NEW stage \in Stage, Publish(s, stage)
  PROVE  \E c \in Channel : Stream!Write(c, stage)
<1>1. PICK c \in Channel : Publish(s, stage)!(c)
  BY DEF Publish
<1>2. TypeOK /\ ChannelsOwned /\ ListenersAreLive
  BY DEF RefInv, IInv, StreamInv
<1>3. Stream!Use(c)
  BY <1>1, <1>2, SetDefaultUses DEF Open, Stream!Use
<1>4. /\ backlog' = [backlog EXCEPT ![c] = Append(@, [n |-> Len(@) + 1, stage |-> stage])]
      /\ pc' = pc /\ joined' = joined /\ snap' = snap /\ received' = received
      /\ attached' = attached /\ closeOnDone' = closeOnDone
      /\ queue' = [u \in Subscriber |-> IF u \in listeners[c]
                     THEN Append(queue[u], NextEvent(c, stage)) ELSE queue[u]]
  BY <1>1 DEF NextEvent, PutToListeners
<1>5. Ending' = Ending
  <2> SUFFICES ASSUME NEW u \in Subscriber PROVE SentinelQueued(u)' <=> SentinelQueued(u)
    BY DEF Ending
  <2>1. CASE u \in listeners[c]
    <3>1. pc[u] = "live" /\ attached[u] = c
      BY <1>2, <2>1 DEF ListenersAreLive
    <3>2. ~SentinelQueued(u)
      <4>1. SentinelQueued(u) => \A t \in Session : channelOf[t] # c
        BY <3>1 DEF RefInv, IInv, StreamInv, LiveExact
      <4>2. c \in allocated
        BY <3>1, <1>2 DEF ChannelsOwned
      <4>3. channelOf[s] = c
        BY <1>1, <4>2 DEF SetDefault
      <4> QED BY <4>1, <4>3
    <3>3. NextEvent(c, stage) # Sentinel /\ NextEvent(c, stage) \in Event
      BY <1>2, EventTyped, BusAssumption
    <3>4. queue'[u] = Append(queue[u], NextEvent(c, stage))
      BY <1>4, <2>1
    <3>5. queue[u] \in Seq(Event \cup {Sentinel})
      BY <1>2 DEF TypeOK
    <3>6. queue'[u][Len(queue'[u])] # Sentinel
      BY <3>3, <3>4, <3>5, AppendFacts
    <3> QED BY <3>2, <3>6 DEF SentinelQueued
  <2>2. CASE u \notin listeners[c]
    BY <2>2, <1>4 DEF SentinelQueued
  <2> QED BY <2>1, <2>2
<1>6. \A u \in Subscriber : Cursor(u)' = Cursor(u) /\ Mode(u)' = Mode(u)
  BY <1>4 DEF Cursor, Given, Copied, Mode
<1> QED BY <1>3, <1>4, <1>5, <1>6 DEF Stream!Write, Ending

\* Dropping a channel tells exactly the readers that have joined it.
LEMMA CleanupRefines ==
  ASSUME RefInv, NEW s \in Session, CleanupSession(s)
  PROVE  \E c \in Channel : Stream!Drop(c)
<1> DEFINE c == channelOf[s]
<1>1. TypeOK /\ ChannelsOwned /\ ListenersAreLive
  BY DEF RefInv, IInv, StreamInv
<1>2. /\ c # NoChannel /\ c \in Channel
      /\ channelOf' = [channelOf EXCEPT ![s] = NoChannel]
      /\ queue' = [u \in Subscriber |-> IF u \in listeners[c]
                     THEN Append(queue[u], Sentinel) ELSE queue[u]]
      /\ UNCHANGED <<allocated, backlog, listeners, pc, attached, closeOnDone,
                     replay, snap, received, joined>>
  BY <1>1 DEF CleanupSession, PutToListeners, TypeOK, Channels
<1>3. c \in Open /\ Open' = Open \ {c}
  BY <1>1, <1>2 DEF Open, TypeOK, ChannelsOwned
<1>4. Ending' = Ending \cup {u \in Subscriber : Mode(u) = "joined" /\ attached[u] = c}
  <2> SUFFICES ASSUME NEW u \in Subscriber
               PROVE  SentinelQueued(u)' <=>
                        SentinelQueued(u) \/ (Mode(u) = "joined" /\ attached[u] = c)
    BY DEF Ending
  <2>1. u \in listeners[c] <=> Mode(u) = "joined" /\ attached[u] = c
    BY <1>1, <1>2 DEF ListenersAreLive, Mode, TypeOK
  <2>2. CASE u \in listeners[c]
    <3>1. queue[u] \in Seq(Event \cup {Sentinel}) /\ queue'[u] = Append(queue[u], Sentinel)
      BY <1>1, <1>2, <2>2 DEF TypeOK
    <3>2. queue'[u] # <<>> /\ queue'[u][Len(queue'[u])] = Sentinel
      BY <3>1, AppendFacts
    <3> QED BY <3>2, <2>1, <2>2 DEF SentinelQueued
  <2>3. CASE u \notin listeners[c]
    BY <2>1, <2>3, <1>2 DEF SentinelQueued
  <2> QED BY <2>2, <2>3
<1>5. \A u \in Subscriber : Cursor(u)' = Cursor(u) /\ Mode(u)' = Mode(u)
  BY <1>2 DEF Cursor, Given, Copied, Mode
<1> QED BY <1>2, <1>3, <1>4, <1>5 DEF Stream!Drop, Open, Ending

\* A generator that starts joins at the end of the log, or is given its first
\* event.
LEMMA SubscribeRefines ==
  ASSUME RefInv, NEW u \in Subscriber, NEW s \in Session,
         NEW wantReplay \in BOOLEAN, NEW close \in BOOLEAN,
         Subscribe(u, s, wantReplay, close)
  PROVE  \E c \in Channel : Stream!Start(u, c, close)
<1>1. PICK c \in Channel : Subscribe(u, s, wantReplay, close)!(c)
  BY DEF Subscribe
<1>2. TypeOK /\ ChannelsOwned /\ IdleIsFresh(u) /\ backlog[c] \in Seq(Event)
  BY DEF RefInv, IInv, StreamInv, TypeOK
<1>3. /\ pc[u] = "idle" /\ queue' = queue /\ backlog' = backlog
      /\ received[u] = <<>> /\ joined[u] = 0
      /\ attached' = [attached EXCEPT ![u] = c]
      /\ closeOnDone' = [closeOnDone EXCEPT ![u] = close]
      /\ snap' = [snap EXCEPT ![u] = SnapshotOf(c, wantReplay)]
  BY <1>1, <1>2 DEF IdleIsFresh, RefInv, SourceInv
<1>4. Stream!Use(c)
  BY <1>1, <1>2, SetDefaultUses DEF Open, Stream!Use
<1>5. Ending' = Ending
  BY <1>3 DEF Ending, SentinelQueued
<1>6. ASSUME NEW v \in Subscriber, v # u
      PROVE  Cursor(v)' = Cursor(v) /\ Mode(v)' = Mode(v)
  BY <1>1, <1>2, <1>3, <1>6
     DEF Register, Yield, TypeOK, Cursor, Given, Copied, Mode
<1>7. CASE SnapshotOf(c, wantReplay) # <<>>
  <2>1. /\ pc' = [pc EXCEPT ![u] = "replaying"] /\ joined' = joined
        /\ received' = [received EXCEPT ![u] = Append(@, backlog[c][1])]
    BY <1>1, <1>7 DEF Yield
  <2>2. backlog[c] # <<>>
    BY <1>7 DEF SnapshotOf
  <2>3. backlog[c][1] \in Event
    BY <1>2, <2>2
  <2>4. received'[u] = <<backlog[c][1]>> /\ Len(received'[u]) = 1
    BY <2>1, <2>3, <1>2, <1>3 DEF TypeOK
  <2>5. received' = [received EXCEPT ![u] = <<backlog[c][1]>>]
    BY <2>1, <2>4, <1>2 DEF TypeOK
  <2>6. Cursor(u)' = 1 /\ Mode(u)' = "catching_up" /\ Mode(u) = "idle"
    BY <1>2, <1>3, <2>1, <2>4 DEF TypeOK, Cursor, Given, Mode
  <2> QED BY <1>3, <1>4, <1>5, <1>6, <2>2, <2>5, <2>6 DEF Stream!Start, Open, Ending
<1>8. CASE SnapshotOf(c, wantReplay) = <<>>
  <2>1. /\ pc' = [pc EXCEPT ![u] = "live"] /\ received' = received
        /\ joined' = [joined EXCEPT ![u] = Len(backlog[c])]
    BY <1>1, <1>8 DEF Register
  <2>2. snap'[u] = <<>> /\ received'[u] = <<>> /\ joined'[u] = Len(backlog[c])
    BY <1>2, <1>3, <1>8, <2>1 DEF TypeOK
  <2>3. Len(backlog[c]) \in Nat
    BY <1>2
  <2>4. Cursor(u)' = Len(backlog[c])
    BY <2>2, <2>3 DEF Cursor, Given, Copied
  <2>5. Mode(u)' = "joined" /\ Mode(u) = "idle"
    BY <1>2, <1>3, <2>1 DEF Mode, TypeOK
  <2> QED BY <1>3, <1>4, <1>5, <1>6, <2>1, <2>4, <2>5 DEF Stream!Start, Open, Ending
<1> QED BY <1>7, <1>8

\* The next element of the copy is the next event of the log.
LEMMA ReplayNextRefines ==
  ASSUME RefInv, NEW u \in Subscriber, ReplayNext(u)
  PROVE  Stream!Read(u)
<1>1. TypeOK /\ ReplayExact(u) /\ pc[u] = "replaying" /\ joined[u] = 0
  BY DEF RefInv, IInv, StreamInv, SourceInv, ReplayNext
<1>2. /\ Given(u) \in Nat /\ Copied(u) \in Nat /\ Given(u) < Copied(u)
      /\ Copied(u) <= Published(attached[u]) /\ Published(attached[u]) \in Nat
      /\ ~Ended(u)
      /\ UNCHANGED <<channelOf, allocated, backlog, listeners, pc, attached,
                     closeOnDone, replay, snap, queue, joined>>
  BY <1>1, Lengths DEF ReplayNext, ReplayExact, Given, Copied, busVars, TypeOK
<1>3. snap[u][Given(u) + 1] = backlog[attached[u]][Given(u) + 1]
  <2>1. Given(u) + 1 \in 1..Copied(u)
    BY <1>2
  <2> QED BY <2>1, <1>1 DEF RefInv, SourceInv, FromBacklog, ReplayExact
<1>4. received' = [received EXCEPT ![u] =
                    Append(@, backlog[attached[u]][Cursor(u) + 1])]
  BY <1>1, <1>3 DEF ReplayNext, Yield, Given, Cursor
<1>5. Cursor(u) < Published(attached[u])
  BY <1>1, <1>2 DEF Cursor
<1>6. Given(u)' = Given(u) + 1
  BY <1>1, <1>4 DEF TypeOK, Given
<1>7. Cursor(u)' = Cursor(u) + 1
  BY <1>1, <1>2, <1>6 DEF Cursor
<1>8. ASSUME NEW v \in Subscriber, v # u PROVE Cursor(v)' = Cursor(v)
  BY <1>1, <1>2, <1>4, <1>8 DEF TypeOK, Cursor, Given, Copied
<1>9. \A v \in Subscriber : Mode(v)' = Mode(v)
  BY <1>2 DEF Mode
<1>10. Ending' = Ending /\ Open' = Open
  BY <1>2 DEF Ending, SentinelQueued, Open
<1>11. Mode(u) = "catching_up"
  BY <1>1 DEF Mode
<1> QED BY <1>2, <1>4, <1>5, <1>7, <1>8, <1>9, <1>10, <1>11
        DEF Stream!Read, Stream!Reading, Stream!Ended, Ended, Open, Ending, Published

\* Registering after the replay jumps to the end of the log.
LEMMA ReplayDoneRefines ==
  ASSUME RefInv, NEW u \in Subscriber, ReplayDone(u)
  PROVE  Stream!Join(u)
<1>1. TypeOK /\ ReplayExact(u) /\ pc[u] = "replaying" /\ ~Ended(u)
  BY DEF RefInv, IInv, StreamInv, ReplayDone
<1>2. /\ Given(u) \in Nat /\ Copied(u) \in Nat /\ Given(u) = Copied(u)
      /\ Given(u) >= 1 /\ Copied(u) <= Published(attached[u])
      /\ Published(attached[u]) \in Nat
  BY <1>1, Lengths DEF ReplayDone, ReplayExact, Given, Copied, TypeOK
<1>3. /\ pc' = [pc EXCEPT ![u] = "live"]
      /\ joined' = [joined EXCEPT ![u] = Published(attached[u])]
      /\ UNCHANGED <<channelOf, allocated, backlog, attached, closeOnDone,
                     replay, snap, received, queue>>
  BY DEF ReplayDone, Register, Published
<1>4. joined'[u] = Published(attached[u]) /\ Given(u)' = Given(u) /\ Copied(u)' = Copied(u)
  BY <1>1, <1>3 DEF TypeOK, Given, Copied
<1>5. Cursor(u)' = Published(attached[u])
  BY <1>2, <1>4 DEF Cursor
<1>6. ASSUME NEW v \in Subscriber, v # u
      PROVE  Cursor(v)' = Cursor(v) /\ Mode(v)' = Mode(v)
  BY <1>1, <1>3, <1>6 DEF TypeOK, Cursor, Given, Copied, Mode
<1>7. Mode(u) = "catching_up" /\ Mode(u)' = "joined"
  BY <1>1, <1>3 DEF Mode, TypeOK
<1>8. Ending' = Ending /\ Open' = Open
  BY <1>3 DEF Ending, SentinelQueued, Open
<1> QED BY <1>1, <1>3, <1>5, <1>6, <1>7, <1>8
        DEF Stream!Join, Stream!Ended, Ended, Open, Ending, Published

\* The last element stays the last one, unless it is taken off.
LEMMA TailKeepsLast ==
  ASSUME NEW S, NEW q \in Seq(S), q # <<>>, Len(q) # 1
  PROVE  Tail(q) # <<>> /\ Tail(q)[Len(Tail(q))] = q[Len(q)]
<1>1. /\ Tail(q) \in Seq(S) /\ Len(q) \in Nat /\ Len(q) > 0
      /\ Len(Tail(q)) = Len(q) - 1
      /\ \A i \in 1..Len(Tail(q)) : Tail(q)[i] = q[i + 1]
  BY TailFacts
<1> DEFINE n == Len(q)
           m == Len(Tail(q))
<1>2. n \in Nat /\ n > 1 /\ m = n - 1
  BY <1>1
<1>3. m \in 1..m /\ m + 1 = n /\ m # 0
  <2> HIDE DEF n, m
  <2> QED BY <1>2
<1>4. Tail(q)[m] = q[m + 1]
  BY <1>1, <1>3
<1>5. Tail(q) # <<>>
  <2>1. Len(<<>>) = 0
    OBVIOUS
  <2>2. Tail(q) = <<>> => m = 0
    BY <2>1, Zenon
  <2> QED BY <2>2, <1>3, Zenon
<1> QED BY <1>3, <1>4, <1>5

\* The head of the queue is the next event of the log, and taking it does not
\* change whether the queue ends with the sentinel.
LEMMA DeliverRefines ==
  ASSUME RefInv, NEW u \in Subscriber, Deliver(u)
  PROVE  Stream!Read(u)
<1>1. /\ TypeOK /\ LiveExact(u) /\ pc[u] = "live" /\ ~Ended(u)
      /\ queue[u] # <<>> /\ Head(queue[u]) # Sentinel
  BY DEF RefInv, IInv, StreamInv, Deliver
<1>2. /\ received' = [received EXCEPT ![u] = Append(@, Head(queue[u]))]
      /\ queue' = [queue EXCEPT ![u] = Tail(@)]
      /\ UNCHANGED <<channelOf, allocated, backlog, listeners, pc, attached,
                     closeOnDone, replay, snap, joined>>
  BY DEF Deliver, Yield, busVars
<1>3. /\ Given(u) \in Nat /\ Copied(u) \in Nat /\ joined[u] \in Nat
      /\ Copied(u) <= Given(u) /\ Copied(u) <= joined[u]
      /\ Published(attached[u]) \in Nat
  BY <1>1, Lengths DEF LiveExact, TypeOK
<1>4. /\ queue[u] \in Seq(Event \cup {Sentinel})
      /\ Waiting(u) \in Nat /\ Waiting(u) >= 1 /\ Head(queue[u]) = queue[u][1]
  BY <1>1, TailFacts DEF TypeOK, Waiting
<1>5. Cursor(u) = joined[u] + Given(u) - Copied(u)
  BY <1>3 DEF Cursor
<1>6. Head(queue[u]).n = Cursor(u) + 1
  <2>1. queue[u][1].n = joined[u] + Given(u) + 1 - Copied(u)
    BY <1>1, <1>4 DEF LiveExact
  <2> QED BY <2>1, <1>3, <1>4, <1>5
<1>7. /\ Head(queue[u]) = backlog[attached[u]][Cursor(u) + 1]
      /\ Cursor(u) < Published(attached[u])
  <2>1. FromBacklog(u, queue[u][1])
    BY <1>1, <1>4 DEF RefInv, SourceInv
  <2>2. Cursor(u) \in Int
    BY <1>3, <1>5
  <2> QED BY <2>1, <2>2, <1>3, <1>4, <1>6 DEF FromBacklog
<1>8. Cursor(u)' = Cursor(u) + 1
  <2>1. Given(u)' = Given(u) + 1 /\ joined'[u] = joined[u] /\ Copied(u)' = Copied(u)
    BY <1>1, <1>2, <1>4 DEF TypeOK, Given, Copied
  <2>2. joined[u] = 0 => Copied(u) = 0
    BY <1>3
  <2> QED BY <2>1, <2>2, <1>3, <1>5 DEF Cursor
<1>9. ASSUME NEW v \in Subscriber, v # u
      PROVE  Cursor(v)' = Cursor(v) /\ (SentinelQueued(v)' <=> SentinelQueued(v))
  BY <1>1, <1>2, <1>9 DEF TypeOK, Cursor, Given, Copied, SentinelQueued
<1>10. SentinelQueued(u)' <=> SentinelQueued(u)
  <2>1. /\ queue'[u] = Tail(queue[u]) /\ queue'[u] \in Seq(Event \cup {Sentinel})
        /\ Len(queue'[u]) = Len(queue[u]) - 1
        /\ \A i \in 1..Len(queue'[u]) : queue'[u][i] = queue[u][i + 1]
    BY <1>1, <1>2, <1>4, TailFacts DEF TypeOK
  <2>2. CASE Len(queue[u]) = 1
    BY <2>1, <2>2, <1>1, <1>4 DEF SentinelQueued
  <2>3. CASE Len(queue[u]) # 1
    <3>1. queue'[u] # <<>> /\ queue'[u][Len(queue'[u])] = queue[u][Len(queue[u])]
      BY <2>1, <2>3, <1>1, <1>4, TailKeepsLast
    <3> QED BY <3>1, <1>1 DEF SentinelQueued
  <2> QED BY <2>2, <2>3
<1>11. \A v \in Subscriber : Mode(v)' = Mode(v)
  BY <1>2 DEF Mode
<1>12. Ending' = Ending /\ Open' = Open /\ Mode(u) = "joined"
  BY <1>1, <1>2, <1>9, <1>10 DEF Ending, Open, Mode
<1> QED BY <1>1, <1>2, <1>7, <1>8, <1>9, <1>11, <1>12
        DEF Stream!Read, Stream!Reading, Stream!Ended, Ended, Open, Ending, Published

\* Whichever way a generator ends, its reader is over.
LEMMA LeaveRefines ==
  ASSUME RefInv, NEW u \in Subscriber,
         StopOnSentinel(u) \/ StopOnTerminal(u) \/ Cancel(u)
  PROVE  Stream!Cancel(u)
<1>1. TypeOK /\ pc[u] \in {"replaying", "live"} /\ Leave(u)
  BY DEF RefInv, IInv, StopOnSentinel, StopOnTerminal, Cancel
<1>2. /\ pc' = [pc EXCEPT ![u] = "closed"]
      /\ UNCHANGED <<channelOf, allocated, backlog, attached, closeOnDone,
                     replay, snap, received, queue, joined>>
  BY <1>1 DEF Leave
<1>3. \A v \in Subscriber : Cursor(v)' = Cursor(v) /\ (v # u => Mode(v)' = Mode(v))
  BY <1>1, <1>2 DEF TypeOK, Cursor, Given, Copied, Mode
<1>4. Mode(u) \in {"catching_up", "joined"} /\ Mode(u)' = "over"
  BY <1>1, <1>2 DEF Mode, TypeOK
<1>5. Ending' = Ending /\ Open' = Open
  BY <1>2 DEF Ending, SentinelQueued, Open
<1> QED BY <1>2, <1>3, <1>4, <1>5
        DEF Stream!Cancel, Stream!Leave, Stream!Reading, Open, Ending

\* The bus shows its consumers a log per channel, read in order with a single
\* jump at the moment of joining, for any number of sessions, generators,
\* channels and events.
THEOREM BusImplementsStream == Spec => Stream!Spec
<1>1. Init => Stream!Init
  <2> SUFFICES ASSUME Init PROVE Stream!Init
    OBVIOUS
  <2>1. Open = {} /\ Ending = {}
    BY DEF Init, Open, Ending, SentinelQueued
  <2>2. \A u \in Subscriber : Cursor(u) = 0 /\ Mode(u) = "idle"
    BY DEF Init, Cursor, Given, Mode
  <2> QED BY <2>1, <2>2 DEF Init, Stream!Init, Open, Ending
<1>2. RefInv /\ [Next]_vars => [Stream!Next]_(Stream!streamVars)
  <2> SUFFICES ASSUME RefInv, [Next]_vars PROVE Stream!Next \/ UNCHANGED Stream!streamVars
    OBVIOUS
  <2>1. ASSUME NEW s \in Session, NEW stage \in Stage, Publish(s, stage)
        PROVE  Stream!Next
    BY <2>1, PublishRefines DEF Stream!Next
  <2>2. ASSUME NEW s \in Session, CleanupSession(s)
        PROVE  Stream!Next
    BY <2>2, CleanupRefines DEF Stream!Next
  <2>3. ASSUME NEW u \in Subscriber, NEW s \in Session, NEW wantReplay \in BOOLEAN,
               NEW close \in BOOLEAN, Subscribe(u, s, wantReplay, close)
        PROVE  Stream!Next
    BY <2>3, SubscribeRefines DEF Stream!Next
  <2>4. ASSUME NEW u \in Subscriber, Progress(u) \/ Cancel(u)
        PROVE  Stream!Next
    BY <2>4, ReplayNextRefines, ReplayDoneRefines, DeliverRefines, LeaveRefines
       DEF Progress, Stream!Next, Stream!Advance
  <2>5. CASE UNCHANGED vars
    BY <2>5 DEF vars, Stream!streamVars, SentinelQueued, Cursor, Given, Copied, Mode
  <2> QED BY <2>1, <2>2, <2>3, <2>4, <2>5 DEF Next
<1> QED BY <1>1, <1>2, RefInvariant, PTL DEF Spec, Stream!Spec
=============================================================================
