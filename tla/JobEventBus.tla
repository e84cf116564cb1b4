---------------------------- MODULE JobEventBus ----------------------------
(***************************************************************************)
(* The in-memory publish/subscribe bus of app/services/jobs/event_bus.py.  *)
(*                                                                         *)
(* All code runs on one asyncio event loop, so a step is the code between  *)
(* two suspension points: publish and cleanup_session are whole steps; a   *)
(* subscribe generator runs from one yield (or queue.get) to the next.     *)
(* A channel is an object: a generator keeps the one it looked up first,   *)
(* also after cleanup_session has dropped it from the dictionary.          *)
(***************************************************************************)
EXTENDS Integers, Sequences

CONSTANTS
  Session,      \* session ids, the keys of _channels
  Subscriber,   \* subscribe() generators; each is started at most once
  Channel,      \* _SessionChannel objects that can be allocated
  Stage,        \* the stages published, a subset of JobStage
  NoChannel,    \* "no entry in _channels"
  Sentinel,     \* the None that ends a listener's queue
  MaxEvents     \* bound: events published on one channel

JobStage == {"uploaded", "ocr", "llm", "rule_based", "resolved",
             "vendor_failed", "done", "error"}
Terminal == {"done", "error"}

Event == [n : Nat \ {0}, stage : Stage]

ASSUME BusAssumption ==
  /\ Stage \subseteq JobStage
  /\ MaxEvents \in Nat
  /\ NoChannel \notin Channel
  /\ Sentinel \notin Event

VARIABLES
  channelOf,    \* _channels: the channel object of a session, if any
  allocated,    \* channel objects created so far
  backlog,      \* channel.backlog; event n is the n-th one published on it
  listeners,    \* channel.listeners, as the owners of the queues
  pc,           \* where a generator is suspended
  attached,     \* the channel object a generator holds
  closeOnDone,  \* its close_on_done argument
  replay,       \* its replay argument
  snap,         \* list(channel.backlog), copied when the replay begins
  received,     \* history: the events it has yielded to its consumer
  queue,        \* its asyncio.Queue
  joined        \* history: Len(backlog) when its queue became a listener

busVars == <<channelOf, allocated, backlog, listeners>>
subVars == <<pc, attached, closeOnDone, replay, snap, received, queue, joined>>
vars == <<channelOf, allocated, backlog, listeners,
          pc, attached, closeOnDone, replay, snap, received, queue, joined>>

Init ==
  /\ channelOf = [s \in Session |-> NoChannel]
  /\ allocated = {}
  /\ backlog = [c \in Channel |-> <<>>]
  /\ listeners = [c \in Channel |-> {}]
  /\ pc = [u \in Subscriber |-> "idle"]
  /\ attached = [u \in Subscriber |-> NoChannel]
  /\ closeOnDone = [u \in Subscriber |-> TRUE]
  /\ replay = [u \in Subscriber |-> FALSE]
  /\ snap = [u \in Subscriber |-> <<>>]
  /\ received = [u \in Subscriber |-> <<>>]
  /\ queue = [u \in Subscriber |-> <<>>]
  /\ joined = [u \in Subscriber |-> 0]

----------------------------------------------------------------------------
(* The publisher's side.                                                   *)

\* _channels.setdefault(s, _SessionChannel()) returns c.
SetDefault(s, c) ==
  /\ channelOf[s] = NoChannel => c \notin allocated
  /\ channelOf[s] # NoChannel => c = channelOf[s]
  /\ channelOf' = [channelOf EXCEPT ![s] = c]
  /\ allocated' = allocated \cup {c}

\* Mutants: a stack instead of a queue; a full queue drops the event.
PutToListenersLifo(c, x) ==
  queue' = [u \in Subscriber |->
              IF u \in listeners[c] THEN <<x>> \o queue[u] ELSE queue[u]]

PutToListenersIfRoom(c, x) ==
  queue' = [u \in Subscriber |->
              IF u \in listeners[c] /\ queue[u] = <<>> THEN <<x>> ELSE queue[u]]

\* Put x at the end of the queue of every listener of c.
PutToListeners(c, x) ==
  queue' = [u \in Subscriber |->
              IF u \in listeners[c] THEN Append(queue[u], x) ELSE queue[u]]

NextEvent(c, stage) == [n |-> Len(backlog[c]) + 1, stage |-> stage]

Publish(s, stage) ==
  \E c \in Channel :
    /\ SetDefault(s, c)
    /\ Len(backlog[c]) < MaxEvents
    /\ backlog' = [backlog EXCEPT ![c] = Append(@, NextEvent(c, stage))]
    /\ PutToListeners(c, NextEvent(c, stage))
    /\ UNCHANGED <<listeners, pc, attached, closeOnDone, replay, snap,
                   received, joined>>

\* Mutant: the dropped channel stays in the dictionary.
CleanupKeepsEntry(s) ==
  /\ channelOf[s] # NoChannel
  /\ PutToListeners(channelOf[s], Sentinel)
  /\ UNCHANGED <<channelOf, allocated, backlog, listeners, pc, attached,
                 closeOnDone, replay, snap, received, joined>>

\* Mutant: the listeners of the dropped channel are not told.
CleanupSilently(s) ==
  /\ channelOf[s] # NoChannel
  /\ channelOf' = [channelOf EXCEPT ![s] = NoChannel]
  /\ UNCHANGED <<allocated, backlog, listeners, subVars>>

CleanupSession(s) ==
  /\ channelOf[s] # NoChannel
  /\ channelOf' = [channelOf EXCEPT ![s] = NoChannel]
  /\ PutToListeners(channelOf[s], Sentinel)
  /\ UNCHANGED <<allocated, backlog, listeners, pc, attached, closeOnDone,
                 replay, snap, received, joined>>

----------------------------------------------------------------------------
(* The subscriber's side.                                                  *)

\* Stages 1 and 2 of subscribe meet without a suspension point when there is
\* nothing to replay: the queue is registered in the step that looked up c.
Register(u, c) ==
  /\ pc' = [pc EXCEPT ![u] = "live"]
  /\ listeners' = [listeners EXCEPT ![c] = @ \cup {u}]
  /\ joined' = [joined EXCEPT ![u] = Len(backlog[c])]

Yield(u, event) == received' = [received EXCEPT ![u] = Append(@, event)]

\* What the generator copies before it yields anything.
SnapshotOf(c, wantReplay) == IF wantReplay THEN backlog[c] ELSE <<>>

\* The first __anext__ of subscribe(s, replay, close_on_done).
Subscribe(u, s, wantReplay, close) ==
  \E c \in Channel :
    /\ pc[u] = "idle"
    /\ SetDefault(s, c)
    /\ attached' = [attached EXCEPT ![u] = c]
    /\ replay' = [replay EXCEPT ![u] = wantReplay]
    /\ closeOnDone' = [closeOnDone EXCEPT ![u] = close]
    /\ snap' = [snap EXCEPT ![u] = SnapshotOf(c, wantReplay)]
    /\ \/ /\ SnapshotOf(c, wantReplay) # <<>>
          /\ pc' = [pc EXCEPT ![u] = "replaying"]
          /\ Yield(u, backlog[c][1])
          /\ UNCHANGED <<listeners, joined>>
       \/ /\ SnapshotOf(c, wantReplay) = <<>>
          /\ Register(u, c)
          /\ UNCHANGED received
    /\ UNCHANGED <<backlog, queue>>

\* Mutant: done does not end the stream.
EndedOnErrorOnly(u) ==
  /\ closeOnDone[u]
  /\ received[u] # <<>>
  /\ received[u][Len(received[u])].stage = "error"

\* The event just yielded ends the stream of a close_on_done subscriber.
Ended(u) ==
  /\ closeOnDone[u]
  /\ received[u] # <<>>
  /\ received[u][Len(received[u])].stage \in Terminal

\* Resumed during the replay: yield the next element of the copy ...
ReplayNext(u) ==
  /\ pc[u] = "replaying"
  /\ ~Ended(u)
  /\ Len(received[u]) < Len(snap[u])
  /\ Yield(u, snap[u][Len(received[u]) + 1])
  /\ UNCHANGED <<busVars, pc, attached, closeOnDone, replay, snap, queue, joined>>

\* ... or, when the copy is exhausted, register the queue and wait on it.
ReplayDone(u) ==
  /\ pc[u] = "replaying"
  /\ ~Ended(u)
  /\ Len(received[u]) = Len(snap[u])
  /\ Register(u, attached[u])
  /\ UNCHANGED <<channelOf, allocated, backlog, attached, closeOnDone, replay,
                 snap, received, queue>>

\* queue.get() returned an event.
Deliver(u) ==
  /\ pc[u] = "live"
  /\ ~Ended(u)
  /\ queue[u] # <<>>
  /\ Head(queue[u]) # Sentinel
  /\ Yield(u, Head(queue[u]))
  /\ queue' = [queue EXCEPT ![u] = Tail(@)]
  /\ UNCHANGED <<busVars, pc, attached, closeOnDone, replay, snap, joined>>

\* Mutant: no finally clause.
LeaveWithoutFinally(u) ==
  /\ pc' = [pc EXCEPT ![u] = "closed"]
  /\ UNCHANGED <<channelOf, allocated, backlog, listeners, attached,
                 closeOnDone, replay, snap, received, queue, joined>>

\* The generator is over; the finally clause takes its queue out.
Leave(u) ==
  /\ pc' = [pc EXCEPT ![u] = "closed"]
  /\ listeners' = [listeners EXCEPT ![attached[u]] = @ \ {u}]
  /\ UNCHANGED <<channelOf, allocated, backlog, attached, closeOnDone, replay,
                 snap, received, queue, joined>>

StopOnSentinel(u) ==
  /\ pc[u] = "live"
  /\ ~Ended(u)
  /\ queue[u] # <<>>
  /\ Head(queue[u]) = Sentinel
  /\ Leave(u)

StopOnTerminal(u) ==
  /\ pc[u] \in {"replaying", "live"}
  /\ Ended(u)
  /\ Leave(u)

\* The consumer goes away: the SSE client disconnected, the task is cancelled.
Cancel(u) ==
  /\ pc[u] \in {"replaying", "live"}
  /\ Leave(u)

\* The steps of a generator whose consumer keeps asking for the next event.
Progress(u) ==
  \/ ReplayNext(u)
  \/ ReplayDone(u)
  \/ Deliver(u)
  \/ StopOnSentinel(u)
  \/ StopOnTerminal(u)

Next ==
  \/ \E s \in Session, stage \in Stage : Publish(s, stage)
  \/ \E s \in Session : CleanupSession(s)
  \/ \E u \in Subscriber, s \in Session, wantReplay, close \in BOOLEAN :
       Subscribe(u, s, wantReplay, close)
  \/ \E u \in Subscriber : Progress(u) \/ Cancel(u)

Spec == Init /\ [][Next]_vars

\* The event loop resumes every runnable task: a generator whose consumer
\* keeps iterating makes its next step. Publishing, subscribing, cleaning up
\* and disconnecting are up to others.
FairSpec == Spec /\ \A u \in Subscriber : WF_vars(Progress(u))

----------------------------------------------------------------------------
(* Properties.                                                             *)

Channels == Channel \cup {NoChannel}

\* Every variable has its type; what was yielded are events, never the sentinel.
TypeOK ==
  /\ channelOf \in [Session -> Channels]
  /\ allocated \in SUBSET Channel
  /\ backlog \in [Channel -> Seq(Event)]
  /\ listeners \in [Channel -> SUBSET Subscriber]
  /\ pc \in [Subscriber -> {"idle", "replaying", "live", "closed"}]
  /\ attached \in [Subscriber -> Channels]
  /\ closeOnDone \in [Subscriber -> BOOLEAN]
  /\ replay \in [Subscriber -> BOOLEAN]
  /\ snap \in [Subscriber -> Seq(Event)]
  /\ received \in [Subscriber -> Seq(Event)]
  /\ queue \in [Subscriber -> Seq(Event \cup {Sentinel})]
  /\ joined \in [Subscriber -> Nat]
  /\ \A u \in Subscriber : pc[u] # "idle" => attached[u] \in Channel

\* A consumer is shown events in the order they were published and none of
\* them twice, although it is fed from two places: the copy of the backlog it
\* replays and the queue publish fills (event_bus.py:83-97).
InOrderOnce ==
  \A u \in Subscriber : \A i, j \in 1..Len(received[u]) :
    i < j => received[u][i].n < received[u][j].n

\* The lengths the properties below are about.
Published(c) == Len(backlog[c])
Copied(u) == Len(snap[u])
Given(u) == Len(received[u])
Waiting(u) == Len(queue[u])

\* Where in the backlog the i-th event of u's stream comes from: the replayed
\* copy first, then everything published since its queue was registered.
Position(u, i) == IF i <= Copied(u) THEN i ELSE joined[u] + i - Copied(u)

\* The events of u's channel that are neither in its hands nor in its queue.
Missed(u) ==
  {k \in 1..Published(attached[u]) :
     /\ \A i \in 1..Given(u) : received[u][i].n # k
     /\ \A i \in 1..Waiting(u) :
          queue[u][i] = Sentinel \/ queue[u][i].n # k}

\* From registration on nothing is lost: the events a registered listener will
\* never see are exactly those published before it registered and not in the
\* copy it replayed (event_bus.py:64-67 against 84-91).
MissedOnlyBeforeJoining ==
  \A u \in Subscriber :
    pc[u] = "live" => Missed(u) = (Copied(u) + 1)..joined[u]

\* The queues a channel feeds are those of the generators that wait on it: a
\* generator that ended, whichever way, is not fed any more (the finally of
\* event_bus.py:100-101), and one that waits is always fed.
ListenersAreLive ==
  \A c \in Channel, u \in Subscriber :
    u \in listeners[c] <=> pc[u] = "live" /\ attached[u] = c

\* A consumer that asked to be closed on done gets nothing after the terminal
\* event, from the replay or live (event_bus.py:86-87, 98-99).
NothingAfterTerminal ==
  \A u \in Subscriber : \A i \in 1..Len(received[u]) :
    closeOnDone[u] /\ received[u][i].stage \in Terminal => i = Len(received[u])

\* The parts of the inductive invariant behind the properties above: how the
\* channel, the replayed copy, the queue and what was yielded fit together.
BacklogNumbered ==
  \A c \in Channel : \A i \in 1..Published(c) : backlog[c][i].n = i

ChannelsOwned ==
  /\ \A s \in Session : channelOf[s] \in allocated \cup {NoChannel}
  /\ \A s, t \in Session :
       s # t /\ channelOf[s] = channelOf[t] => channelOf[s] = NoChannel
  /\ \A u \in Subscriber : pc[u] # "idle" => attached[u] \in allocated

IdleIsFresh(u) ==
  pc[u] = "idle" => received[u] = <<>> /\ queue[u] = <<>>

ReplayExact(u) ==
  pc[u] = "replaying" =>
    /\ queue[u] = <<>>
    /\ Given(u) \in 1..Copied(u)
    /\ Copied(u) <= Published(attached[u])
    /\ \A i \in 1..Copied(u) : snap[u][i].n = i
    /\ \A i \in 1..Given(u) : received[u][i].n = i

\* The queue of a listener whose channel cleanup_session has dropped.
SentinelQueued(u) == queue[u] # <<>> /\ queue[u][Len(queue[u])] = Sentinel

LiveExact(u) ==
  pc[u] = "live" =>
    /\ Copied(u) <= Given(u)
    /\ Copied(u) <= joined[u]
    /\ \A i \in 1..Given(u) : received[u][i].n = Position(u, i)
    /\ \A i \in 1..Waiting(u) :
         queue[u][i] # Sentinel =>
           queue[u][i].n = joined[u] + Given(u) + i - Copied(u)
    /\ \A i \in 1..Waiting(u) : queue[u][i] = Sentinel => i = Waiting(u)
    /\ SentinelQueued(u) =>
         /\ \A s \in Session : channelOf[s] # attached[u]
         /\ Published(attached[u]) + Copied(u) + 1 =
              joined[u] + Given(u) + Waiting(u)
    /\ ~SentinelQueued(u) =>
         Published(attached[u]) + Copied(u) = joined[u] + Given(u) + Waiting(u)

\* The whole of it, at every point of every stream (event_bus.py:58-109).
StreamInv ==
  /\ BacklogNumbered
  /\ ChannelsOwned
  /\ ListenersAreLive
  /\ \A u \in Subscriber : IdleIsFresh(u) /\ ReplayExact(u) /\ LiveExact(u)

\* An end that reached a listener's queue, the terminal event of a
\* close_on_done listener or the sentinel of cleanup_session, ends its stream,
\* however many events are in front of it (event_bus.py:94-99, 104-109).
QueuedEndEndsStream ==
  \A u \in Subscriber :
    ( /\ pc[u] = "live"
      /\ \E i \in 1..Len(queue[u]) :
           \/ queue[u][i] = Sentinel
           \/ closeOnDone[u] /\ queue[u][i].stage \in Terminal )
    ~> pc[u] = "closed"

----------------------------------------------------------------------------
(* The bus implements a log per channel and a cursor per generator.        *)

\* Events of the log that u is past: those it was given, and those it skipped
\* when it joined.
Cursor(u) ==
  IF joined[u] = 0 THEN Given(u) ELSE joined[u] + Given(u) - Copied(u)

Mode(u) ==
  CASE pc[u] = "idle" -> "idle"
    [] pc[u] = "replaying" -> "catching_up"
    [] pc[u] = "live" -> "joined"
    [] pc[u] = "closed" -> "over"

Stream ==
  INSTANCE EventStream WITH
    Reader <- Subscriber,
    log <- backlog,
    used <- allocated,
    open <- {channelOf[s] : s \in Session} \ {NoChannel},
    ending <- {u \in Subscriber : SentinelQueued(u)},
    at <- attached,
    mode <- [u \in Subscriber |-> Mode(u)],
    closing <- closeOnDone,
    cursor <- [u \in Subscriber |-> Cursor(u)],
    given <- received

\* The copy, the queue and the registration together show a consumer nothing
\* but a log read in order with one jump, and every event and end it is due
\* while it keeps asking (event_bus.py:69-101).
ImplementsStream == Stream!FairSpec
=============================================================================
