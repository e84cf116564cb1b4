---------------------------- MODULE EventStream ----------------------------
(***************************************************************************)
(* What the job event bus promises its readers: every channel is a log; a  *)
(* reader has a cursor in one log. It first catches up with what is there, *)
(* then joins the channel, jumping to the end of the log as it is at that  *)
(* moment, and from then on reads every event. There are no queues, copies *)
(* or registered listeners here: JobEventBus shows that they amount to     *)
(* this.                                                                   *)
(***************************************************************************)
EXTENDS Naturals, Sequences

CONSTANTS
  Reader, Channel, NoChannel,
  Stage, Terminal   \* event stages, and those that end a closing reader

VARIABLES
  log,        \* the events of a channel
  used,       \* channels that were ever in use
  open,       \* channels that can still be written and joined
  ending,     \* readers that had joined a channel when it was dropped
  at,         \* the channel of a reader
  mode,       \* "idle", "catching_up", "joined" or "over"
  closing,    \* the reader ends after a terminal event
  cursor,     \* events of the log the reader is past
  given       \* what it was given

streamVars == <<log, used, open, ending, at, mode, closing, cursor, given>>

Init ==
  /\ log = [c \in Channel |-> <<>>]
  /\ used = {} /\ open = {} /\ ending = {}
  /\ at = [r \in Reader |-> NoChannel]
  /\ mode = [r \in Reader |-> "idle"]
  /\ closing = [r \in Reader |-> TRUE]
  /\ cursor = [r \in Reader |-> 0]
  /\ given = [r \in Reader |-> <<>>]

\* Channel c is in use from now on; a dropped one is never taken again.
Use(c) ==
  /\ c \in open \/ c \notin used
  /\ open' = open \cup {c}
  /\ used' = used \cup {c}

Write(c, stage) ==
  /\ Use(c)
  /\ log' = [log EXCEPT ![c] = Append(@, [n |-> Len(@) + 1, stage |-> stage])]
  /\ UNCHANGED <<ending, at, mode, closing, cursor, given>>

Drop(c) ==
  /\ c \in open
  /\ open' = open \ {c}
  /\ ending' = ending \cup {r \in Reader : mode[r] = "joined" /\ at[r] = c}
  /\ UNCHANGED <<log, used, at, mode, closing, cursor, given>>

\* A new reader joins at the end, or catches up from the first event.
Start(r, c, close) ==
  /\ mode[r] = "idle"
  /\ Use(c)
  /\ at' = [at EXCEPT ![r] = c]
  /\ closing' = [closing EXCEPT ![r] = close]
  /\ \/ /\ mode' = [mode EXCEPT ![r] = "joined"]
        /\ cursor' = [cursor EXCEPT ![r] = Len(log[c])]
        /\ UNCHANGED given
     \/ /\ log[c] # <<>>
        /\ mode' = [mode EXCEPT ![r] = "catching_up"]
        /\ cursor' = [cursor EXCEPT ![r] = 1]
        /\ given' = [given EXCEPT ![r] = <<log[c][1]>>]
  /\ UNCHANGED <<log, ending>>

Reading(r) == mode[r] \in {"catching_up", "joined"}

\* What it was given last ends the stream.
Ended(r) ==
  closing[r] /\ given[r] # <<>> /\ given[r][Len(given[r])].stage \in Terminal

Read(r) ==
  /\ Reading(r) /\ ~Ended(r)
  /\ cursor[r] < Len(log[at[r]])
  /\ cursor' = [cursor EXCEPT ![r] = @ + 1]
  /\ given' = [given EXCEPT ![r] = Append(@, log[at[r]][cursor[r] + 1])]
  /\ UNCHANGED <<log, used, open, ending, at, mode, closing>>

\* The one gap: events written while the reader was catching up.
Join(r) ==
  /\ mode[r] = "catching_up" /\ ~Ended(r)
  /\ mode' = [mode EXCEPT ![r] = "joined"]
  /\ cursor' = [cursor EXCEPT ![r] = Len(log[at[r]])]
  /\ UNCHANGED <<log, used, open, ending, at, closing, given>>

Leave(r) ==
  /\ mode' = [mode EXCEPT ![r] = "over"]
  /\ UNCHANGED <<log, used, open, ending, at, closing, cursor, given>>

\* The stream ends by itself after a terminal event, or when a dropped channel
\* has been read to its end; a reader that joins later is not told.
End(r) ==
  /\ Reading(r)
  /\ Ended(r) \/ (r \in ending /\ cursor[r] = Len(log[at[r]]))
  /\ Leave(r)

Cancel(r) == Reading(r) /\ Leave(r)

Advance(r) == Read(r) \/ Join(r) \/ End(r)

Next ==
  \/ \E c \in Channel, stage \in Stage : Write(c, stage)
  \/ \E c \in Channel : Drop(c)
  \/ \E r \in Reader, c \in Channel, close \in BOOLEAN : Start(r, c, close)
  \/ \E r \in Reader : Advance(r) \/ Cancel(r)

Spec == Init /\ [][Next]_streamVars

\* A reader is given what it has not read, and its end, if it keeps asking.
FairSpec == Spec /\ \A r \in Reader : WF_streamVars(Advance(r))
=============================================================================
