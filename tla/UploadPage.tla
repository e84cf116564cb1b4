----------------------------- MODULE UploadPage -----------------------------
(***************************************************************************)
(* The upload page (ui/src/pages/UploadPage.tsx, lib/sse.ts, stores/       *)
(* upload.ts) following a job over the event stream of its session, which  *)
(* is EventStream, as the bus implements it. The page has one EventSource  *)
(* at a time; a step of the browser is one task with its microtasks, in    *)
(* which React commits an update of an external store and its effects.     *)
(***************************************************************************)
EXTENDS EventStream

CONSTANTS
  Page, Job,   \* the one Reader, and the one Channel, its session's
  MaxEvents    \* bound: events of a job, two or more

VARIABLES
  view,    \* "upload" or "verify"
  shown,   \* stage of the last event in the store, which the progress bar shows
  timer    \* the page is to navigate

pageVars == <<view, shown, timer>>
allVars == <<streamVars, pageVars>>

PageInit == Init /\ view = "upload" /\ shown = "none" /\ timer = FALSE

Finished == log[Job] # <<>> /\ log[Job][Len(log[Job])].stage \in Terminal

\* runner.run: uploaded, an event per file, and the end.
Publish ==
  /\ ~Finished
  /\ \E stage \in IF log[Job] = <<>> THEN {"uploaded"}
                  ELSE Terminal \cup IF Len(log[Job]) < MaxEvents - 1 THEN {"rule_based"} ELSE {} :
       Write(Job, stage)
  /\ UNCHANGED pageVars

\* new EventSource: a request with replay, closed on done.
Connect ==
  /\ view = "upload"
  /\ Start(Page, Job, TRUE)
  /\ log[Job] # <<>> => mode'[Page] = "catching_up"
  /\ UNCHANGED pageVars

\* The server sends the next event, or ends the response.
Send == Advance(Page) /\ UNCHANGED pageVars

\* es.close(); the next EventSource has not asked for anything yet.
Close ==
  /\ mode' = [mode EXCEPT ![Page] = "idle"]
  /\ at' = [at EXCEPT ![Page] = NoChannel]
  /\ cursor' = [cursor EXCEPT ![Page] = 0]
  /\ given' = [given EXCEPT ![Page] = <<>>]
  /\ UNCHANGED <<log, used, open, ending, closing>>

\* onmessage: the event is stored, and done starts the timer. The store is a
\* dependency of the effect, whose clean-up closes the source and which opens
\* another one.
Receive ==
  /\ view = "upload"
  /\ given[Page] # <<>>
  /\ LET event == given[Page][1] IN
       /\ shown' = event.stage
       /\ timer' = (timer \/ event.stage = "done")
  /\ Close
  /\ UNCHANGED view

\* setTimeout has run out: the page is left, and its source closed.
Navigate ==
  /\ view = "upload" /\ timer
  /\ view' = "verify"
  /\ Close
  /\ UNCHANGED <<shown, timer>>

PageNext == Publish \/ Connect \/ Send \/ Receive \/ Navigate

\* The job goes on, server and network deliver, and the browser runs its tasks.
PageSpec ==
  /\ PageInit /\ [][PageNext]_allVars
  /\ WF_allVars(Publish) /\ WF_allVars(Connect) /\ WF_allVars(Send)
  /\ WF_allVars(Receive) /\ WF_allVars(Navigate)

----------------------------------------------------------------------------
\* When the job is done, the page goes on to the review (UploadPage.tsx:48).
DoneLeadsToVerify ==
  (Finished /\ log[Job][Len(log[Job])].stage = "done") ~> view = "verify"
=============================================================================
