------------------------------ MODULE JobRunner ------------------------------
(***************************************************************************)
(* JobRunner.run of app/services/jobs/runner.py: one coroutine per job, all *)
(* of them on one asyncio event loop, sharing one asyncio.Semaphore.        *)
(*                                                                         *)
(* A step is the code between two suspension points. A job suspends only    *)
(* while it waits for a permit and while the receipt parser works, so each  *)
(* step takes it from one file to the next; card statements are parsed      *)
(* synchronously, in the step that follows the last receipt.                *)
(***************************************************************************)
EXTENDS Integers, Sequences, FiniteSets

CONSTANTS
  Job,              \* jobs, one per upload session
  Permits,          \* ollama_concurrency, the semaphore's initial value
  StatementParser,  \* "none", "with_suffix", or "content_only"
  MaxFiles,         \* bound: receipts, and card statements, of one job
  MaxTx             \* bound: transactions found in one file (N-up scans)

ASSUME RunnerAssumption ==
  /\ Permits \in Nat \ {0}
  /\ StatementParser \in {"none", "with_suffix", "content_only"}
  /\ MaxFiles \in Nat
  /\ MaxTx \in Nat

VARIABLES
  pc,          \* where the coroutine of a job is
  receipts,    \* len(receipts); files 0 .. receipts-1
  statements,  \* len(card_statements); files receipts .. total-1
  idx,         \* the receipt being parsed or waited for
  parsed,      \* results of _run_receipts: transactions <<file, k>>
  result,      \* JobResult.transactions
  failure,     \* which call made run() raise
  log,         \* the events published so far
  value,       \* Semaphore._value
  waiters,     \* Semaphore._waiters, first come first
  woken        \* how many of the first waiters have their future resolved

semVars == <<value, waiters, woken>>
runnerVars == <<pc, receipts, statements, idx, parsed, result, failure, log,
                value, waiters, woken>>

Ended == {"returned", "raised"}
Active == {"waiting", "parsing"}

RunnerInit ==
  /\ pc = [j \in Job |-> "idle"]
  /\ receipts = [j \in Job |-> 0]
  /\ statements = [j \in Job |-> 0]
  /\ idx = [j \in Job |-> 0]
  /\ parsed = [j \in Job |-> {}]
  /\ result = [j \in Job |-> {}]
  /\ failure = [j \in Job |-> "none"]
  /\ log = [j \in Job |-> <<>>]
  /\ value = Permits
  /\ waiters = <<>>
  /\ woken = 0

Total(j) == receipts[j] + statements[j]

Event(stage, file) == [stage |-> stage, file_idx |-> file]
JobEvent == [stage : {"uploaded", "rule_based", "done", "error"}, file_idx : Nat]

\* The events of the files lo .. hi-1, in the order they are parsed.
Announce(lo, hi) == [i \in 1 .. hi - lo |-> Event("rule_based", lo + i - 1)]

Txs(files, count) == {tx \in files \X (1 .. MaxTx) : tx[2] <= count[tx[1]]}

----------------------------------------------------------------------------
(* asyncio.Semaphore. A resolved waiter stays in the queue until its task   *)
(* runs; the loop runs resolved waiters in the order they were resolved.    *)

\* _wake_up_next: resolve the first waiter that is still pending.
WakeUpNext(v, ws, w) ==
  IF w < Len(ws)
  THEN value' = v - 1 /\ woken' = w + 1
  ELSE value' = v /\ woken' = w

\* acquire: take a permit, or stand in line behind any waiter, woken or not.
Acquire(j, v, ws, w) ==
  IF v > 0 /\ ws = <<>>
  THEN /\ value' = v - 1
       /\ pc' = [pc EXCEPT ![j] = "parsing"]
       /\ UNCHANGED <<waiters, woken>>
  ELSE /\ waiters' = Append(ws, j)
       /\ pc' = [pc EXCEPT ![j] = "waiting"]
       /\ value' = v
       /\ woken' = w

\* release, and then acquire by the same job with nothing in between: a
\* pending waiter gets the permit, and the job stands in line behind it.
ReleaseAcquire(j) ==
  IF woken < Len(waiters)
  THEN Acquire(j, value, waiters, woken + 1)
  ELSE Acquire(j, value + 1, waiters, woken)

Release == WakeUpNext(value + 1, waiters, woken) /\ UNCHANGED waiters

----------------------------------------------------------------------------
(* The tail of run(): what follows the last receipt, without suspension.    *)

\* _run_card_statements calls the parser: not without one, not with no files.
CallsParser(c) == StatementParser # "none" /\ c > 0

End(j, outcome, why, txs, events) ==
  /\ pc' = [pc EXCEPT ![j] = outcome]
  /\ failure' = [failure EXCEPT ![j] = why]
  /\ result' = [result EXCEPT ![j] = txs]
  /\ log' = [log EXCEPT ![j] = events]

\* Mutant: run() raises without announcing it.
RaiseSilently(j, why, events) == End(j, "raised", why, {}, events)

\* run() announces the failure and raises JobRunnerError.
RaiseError(j, why, events) ==
  End(j, "raised", why, {}, events \o <<Event("error", 0)>>)

\* Mutant: the statements are announced without the offset of the receipts.
ReconcileNoOffset(j, r, c, txs, events) ==
  \E count \in [r .. r + c - 1 -> 0 .. MaxTx] :
    LET cards == IF CallsParser(c) THEN Txs(r .. r + c - 1, count) ELSE {}
    IN \E matched \in SUBSET cards :
         /\ Cardinality(matched) <= Cardinality(txs)
         /\ End(j, "returned", "none", txs \cup (cards \ matched),
                events \o (IF CallsParser(c) THEN Announce(0, c) ELSE <<>>)
                       \o <<Event("done", r + c)>>)

\* The statements r .. r+c-1 are parsed and matched. Each matched card
\* transaction is dropped in favour of its receipt, one receipt each.
Reconcile(j, r, c, txs, events) ==
  \E count \in [r .. r + c - 1 -> 0 .. MaxTx] :
    LET cards == IF CallsParser(c) THEN Txs(r .. r + c - 1, count) ELSE {}
    IN \E matched \in SUBSET cards :
         /\ Cardinality(matched) <= Cardinality(txs)
         /\ End(j, "returned", "none", txs \cup (cards \ matched),
                events \o (IF CallsParser(c) THEN Announce(r, r + c) ELSE <<>>)
                       \o <<Event("done", r + c)>>)

\* The i-th statement makes the parser raise. main.py wires parse_xlsx, which
\* takes no suffix argument: its first call raises TypeError.
StatementRaises(j, r, c, events) ==
  /\ CallsParser(c)
  /\ \E i \in 1 .. c :
       IF StatementParser = "content_only"
       THEN i = 1 /\ RaiseError(j, "signature", events \o Announce(r, r + i))
       ELSE RaiseError(j, "statement", events \o Announce(r, r + i))

FinishRun(j, r, c, txs, events) ==
  \/ /\ CallsParser(c) => StatementParser = "with_suffix"
     /\ Reconcile(j, r, c, txs, events)
  \/ StatementRaises(j, r, c, events)

----------------------------------------------------------------------------
(* The steps of a job.                                                      *)

\* run() up to its first suspension, for an upload of r receipts and c
\* statements; without receipts nothing suspends and run() ends in this step.
Run(j, r, c) ==
  /\ pc[j] = "idle"
  /\ r + c > 0
  /\ receipts' = [receipts EXCEPT ![j] = r]
  /\ statements' = [statements EXCEPT ![j] = c]
  /\ \/ /\ r > 0
        /\ log' = [log EXCEPT ![j] = <<Event("uploaded", 0)>> \o Announce(0, 1)]
        /\ Acquire(j, value, waiters, woken)
        /\ UNCHANGED <<result, failure>>
     \/ /\ r = 0
        /\ FinishRun(j, r, c, {}, <<Event("uploaded", 0)>>)
        /\ UNCHANGED semVars
  /\ UNCHANGED <<idx, parsed>>

\* Mutant: no permit is passed on.
ResumeOnly(j) ==
  /\ woken > 0
  /\ j = Head(waiters)
  /\ waiters' = Tail(waiters)
  /\ woken' = woken - 1
  /\ pc' = [pc EXCEPT ![j] = "parsing"]
  /\ UNCHANGED <<value, receipts, statements, idx, parsed, result, failure, log>>

\* The task of a woken waiter runs: it leaves the queue, passes a permit that
\* became free meanwhile on to the next waiter, and starts the parser.
Resume(j) ==
  /\ woken > 0
  /\ j = Head(waiters)
  /\ waiters' = Tail(waiters)
  /\ IF value > 0
     THEN WakeUpNext(value, Tail(waiters), woken - 1)
     ELSE value' = value /\ woken' = woken - 1
  /\ pc' = [pc EXCEPT ![j] = "parsing"]
  /\ UNCHANGED <<receipts, statements, idx, parsed, result, failure, log>>

\* The receipt parser returned n transactions.
FileParsed(j, n) ==
  /\ pc[j] = "parsing"
  /\ parsed' = [parsed EXCEPT ![j] = @ \cup {<<idx[j], k>> : k \in 1 .. n}]
  /\ \/ /\ idx[j] + 1 < receipts[j]
        /\ idx' = [idx EXCEPT ![j] = @ + 1]
        /\ log' = [log EXCEPT ![j] = @ \o Announce(idx[j] + 1, idx[j] + 2)]
        /\ ReleaseAcquire(j)
        /\ UNCHANGED <<result, failure>>
     \/ /\ idx[j] + 1 = receipts[j]
        /\ Release
        /\ FinishRun(j, receipts[j], statements[j], parsed'[j], log[j])
        /\ UNCHANGED idx
  /\ UNCHANGED <<receipts, statements>>

\* Mutant: the permit is not given back when the parser raises.
ParserRaisesKeepsPermit(j) ==
  /\ pc[j] = "parsing"
  /\ RaiseError(j, "receipt", log[j])
  /\ UNCHANGED <<receipts, statements, idx, parsed, semVars>>

\* The receipt parser raised; async with gives the permit back first.
ParserRaises(j) ==
  /\ pc[j] = "parsing"
  /\ Release
  /\ RaiseError(j, "receipt", log[j])
  /\ UNCHANGED <<receipts, statements, idx, parsed>>

\* The process ends: coroutines, the semaphore and the bus are gone. No
\* except clause of run() is entered.
Halt ==
  /\ pc' = [j \in Job |-> IF pc[j] \in Active THEN "lost" ELSE pc[j]]
  /\ value' = Permits
  /\ waiters' = <<>>
  /\ woken' = 0
  /\ UNCHANGED <<receipts, statements, idx, parsed, result, failure, log>>

ParserReturns(j) == ParserRaises(j) \/ \E n \in 0 .. MaxTx : FileParsed(j, n)

RunnerNext ==
  \/ \E j \in Job, r, c \in 0 .. MaxFiles : Run(j, r, c)
  \/ \E j \in Job : Resume(j) \/ ParserReturns(j)
  \/ Halt

RunnerSpec == RunnerInit /\ [][RunnerNext]_runnerVars

\* The event loop runs woken tasks, and the receipt parser returns or raises:
\* its HTTP client has a timeout of 180 seconds.
FairRunnerSpec ==
  /\ RunnerSpec
  /\ \A j \in Job :
       WF_runnerVars(Resume(j)) /\ WF_runnerVars(ParserReturns(j))

----------------------------------------------------------------------------
(* Properties.                                                             *)

Parsing == {j \in Job : pc[j] = "parsing"}
Busy == Cardinality(Parsing)

\* Every variable has its type.
RunnerTypeOK ==
  /\ pc \in [Job -> {"idle", "lost"} \cup Active \cup Ended]
  /\ receipts \in [Job -> Nat]
  /\ statements \in [Job -> Nat]
  /\ idx \in [Job -> Nat]
  /\ parsed \in [Job -> SUBSET (Nat \X Nat)]
  /\ result \in [Job -> SUBSET (Nat \X Nat)]
  /\ failure \in [Job -> {"none", "receipt", "statement", "signature"}]
  /\ log \in [Job -> Seq(JobEvent)]
  /\ value \in Nat
  /\ waiters \in Seq(Job)
  /\ woken \in 0 .. Len(waiters)

\* At most Permits receipt parsers run at a time and no permit is lost or
\* made up, whichever way a parser ends (runner.py:34-35, 157-158).
PermitsConserved == value + Busy + woken = Permits

\* A job that waits is one the semaphore knows, once: no job is forgotten and
\* none is served twice (runner.py:157).
WaitersAreWaiting ==
  /\ \A j \in Job : pc[j] = "waiting" <=> \E i \in 1 .. Len(waiters) : waiters[i] = j
  /\ \A i, k \in 1 .. Len(waiters) : waiters[i] = waiters[k] => i = k

\* A free permit and a job that still waits for one never coexist, but for
\* the moment before a woken job runs and passes the permit on.
NoPermitIdle == value > 0 /\ woken < Len(waiters) => woken > 0

\* What a job publishes tells its progress: the upload, every file once and in
\* order before it is parsed, and a terminal event exactly when run() ends, as
\* the last one (runner.py:83-138, 150-157, 181-191).
ProgressProtocol ==
  \A j \in Job :
    /\ pc[j] = "idle" <=> log[j] = <<>>
    /\ pc[j] \in Active =>
         log[j] = <<Event("uploaded", 0)>> \o Announce(0, idx[j] + 1)
    /\ pc[j] = "returned" =>
         log[j] = <<Event("uploaded", 0)>>
                  \o Announce(0, IF StatementParser = "none" THEN receipts[j] ELSE Total(j))
                  \o <<Event("done", Total(j))>>
    /\ pc[j] = "raised" => \E n \in 1 .. Total(j) :
         log[j] = <<Event("uploaded", 0)>> \o Announce(0, n) \o <<Event("error", 0)>>

\* Only a file can make a job fail: both parsers the runner is given can be
\* called the way it calls them (runner.py:4, 191; main.py:115-119).
FailsOnlyOnFiles == \A j \in Job : failure[j] # "signature"

\* A job that started ends: no permit is lost and no job is overtaken for ever
\* by jobs with many files, unless the process ends first.
RunEnds ==
  \A j \in Job : pc[j] \in Active ~> pc[j] \in Ended \cup {"lost"}
=============================================================================
