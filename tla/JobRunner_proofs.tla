-------------------------- MODULE JobRunner_proofs --------------------------
(***************************************************************************)
(* Proofs about JobRunner, for any number of jobs, permits and files.      *)
(***************************************************************************)
EXTENDS JobRunner, FiniteSetTheorems, SequenceTheorems, TLAPS

Failure == {"none", "receipt", "statement", "signature"}

----------------------------------------------------------------------------
(* Types.                                                                  *)

\* The events of consecutive files are a sequence of events.
LEMMA AnnounceTyped ==
  ASSUME NEW lo \in Nat, NEW hi \in Nat, lo <= hi
  PROVE  Announce(lo, hi) \in Seq(JobEvent)
<1>1. hi - lo \in Nat
  OBVIOUS
<1>2. \A i \in 1 .. hi - lo : Event("rule_based", lo + i - 1) \in JobEvent
  BY DEF Event, JobEvent
<1>3. Announce(lo, hi) \in [1 .. hi - lo -> JobEvent]
  BY <1>2 DEF Announce
<1> QED BY <1>1, <1>3, SeqDef

\* One event is a sequence of events, and so is what is published after it.
LEMMA EntriesTyped ==
  /\ \A stage \in {"uploaded", "rule_based", "done", "error"}, n \in Nat :
       <<Event(stage, n)>> \in Seq(JobEvent)
  /\ \A e1, e2 \in Seq(JobEvent) : e1 \o e2 \in Seq(JobEvent)
BY ConcatProperties DEF Event, JobEvent

\* A run that ends leaves its outcome typed.
LEMMA EndTyped ==
  ASSUME RunnerTypeOK, NEW j \in Job, NEW outcome \in Ended,
         NEW why \in Failure, NEW txs \in SUBSET (Nat \X Nat),
         NEW events \in Seq(JobEvent), End(j, outcome, why, txs, events)
  PROVE  /\ pc' = [pc EXCEPT ![j] = outcome]
         /\ pc' \in [Job -> {"idle", "lost"} \cup Active \cup Ended]
         /\ failure' \in [Job -> Failure]
         /\ result' \in [Job -> SUBSET (Nat \X Nat)]
         /\ log' \in [Job -> Seq(JobEvent)]
BY DEF RunnerTypeOK, End, Failure

\* run() raises with an outcome of the right type.
LEMMA RaiseTyped ==
  ASSUME RunnerTypeOK, NEW j \in Job, NEW why \in Failure,
         NEW events \in Seq(JobEvent), RaiseError(j, why, events)
  PROVE  /\ pc' = [pc EXCEPT ![j] = "raised"]
         /\ pc' \in [Job -> {"idle", "lost"} \cup Active \cup Ended]
         /\ failure' \in [Job -> Failure]
         /\ result' \in [Job -> SUBSET (Nat \X Nat)]
         /\ log' \in [Job -> Seq(JobEvent)]
<1>1. events \o <<Event("error", 0)>> \in Seq(JobEvent)
  BY EntriesTyped
<1>2. End(j, "raised", why, {}, events \o <<Event("error", 0)>>)
  BY DEF RaiseError
<1> QED BY <1>1, <1>2, EndTyped DEF Ended

\* The tail of run() ends the run with an outcome of the right type.
LEMMA FinishTyped ==
  ASSUME RunnerTypeOK, NEW j \in Job, NEW r \in Nat, NEW c \in Nat,
         NEW txs \in SUBSET (Nat \X Nat), NEW events \in Seq(JobEvent),
         FinishRun(j, r, c, txs, events)
  PROVE  /\ \E x \in Ended : pc' = [pc EXCEPT ![j] = x]
         /\ pc' \in [Job -> {"idle", "lost"} \cup Active \cup Ended]
         /\ failure' \in [Job -> Failure]
         /\ result' \in [Job -> SUBSET (Nat \X Nat)]
         /\ log' \in [Job -> Seq(JobEvent)]
<1>1. CASE Reconcile(j, r, c, txs, events)
  <2>1. PICK count \in [r .. r + c - 1 -> 0 .. MaxTx] :
          Reconcile(j, r, c, txs, events)!(count)
    BY <1>1 DEF Reconcile
  <2> DEFINE cards == IF CallsParser(c) THEN Txs(r .. r + c - 1, count) ELSE {}
             files == IF CallsParser(c) THEN Announce(r, r + c) ELSE <<>>
  <2>2. cards \subseteq Nat \X Nat
    BY RunnerAssumption DEF Txs
  <2>3. events \o files \o <<Event("done", r + c)>> \in Seq(JobEvent)
    <3>1. files \in Seq(JobEvent)
      BY AnnounceTyped
    <3>2. <<Event("done", r + c)>> \in Seq(JobEvent)
      BY EntriesTyped
    <3> HIDE DEF files
    <3> QED BY <3>1, <3>2, EntriesTyped
  <2>4. PICK matched \in SUBSET cards :
          End(j, "returned", "none", txs \cup (cards \ matched),
              events \o files \o <<Event("done", r + c)>>)
    BY <2>1
  <2>5. txs \cup (cards \ matched) \in SUBSET (Nat \X Nat)
    BY <2>2
  <2> HIDE DEF cards, files
  <2> QED BY <2>3, <2>4, <2>5, EndTyped DEF Ended, Failure
<1>2. CASE StatementRaises(j, r, c, events)
  <2>1. PICK i \in 1 .. c, why \in {"signature", "statement"} :
          RaiseError(j, why, events \o Announce(r, r + i))
    BY <1>2 DEF StatementRaises
  <2>2. events \o Announce(r, r + i) \in Seq(JobEvent)
    BY AnnounceTyped, EntriesTyped
  <2>3. why \in Failure
    BY DEF Failure
  <2> QED BY <2>1, <2>2, <2>3, RaiseTyped DEF Ended
<1> QED BY <1>1, <1>2 DEF FinishRun

\* Waking a waiter keeps the semaphore typed.
LEMMA WakeTyped ==
  ASSUME NEW v \in Nat \ {0}, NEW ws \in Seq(Job), NEW w \in 0 .. Len(ws),
         WakeUpNext(v, ws, w)
  PROVE  value' \in Nat /\ woken' \in 0 .. Len(ws)
BY DEF WakeUpNext

\* Taking a permit or standing in line keeps the semaphore typed.
LEMMA AcquireTyped ==
  ASSUME RunnerTypeOK, NEW j \in Job, NEW v \in Nat, NEW w \in 0 .. Len(waiters),
         w = woken \/ waiters # <<>>, Acquire(j, v, waiters, w)
  PROVE  /\ pc' \in [Job -> {"idle", "lost"} \cup Active \cup Ended]
         /\ value' \in Nat
         /\ waiters' \in Seq(Job)
         /\ woken' \in 0 .. Len(waiters')
<1>1. CASE v > 0 /\ waiters = <<>>
  <2>1. value' = v - 1 /\ UNCHANGED <<waiters, woken>>
        /\ pc' = [pc EXCEPT ![j] = "parsing"]
    BY <1>1 DEF Acquire
  <2>2. v - 1 \in Nat
    BY <1>1
  <2> QED BY <2>1, <2>2 DEF RunnerTypeOK, Active
<1>2. CASE ~(v > 0 /\ waiters = <<>>)
  <2>1. waiters' = Append(waiters, j) /\ value' = v /\ woken' = w
        /\ pc' = [pc EXCEPT ![j] = "waiting"]
    BY <1>2 DEF Acquire
  <2>2. waiters' \in Seq(Job) /\ Len(waiters') = Len(waiters) + 1
        /\ Len(waiters) \in Nat
    BY <2>1, AppendProperties DEF RunnerTypeOK
  <2> QED BY <2>1, <2>2 DEF RunnerTypeOK, Active
<1> QED BY <1>1, <1>2

\* The runner's state is well typed at every point of every run.
THEOREM RunnerTypeCorrect == RunnerSpec => []RunnerTypeOK
<1>1. RunnerInit => RunnerTypeOK
  BY RunnerAssumption DEF RunnerInit, RunnerTypeOK
<1>2. RunnerTypeOK /\ [RunnerNext]_runnerVars => RunnerTypeOK'
  <2> SUFFICES ASSUME RunnerTypeOK, [RunnerNext]_runnerVars PROVE RunnerTypeOK'
    OBVIOUS
  <2> USE DEF Failure
  <2>1. ASSUME NEW j \in Job, NEW r \in 0 .. MaxFiles, NEW c \in 0 .. MaxFiles,
               Run(j, r, c)
        PROVE  RunnerTypeOK'
    <3>1. r \in Nat /\ c \in Nat
      BY RunnerAssumption
    <3>2. <<Event("uploaded", 0)>> \in Seq(JobEvent)
      BY EntriesTyped
    <3>3. CASE r > 0
      <4>1. <<Event("uploaded", 0)>> \o Announce(0, 1) \in Seq(JobEvent)
        BY <3>2, AnnounceTyped, EntriesTyped
      <4>2. Acquire(j, value, waiters, woken)
        BY <2>1, <3>1, <3>3 DEF Run
      <4>3. value \in Nat /\ woken \in 0 .. Len(waiters)
        BY DEF RunnerTypeOK
      <4>4. /\ pc' \in [Job -> {"idle", "lost"} \cup Active \cup Ended]
            /\ value' \in Nat
            /\ waiters' \in Seq(Job)
            /\ woken' \in 0 .. Len(waiters')
        BY <4>2, <4>3, AcquireTyped
      <4>5. /\ receipts' = [receipts EXCEPT ![j] = r]
            /\ statements' = [statements EXCEPT ![j] = c]
            /\ log' = [log EXCEPT ![j] = <<Event("uploaded", 0)>> \o Announce(0, 1)]
            /\ UNCHANGED <<result, failure, idx, parsed>>
        BY <2>1, <3>1, <3>3 DEF Run
      <4> QED BY <3>1, <4>1, <4>4, <4>5 DEF RunnerTypeOK
    <3>4. CASE r = 0
      <4>1. FinishRun(j, r, c, {}, <<Event("uploaded", 0)>>) /\ UNCHANGED semVars
        BY <2>1, <3>1, <3>4 DEF Run
      <4>2. /\ pc' \in [Job -> {"idle", "lost"} \cup Active \cup Ended]
            /\ failure' \in [Job -> Failure]
            /\ result' \in [Job -> SUBSET (Nat \X Nat)]
            /\ log' \in [Job -> Seq(JobEvent)]
        BY <4>1, <3>1, <3>2, FinishTyped
      <4> QED BY <2>1, <3>1, <4>1, <4>2 DEF Run, RunnerTypeOK, semVars
    <3> QED BY <3>1, <3>3, <3>4
  <2>2. ASSUME NEW j \in Job, Resume(j)
        PROVE  RunnerTypeOK'
    <3>1. /\ woken > 0 /\ waiters # <<>>
          /\ waiters' = Tail(waiters)
          /\ pc' = [pc EXCEPT ![j] = "parsing"]
          /\ UNCHANGED <<receipts, statements, idx, parsed, result, failure, log>>
      BY <2>2 DEF Resume, RunnerTypeOK
    <3>2. Tail(waiters) \in Seq(Job) /\ Len(Tail(waiters)) = Len(waiters) - 1
          /\ Len(waiters) \in Nat
      BY <3>1, HeadTailProperties DEF RunnerTypeOK
    <3>3. woken - 1 \in 0 .. Len(Tail(waiters))
      BY <3>1, <3>2 DEF RunnerTypeOK
    <3>4. CASE value > 0
      <4>1. WakeUpNext(value, Tail(waiters), woken - 1) /\ value \in Nat \ {0}
        BY <2>2, <3>4 DEF Resume, RunnerTypeOK
      <4>2. value' \in Nat /\ woken' \in 0 .. Len(waiters')
        BY <4>1, <3>1, <3>2, <3>3, WakeTyped
      <4> QED BY <3>1, <3>2, <4>2 DEF RunnerTypeOK, Active
    <3>5. CASE ~(value > 0)
      <4>1. value' = value /\ woken' = woken - 1
        BY <2>2, <3>5 DEF Resume
      <4> QED BY <3>1, <3>2, <3>3, <4>1 DEF RunnerTypeOK, Active
    <3> QED BY <3>4, <3>5
  <2>3. ASSUME Release
        PROVE  value' \in Nat /\ waiters' \in Seq(Job) /\ woken' \in 0 .. Len(waiters')
    <3>1. value + 1 \in Nat \ {0} /\ waiters \in Seq(Job) /\ woken \in 0 .. Len(waiters)
      BY DEF RunnerTypeOK
    <3> QED BY <2>3, <3>1, WakeTyped DEF Release
  <2>4. ASSUME NEW j \in Job, NEW n \in 0 .. MaxTx, FileParsed(j, n)
        PROVE  RunnerTypeOK'
    <3>1. /\ idx[j] \in Nat /\ receipts[j] \in Nat /\ statements[j] \in Nat
          /\ log[j] \in Seq(JobEvent)
      BY DEF RunnerTypeOK
    <3>2. parsed' \in [Job -> SUBSET (Nat \X Nat)] /\ UNCHANGED <<receipts, statements>>
      <4>1. {<<idx[j], k>> : k \in 1 .. n} \subseteq Nat \X Nat
        BY <3>1, RunnerAssumption
      <4> QED BY <2>4, <4>1 DEF FileParsed, RunnerTypeOK
    <3>0. \/ /\ idx' = [idx EXCEPT ![j] = @ + 1]
             /\ log' = [log EXCEPT ![j] = @ \o Announce(idx[j] + 1, idx[j] + 2)]
             /\ ReleaseAcquire(j)
             /\ UNCHANGED <<result, failure>>
          \/ /\ Release
             /\ FinishRun(j, receipts[j], statements[j], parsed'[j], log[j])
             /\ UNCHANGED idx
      BY <2>4, Zenon DEF FileParsed
    <3>3. CASE /\ idx' = [idx EXCEPT ![j] = @ + 1]
               /\ log' = [log EXCEPT ![j] = @ \o Announce(idx[j] + 1, idx[j] + 2)]
               /\ ReleaseAcquire(j)
               /\ UNCHANGED <<result, failure>>
      <4>2. log[j] \o Announce(idx[j] + 1, idx[j] + 2) \in Seq(JobEvent)
        <5>1. Announce(idx[j] + 1, idx[j] + 2) \in Seq(JobEvent)
          <6>1. /\ idx[j] + 1 \in Nat /\ idx[j] + 2 \in Nat
                /\ idx[j] + 1 <= idx[j] + 2
            BY <3>1
          <6> QED BY <6>1, AnnounceTyped
        <5> QED BY <3>1, <5>1, EntriesTyped
      <4>3. /\ pc' \in [Job -> {"idle", "lost"} \cup Active \cup Ended]
            /\ value' \in Nat
            /\ waiters' \in Seq(Job)
            /\ woken' \in 0 .. Len(waiters')
        <5>1. CASE woken < Len(waiters)
          <6>1. woken + 1 \in 0 .. Len(waiters) /\ waiters # <<>> /\ value \in Nat
            BY <5>1 DEF RunnerTypeOK
          <6> QED BY <3>3, <5>1, <6>1, AcquireTyped DEF ReleaseAcquire
        <5>2. CASE ~(woken < Len(waiters))
          <6>1. woken \in 0 .. Len(waiters) /\ value + 1 \in Nat
            BY DEF RunnerTypeOK
          <6> QED BY <3>3, <5>2, <6>1, AcquireTyped DEF ReleaseAcquire
        <5> QED BY <5>1, <5>2
      <4>4. log' \in [Job -> Seq(JobEvent)] /\ idx' \in [Job -> Nat]
        BY <3>1, <3>3, <4>2 DEF RunnerTypeOK
      <4>5. UNCHANGED <<result, failure>>
        BY <3>3
      <4> QED BY <3>2, <4>3, <4>4, <4>5 DEF RunnerTypeOK
    <3>4. CASE /\ Release
               /\ FinishRun(j, receipts[j], statements[j], parsed'[j], log[j])
               /\ UNCHANGED idx
      <4>2. parsed'[j] \in SUBSET (Nat \X Nat)
        BY <3>2
      <4>3. /\ pc' \in [Job -> {"idle", "lost"} \cup Active \cup Ended]
            /\ failure' \in [Job -> Failure]
            /\ result' \in [Job -> SUBSET (Nat \X Nat)]
            /\ log' \in [Job -> Seq(JobEvent)]
        BY <3>1, <3>4, <4>2, FinishTyped
      <4> QED BY <2>3, <3>2, <3>4, <4>3 DEF RunnerTypeOK
    <3> QED BY <3>0, <3>3, <3>4
  <2>5. ASSUME NEW j \in Job, ParserRaises(j)
        PROVE  RunnerTypeOK'
    <3>1. /\ Release
          /\ RaiseError(j, "receipt", log[j])
          /\ UNCHANGED <<receipts, statements, idx, parsed>>
      BY <2>5 DEF ParserRaises
    <3>2. log[j] \in Seq(JobEvent) /\ "receipt" \in Failure
      BY DEF RunnerTypeOK
    <3>3. /\ pc' \in [Job -> {"idle", "lost"} \cup Active \cup Ended]
          /\ failure' \in [Job -> Failure]
          /\ result' \in [Job -> SUBSET (Nat \X Nat)]
          /\ log' \in [Job -> Seq(JobEvent)]
      BY <3>1, <3>2, RaiseTyped
    <3> QED BY <2>3, <3>1, <3>3 DEF RunnerTypeOK
  <2>6. CASE Halt
    BY <2>6, RunnerAssumption DEF Halt, RunnerTypeOK
  <2>7. CASE UNCHANGED runnerVars
    BY <2>7 DEF runnerVars, RunnerTypeOK
  <2> QED BY <2>1, <2>2, <2>4, <2>5, <2>6, <2>7 DEF RunnerNext, ParserReturns
<1> QED BY <1>1, <1>2, PTL DEF RunnerSpec

----------------------------------------------------------------------------
(* The semaphore.                                                          *)

\* The parsers at work but for the one of job j.
Others(j) == Cardinality(Parsing \ {j})

SemInv ==
  /\ IsFiniteSet(Parsing)
  /\ PermitsConserved
  /\ WaitersAreWaiting
  /\ NoPermitIdle

\* Taking one job out of the parsers at work.
LEMMA OthersCount ==
  ASSUME IsFiniteSet(Parsing), NEW j \in Job
  PROVE  /\ Busy \in Nat /\ Others(j) \in Nat
         /\ IsFiniteSet(Parsing \ {j})
         /\ pc[j] = "parsing" => Others(j) = Busy - 1
         /\ pc[j] # "parsing" => Others(j) = Busy
<1>1. /\ IsFiniteSet(Parsing \ {j})
      /\ Cardinality(Parsing \ {j}) =
           IF j \in Parsing THEN Cardinality(Parsing) - 1 ELSE Cardinality(Parsing)
  BY FS_RemoveElement
<1>2. j \in Parsing <=> pc[j] = "parsing"
  BY DEF Parsing
<1>3. Cardinality(Parsing) \in Nat /\ Cardinality(Parsing \ {j}) \in Nat
  BY <1>1, FS_CardinalityType
<1> QED BY <1>1, <1>2, <1>3 DEF Busy, Others

\* A step that sets the parser to work for one job.
LEMMA ParsingIn ==
  ASSUME RunnerTypeOK, IsFiniteSet(Parsing), NEW j \in Job,
         pc' = [pc EXCEPT ![j] = "parsing"]
  PROVE  IsFiniteSet(Parsing') /\ Busy' = Others(j) + 1
<1> DEFINE S == Parsing \ {j}
<1>1. IsFiniteSet(S) /\ j \notin S
  BY OthersCount
<1>2. Parsing' = S \cup {j}
  BY DEF Parsing, RunnerTypeOK
<1>3. Others(j) = Cardinality(S)
  BY DEF Others
<1> HIDE DEF S
<1>4. IsFiniteSet(S \cup {j}) /\ Cardinality(S \cup {j}) = Cardinality(S) + 1
  BY <1>1, FS_AddElement
<1> QED BY <1>2, <1>3, <1>4 DEF Busy

\* A step that leaves the parser idle for one job.
LEMMA ParsingOut ==
  ASSUME RunnerTypeOK, IsFiniteSet(Parsing), NEW j \in Job, NEW x,
         x # "parsing", pc' = [pc EXCEPT ![j] = x]
  PROVE  IsFiniteSet(Parsing') /\ Busy' = Others(j)
<1>1. Parsing' = Parsing \ {j}
  BY DEF Parsing, RunnerTypeOK
<1> QED BY <1>1, OthersCount DEF Busy, Others

\* A job that is not waiting and has no permit (any more) asks for one, when
\* the semaphore it meets, v and w, accounts for the permits of the others.
LEMMA AcquireInv ==
  ASSUME RunnerTypeOK, RunnerTypeOK', WaitersAreWaiting, IsFiniteSet(Parsing),
         NEW j \in Job, pc[j] # "waiting",
         NEW v \in Nat, NEW w \in 0 .. Len(waiters),
         w = woken \/ waiters # <<>>,
         v + Others(j) + w = Permits,
         v > 0 /\ w < Len(waiters) => w > 0,
         Acquire(j, v, waiters, w)
  PROVE  SemInv'
<1>1. waiters \in Seq(Job) /\ Len(waiters) \in Nat
  BY DEF RunnerTypeOK
<1>2. \A i \in 1 .. Len(waiters) : waiters[i] # j
  BY DEF WaitersAreWaiting
<1>3. CASE v > 0 /\ waiters = <<>>
  <2>1. value' = v - 1 /\ UNCHANGED <<waiters, woken>>
        /\ pc' = [pc EXCEPT ![j] = "parsing"]
    BY <1>3 DEF Acquire
  <2>2. w = 0 /\ woken' = 0 /\ Len(waiters) = 0
    BY <2>1, <1>1, <1>3 DEF RunnerTypeOK
  <2>3. IsFiniteSet(Parsing') /\ Others(j) \in Nat
        /\ Busy' = Others(j) + 1
    BY <2>1, ParsingIn, OthersCount
  <2>4. PermitsConserved'
    BY <2>1, <2>2, <2>3 DEF PermitsConserved
  <2>5. WaitersAreWaiting'
    BY <2>1, <2>2, <1>2 DEF WaitersAreWaiting, RunnerTypeOK
  <2>6. NoPermitIdle'
    BY <2>1, <2>2 DEF NoPermitIdle
  <2> QED BY <2>3, <2>4, <2>5, <2>6 DEF SemInv
<1>4. CASE ~(v > 0 /\ waiters = <<>>)
  <2>1. waiters' = Append(waiters, j) /\ value' = v /\ woken' = w
        /\ pc' = [pc EXCEPT ![j] = "waiting"]
    BY <1>4 DEF Acquire
  <2>2. /\ Len(waiters') = Len(waiters) + 1
        /\ \A i \in 1 .. Len(waiters) : waiters'[i] = waiters[i]
        /\ waiters'[Len(waiters) + 1] = j
    BY <2>1, <1>1, AppendProperties
  <2>3. IsFiniteSet(Parsing') /\ Others(j) \in Nat
        /\ Busy' = Others(j)
    BY <2>1, ParsingOut, OthersCount
  <2>4. PermitsConserved'
    BY <2>1, <2>3 DEF PermitsConserved
  <2>5. WaitersAreWaiting'
    <3>1. \A k \in Job : pc'[k] = "waiting" <=> pc[k] = "waiting" \/ k = j
      BY <2>1 DEF RunnerTypeOK
    <3>2. \A k \in Job : (\E i \in 1 .. Len(waiters') : waiters'[i] = k) <=>
            (\E i \in 1 .. Len(waiters) : waiters[i] = k) \/ k = j
      BY <1>1, <2>2
    <3>3. \A i, k \in 1 .. Len(waiters') : waiters'[i] = waiters'[k] => i = k
      <4> SUFFICES ASSUME NEW i \in 1 .. Len(waiters'), NEW k \in 1 .. Len(waiters'),
                          waiters'[i] = waiters'[k]
                   PROVE  i = k
        OBVIOUS
      <4>1. i \in 1 .. Len(waiters) \/ i = Len(waiters) + 1
        BY <1>1, <2>2
      <4>2. k \in 1 .. Len(waiters) \/ k = Len(waiters) + 1
        BY <1>1, <2>2
      <4>3. CASE i \in 1 .. Len(waiters) /\ k \in 1 .. Len(waiters)
        BY <4>3, <2>2 DEF WaitersAreWaiting
      <4> QED BY <4>1, <4>2, <4>3, <2>2, <1>2
    <3> QED BY <3>1, <3>2, <3>3 DEF WaitersAreWaiting
  <2>6. NoPermitIdle'
    BY <2>1, <2>2, <1>1, <1>4 DEF NoPermitIdle
  <2> QED BY <2>3, <2>4, <2>5, <2>6 DEF SemInv
<1> QED BY <1>3, <1>4

\* A job that ends gives its permit back.
LEMMA ReleaseInv ==
  ASSUME RunnerTypeOK, SemInv, NEW j \in Job, pc[j] = "parsing", NEW x \in Ended,
         pc' = [pc EXCEPT ![j] = x], Release
  PROVE  SemInv'
<1>1. value \in Nat /\ waiters \in Seq(Job) /\ Len(waiters) \in Nat
      /\ woken \in 0 .. Len(waiters) /\ waiters' = waiters
  BY DEF RunnerTypeOK, Release
<1>2. x # "parsing" /\ x # "waiting"
  BY DEF Ended
<1>3. /\ IsFiniteSet(Parsing') /\ Busy \in Nat
      /\ Busy' = Busy - 1
  BY <1>2, ParsingOut, OthersCount DEF SemInv
<1>4. value + Busy + woken = Permits
  BY DEF SemInv, PermitsConserved
<1>5. \/ woken < Len(waiters) /\ value' = value /\ woken' = woken + 1
      \/ woken = Len(waiters) /\ value' = value + 1 /\ woken' = woken
  BY <1>1 DEF Release, WakeUpNext
<1>6. PermitsConserved'
  <2>1. CASE value' = value /\ woken' = woken + 1
    <3>1. value + (Busy - 1) + (woken + 1) = Permits
      BY <1>1, <1>3, <1>4
    <3> QED BY <2>1, <3>1, <1>3 DEF PermitsConserved
  <2>2. CASE value' = value + 1 /\ woken' = woken
    <3>1. (value + 1) + (Busy - 1) + woken = Permits
      BY <1>1, <1>3, <1>4
    <3> QED BY <2>2, <3>1, <1>3 DEF PermitsConserved
  <2> QED BY <2>1, <2>2, <1>5
<1>7. WaitersAreWaiting'
  BY <1>1, <1>2 DEF SemInv, WaitersAreWaiting, RunnerTypeOK
<1>8. NoPermitIdle'
  BY <1>1, <1>5 DEF NoPermitIdle
<1> QED BY <1>3, <1>6, <1>7, <1>8 DEF SemInv

\* A woken job takes its permit and passes a free one on.
LEMMA ResumeInv ==
  ASSUME RunnerTypeOK, SemInv, NEW j \in Job, Resume(j)
  PROVE  SemInv'
<1>1. /\ value \in Nat /\ waiters \in Seq(Job) /\ Len(waiters) \in Nat
      /\ woken \in 1 .. Len(waiters) /\ waiters # <<>>
      /\ waiters' = Tail(waiters) /\ j = Head(waiters)
      /\ pc' = [pc EXCEPT ![j] = "parsing"]
  BY DEF RunnerTypeOK, Resume
<1>0. value \in Nat /\ Len(waiters) \in Nat /\ woken \in 1 .. Len(waiters)
  BY <1>1
<1>2. /\ Len(waiters') = Len(waiters) - 1
      /\ \A i \in 1 .. Len(waiters') : waiters'[i] = waiters[i + 1]
      /\ waiters[1] = j
  BY <1>1, HeadTailProperties
<1>3. pc[j] = "waiting"
  BY <1>1, <1>2 DEF SemInv, WaitersAreWaiting
<1>4. /\ IsFiniteSet(Parsing') /\ Busy \in Nat
      /\ Busy' = Busy + 1
  BY <1>1, <1>3, ParsingIn, OthersCount DEF SemInv
<1>5. \/ value > 0 /\ woken < Len(waiters) /\ value' = value - 1 /\ woken' = woken
      \/ value > 0 /\ woken = Len(waiters) /\ value' = value /\ woken' = woken - 1
      \/ value = 0 /\ value' = value /\ woken' = woken - 1
  <2>1. Len(Tail(waiters)) = Len(waiters) - 1
    BY <1>1, <1>2
  <2>2. CASE value > 0
    <3>1. WakeUpNext(value, Tail(waiters), woken - 1)
      BY <2>2 DEF Resume
    <3>2. IF woken - 1 < Len(waiters) - 1
          THEN value' = value - 1 /\ woken' = (woken - 1) + 1
          ELSE value' = value /\ woken' = woken - 1
      BY <2>1, <3>1 DEF WakeUpNext
    <3> QED BY <1>0, <2>2, <3>2
  <2>3. CASE ~(value > 0)
    BY <1>0, <2>3 DEF Resume
  <2> QED BY <2>2, <2>3
<1>6. PermitsConserved'
  <2>1. value + Busy + woken = Permits
    BY DEF SemInv, PermitsConserved
  <2>2. woken \in Nat /\ Busy \in Nat
    BY <1>0, <1>4
  <2>3. CASE value' = value - 1 /\ woken' = woken
    <3>1. (value - 1) + (Busy + 1) + woken = Permits
      BY <1>0, <2>1, <2>2
    <3> QED BY <2>3, <3>1, <1>4 DEF PermitsConserved
  <2>4. CASE value' = value /\ woken' = woken - 1
    <3>1. value + (Busy + 1) + (woken - 1) = Permits
      BY <1>0, <2>1, <2>2
    <3> QED BY <2>4, <3>1, <1>4 DEF PermitsConserved
  <2> QED BY <2>3, <2>4, <1>5
<1>7. WaitersAreWaiting'
  <2>1. \A k \in Job : pc'[k] = "waiting" <=> pc[k] = "waiting" /\ k # j
    BY <1>1 DEF RunnerTypeOK
  <2>2. \A k \in Job : (\E i \in 1 .. Len(waiters') : waiters'[i] = k) <=>
          (\E i \in 1 .. Len(waiters) : waiters[i] = k) /\ k # j
    <3> SUFFICES ASSUME NEW k \in Job
                 PROVE  (\E i \in 1 .. Len(waiters') : waiters'[i] = k) <=>
                          (\E i \in 1 .. Len(waiters) : waiters[i] = k) /\ k # j
      OBVIOUS
    <3>1. ASSUME NEW i \in 1 .. Len(waiters'), waiters'[i] = k
          PROVE  (\E m \in 1 .. Len(waiters) : waiters[m] = k) /\ k # j
      <4>1. i + 1 \in 1 .. Len(waiters) /\ waiters[i + 1] = k /\ i + 1 # 1
            /\ 1 \in 1 .. Len(waiters)
        BY <3>1, <1>1, <1>2
      <4> QED BY <4>1, <1>2 DEF SemInv, WaitersAreWaiting
    <3>2. ASSUME NEW i \in 1 .. Len(waiters), waiters[i] = k, k # j
          PROVE  \E m \in 1 .. Len(waiters') : waiters'[m] = k
      <4>1. i - 1 \in 1 .. Len(waiters') /\ (i - 1) + 1 = i
        BY <3>2, <1>1, <1>2
      <4>2. waiters'[i - 1] = waiters[i]
        BY <4>1, <1>2
      <4> QED BY <4>1, <4>2, <3>2
    <3> QED BY <3>1, <3>2
  <2>3. \A i, k \in 1 .. Len(waiters') : waiters'[i] = waiters'[k] => i = k
    <3> SUFFICES ASSUME NEW i \in 1 .. Len(waiters'), NEW k \in 1 .. Len(waiters'),
                        waiters'[i] = waiters'[k]
                 PROVE  i = k
      OBVIOUS
    <3>1. i + 1 \in 1 .. Len(waiters) /\ k + 1 \in 1 .. Len(waiters)
          /\ waiters[i + 1] = waiters[k + 1]
      BY <1>1, <1>2
    <3>2. i + 1 = k + 1
      BY <3>1 DEF SemInv, WaitersAreWaiting
    <3> QED BY <3>2, <1>1, <1>2
  <2>4. \A k \in Job : pc[k] = "waiting" <=> \E i \in 1 .. Len(waiters) : waiters[i] = k
    BY DEF SemInv, WaitersAreWaiting
  <2> QED BY <2>1, <2>2, <2>3, <2>4 DEF WaitersAreWaiting
<1>8. NoPermitIdle'
  <2>1. value' > 0 /\ woken' < Len(waiters') => woken' > 0
    <3>1. Len(waiters') = Len(waiters) - 1
      BY <1>2
    <3> QED BY <1>0, <1>5, <3>1
  <2> QED BY <2>1 DEF NoPermitIdle
<1> QED BY <1>4, <1>6, <1>7, <1>8 DEF SemInv

\* A job that goes on to its next receipt releases and asks again.
LEMMA ReleaseAcquireInv ==
  ASSUME RunnerTypeOK, RunnerTypeOK', SemInv, NEW j \in Job, pc[j] = "parsing",
         ReleaseAcquire(j)
  PROVE  SemInv'
<1>1. value \in Nat /\ Len(waiters) \in Nat /\ woken \in 0 .. Len(waiters)
      /\ waiters \in Seq(Job)
  BY DEF RunnerTypeOK
<1>2. value + Busy + woken = Permits /\ Busy \in Nat
      /\ Others(j) = Busy - 1
  <2>1. j \in Parsing /\ IsFiniteSet(Parsing)
    BY DEF SemInv, Parsing
  <2>2. Others(j) = Busy - 1
    BY <2>1, FS_RemoveElement DEF Busy, Others
  <2> QED BY <2>1, <2>2, FS_CardinalityType DEF SemInv, PermitsConserved, Busy
<1>3. WaitersAreWaiting /\ IsFiniteSet(Parsing) /\ pc[j] # "waiting"
  BY DEF SemInv
<1>4. CASE woken < Len(waiters)
  <2>1. /\ woken + 1 \in 0 .. Len(waiters) /\ woken + 1 > 0 /\ waiters # <<>>
        /\ value + Others(j) + (woken + 1) = Permits
    BY <1>1, <1>2, <1>4
  <2>2. Acquire(j, value, waiters, woken + 1)
    BY <1>4 DEF ReleaseAcquire
  <2> QED BY <1>1, <1>3, <2>1, <2>2, AcquireInv
<1>5. CASE ~(woken < Len(waiters))
  <2>1. /\ value + 1 \in Nat
        /\ (value + 1) + Others(j) + woken = Permits
    BY <1>1, <1>2
  <2>2. Acquire(j, value + 1, waiters, woken)
    BY <1>5 DEF ReleaseAcquire
  <2> QED BY <1>1, <1>3, <1>5, <2>1, <2>2, AcquireInv
<1> QED BY <1>4, <1>5

\* At any time the permits are those free, those of the parsers at work and
\* those handed to woken jobs; the waiters are the waiting jobs; and no permit
\* stays idle beside them. So never more than Permits receipts are parsed at
\* once, for any number of jobs (runner.py:34-35, 157-158).
THEOREM SemaphoreCorrect ==
  RunnerSpec => [](PermitsConserved /\ WaitersAreWaiting /\ NoPermitIdle)
<1>1. RunnerInit => SemInv
  <2> SUFFICES ASSUME RunnerInit PROVE SemInv
    OBVIOUS
  <2>1. Parsing = {}
    BY DEF RunnerInit, Parsing
  <2>2. IsFiniteSet(Parsing) /\ Busy = 0
    BY <2>1, FS_EmptySet DEF Busy
  <2> QED BY <2>2, RunnerAssumption
          DEF RunnerInit, SemInv, PermitsConserved, WaitersAreWaiting, NoPermitIdle
<1>2. RunnerTypeOK /\ RunnerTypeOK' /\ SemInv /\ [RunnerNext]_runnerVars => SemInv'
  <2> SUFFICES ASSUME RunnerTypeOK, RunnerTypeOK', SemInv, [RunnerNext]_runnerVars
               PROVE  SemInv'
    OBVIOUS
  <2>1. ASSUME NEW j \in Job, NEW r \in 0 .. MaxFiles, NEW c \in 0 .. MaxFiles,
               Run(j, r, c)
        PROVE  SemInv'
    <3>1. pc[j] = "idle" /\ r \in Nat /\ c \in Nat
      BY <2>1, RunnerAssumption DEF Run
    <3>2. /\ value \in Nat /\ woken \in 0 .. Len(waiters)
          /\ Len(waiters) \in Nat /\ waiters \in Seq(Job)
      BY DEF RunnerTypeOK
    <3>3. CASE r > 0
      <4>1. Acquire(j, value, waiters, woken)
        BY <2>1, <3>1, <3>3 DEF Run
      <4>2. j \notin Parsing
        BY <3>1 DEF Parsing
      <4>3. Others(j) = Busy
        <5>1. Parsing \ {j} = Parsing
          BY <4>2
        <5> QED BY <5>1 DEF Others, Busy
      <4>4. value + Others(j) + woken = Permits
        BY <4>3 DEF SemInv, PermitsConserved
      <4>5. WaitersAreWaiting /\ IsFiniteSet(Parsing)
            /\ (value > 0 /\ woken < Len(waiters) => woken > 0)
        BY DEF SemInv, NoPermitIdle
      <4> QED BY <3>1, <3>2, <4>1, <4>4, <4>5, AcquireInv
    <3>4. CASE r = 0
      <4>1. FinishRun(j, r, c, {}, <<Event("uploaded", 0)>>) /\ UNCHANGED semVars
        BY <2>1, <3>1, <3>4 DEF Run
      <4>2. <<Event("uploaded", 0)>> \in Seq(JobEvent)
        BY EntriesTyped
      <4>3. PICK x \in Ended : pc' = [pc EXCEPT ![j] = x]
        BY <3>1, <4>1, <4>2, FinishTyped
      <4>4. /\ IsFiniteSet(Parsing')
            /\ Busy' = Busy
        BY <3>1, <4>3, ParsingOut, OthersCount DEF SemInv, Ended
      <4>5. \A k \in Job : pc'[k] = "waiting" <=> pc[k] = "waiting"
        BY <3>1, <4>3 DEF Ended, RunnerTypeOK
      <4> QED BY <4>1, <4>4, <4>5
              DEF SemInv, semVars, PermitsConserved, WaitersAreWaiting, NoPermitIdle
    <3> QED BY <3>1, <3>3, <3>4
  <2>2. ASSUME NEW j \in Job, Resume(j)
        PROVE  SemInv'
    BY <2>2, ResumeInv
  <2>3. ASSUME NEW j \in Job, NEW n \in 0 .. MaxTx, FileParsed(j, n)
        PROVE  SemInv'
    <3>1. /\ pc[j] = "parsing"
          /\ \/ ReleaseAcquire(j)
             \/ /\ Release
                /\ FinishRun(j, receipts[j], statements[j], parsed'[j], log[j])
      BY <2>3, Zenon DEF FileParsed
    <3>2. CASE Release /\ FinishRun(j, receipts[j], statements[j], parsed'[j], log[j])
      <4>1. /\ receipts[j] \in Nat /\ statements[j] \in Nat
            /\ log[j] \in Seq(JobEvent) /\ parsed'[j] \in SUBSET (Nat \X Nat)
        BY DEF RunnerTypeOK
      <4>2. PICK x \in Ended : pc' = [pc EXCEPT ![j] = x]
        BY <3>2, <4>1, FinishTyped
      <4> QED BY <3>1, <3>2, <4>2, ReleaseInv
    <3> QED BY <3>1, <3>2, ReleaseAcquireInv
  <2>4. ASSUME NEW j \in Job, ParserRaises(j)
        PROVE  SemInv'
    <3>1. pc[j] = "parsing" /\ Release /\ RaiseError(j, "receipt", log[j])
      BY <2>4 DEF ParserRaises
    <3>2. log[j] \in Seq(JobEvent) /\ "receipt" \in Failure
      BY DEF RunnerTypeOK, Failure
    <3>3. pc' = [pc EXCEPT ![j] = "raised"] /\ "raised" \in Ended
      BY <3>1, <3>2, RaiseTyped DEF Ended
    <3> QED BY <3>1, <3>3, ReleaseInv
  <2>5. CASE Halt
    <3>1. \A k \in Job : pc'[k] # "parsing" /\ pc'[k] # "waiting"
      BY <2>5 DEF Halt, Active
    <3>2. Parsing' = {}
      BY <3>1 DEF Parsing
    <3>3. IsFiniteSet(Parsing') /\ Busy' = 0
      BY <3>2, FS_EmptySet DEF Busy
    <3>4. value' = Permits /\ waiters' = <<>> /\ woken' = 0
      BY <2>5 DEF Halt
    <3> QED BY <3>1, <3>3, <3>4, RunnerAssumption
            DEF SemInv, PermitsConserved, WaitersAreWaiting, NoPermitIdle
  <2>6. CASE UNCHANGED runnerVars
    <3>1. UNCHANGED <<pc, value, waiters, woken>>
      BY <2>6 DEF runnerVars
    <3> QED BY <3>1
            DEF SemInv, Busy, Parsing, PermitsConserved, WaitersAreWaiting, NoPermitIdle
  <2> QED BY <2>1, <2>2, <2>3, <2>4, <2>5, <2>6 DEF RunnerNext, ParserReturns
<1>3. SemInv => PermitsConserved /\ WaitersAreWaiting /\ NoPermitIdle
  BY DEF SemInv
<1> QED BY <1>1, <1>2, <1>3, RunnerTypeCorrect, PTL DEF RunnerSpec

\* A job never waits beside a free permit, but for the moment before a woken
\* job passes it on (runner.py:157).
THEOREM NoIdlePermit == RunnerSpec => []NoPermitIdle
BY SemaphoreCorrect, PTL

----------------------------------------------------------------------------
(* What a job publishes.                                                   *)

\* The events up to the start of file n - 1.
Started(n) == <<Event("uploaded", 0)>> \o Announce(0, n)

\* The protocol, with how far a job is.
ProgressInv(j) ==
  /\ pc[j] = "idle" <=> log[j] = <<>>
  /\ pc[j] = "idle" => idx[j] = 0
  /\ pc[j] \in Active => idx[j] < receipts[j] /\ log[j] = Started(idx[j] + 1)
  /\ pc[j] = "returned" =>
       log[j] = Started(IF StatementParser = "none" THEN receipts[j] ELSE Total(j))
                \o <<Event("done", Total(j))>>
  /\ pc[j] = "raised" => \E n \in 1 .. Total(j) :
       log[j] = Started(n) \o <<Event("error", 0)>>

Progressing == \A j \in Job : ProgressInv(j)

\* Announcing some files and then the next ones is announcing them all.
LEMMA AnnounceJoin ==
  ASSUME NEW mid \in Nat, NEW hi \in Nat, mid <= hi
  PROVE  Started(mid) \o Announce(mid, hi) = Started(hi)
<1>1. /\ Announce(0, mid) \in Seq(JobEvent) /\ Announce(mid, hi) \in Seq(JobEvent)
      /\ Announce(0, hi) \in Seq(JobEvent) /\ <<Event("uploaded", 0)>> \in Seq(JobEvent)
  BY AnnounceTyped, EntriesTyped
<1>2. /\ Len(Announce(0, mid)) = mid /\ Len(Announce(mid, hi)) = hi - mid
      /\ Len(Announce(0, hi)) = hi
  BY <1>1 DEF Announce
<1> DEFINE joined == Announce(0, mid) \o Announce(mid, hi)
<1>3. /\ joined \in Seq(JobEvent) /\ Len(joined) = hi
      /\ \A i \in 1 .. hi : joined[i] = IF i <= mid THEN Announce(0, mid)[i]
                                        ELSE Announce(mid, hi)[i - mid]
  BY <1>1, <1>2, ConcatProperties
<1>4. ASSUME NEW i \in 1 .. hi PROVE joined[i] = Announce(0, hi)[i]
  <2>1. Announce(0, hi)[i] = Event("rule_based", i - 1)
    BY DEF Announce
  <2>2. CASE i <= mid
    <3>1. Announce(0, mid)[i] = Event("rule_based", i - 1)
      BY <2>2 DEF Announce
    <3> QED BY <1>3, <2>1, <2>2, <3>1
  <2>3. CASE ~(i <= mid)
    <3>1. i - mid \in 1 .. hi - mid /\ mid + (i - mid) - 1 = i - 1
      BY <2>3
    <3>2. Announce(mid, hi)[i - mid] = Event("rule_based", i - 1)
      BY <3>1 DEF Announce
    <3> QED BY <1>3, <2>1, <2>3, <3>2
  <2> QED BY <2>2, <2>3
<1>5. joined = Announce(0, hi)
  <2> HIDE DEF joined
  <2> QED BY <1>1, <1>2, <1>3, <1>4, SeqEqual
<1> QED BY <1>1, <1>5, ConcatAssociative DEF Started

\* What has been published is a sequence, and not empty.
LEMMA StartedFacts ==
  ASSUME NEW n \in Nat
  PROVE  /\ Started(n) \in Seq(JobEvent) /\ Started(n) # <<>>
         /\ \A e \in Seq(JobEvent) : Started(n) \o e # <<>>
<1>1. /\ Announce(0, n) \in Seq(JobEvent) /\ <<Event("uploaded", 0)>> \in Seq(JobEvent)
      /\ <<Event("uploaded", 0)>> # <<>>
  BY AnnounceTyped, EntriesTyped
<1>2. Started(n) \in Seq(JobEvent) /\ Started(n) # <<>>
  BY <1>1, ConcatProperties, ConcatEqualIffEmpty DEF Started
<1> QED BY <1>2, ConcatEqualIffEmpty

\* The tail of run() publishes the statements and one terminal event.
LEMMA FinishProgress ==
  ASSUME RunnerTypeOK, NEW j \in Job, NEW r \in Nat, NEW c \in Nat, r + c > 0,
         NEW txs, FinishRun(j, r, c, txs, Started(r)),
         receipts' \in [Job -> Nat], receipts'[j] = r,
         statements' \in [Job -> Nat], statements'[j] = c
  PROVE  /\ ProgressInv(j)'
         /\ \A k \in Job \ {j} : pc'[k] = pc[k] /\ log'[k] = log[k]
<1>1. /\ pc \in [Job -> {"idle", "lost"} \cup Active \cup Ended]
      /\ log \in [Job -> Seq(JobEvent)]
  BY DEF RunnerTypeOK
<1>2. Total(j)' = r + c
  BY DEF Total
<1>3. CASE Reconcile(j, r, c, txs, Started(r))
  <2> DEFINE files == IF CallsParser(c) THEN Announce(r, r + c) ELSE <<>>
             last == IF StatementParser = "none" THEN r ELSE r + c
  <2>1. /\ pc' = [pc EXCEPT ![j] = "returned"]
        /\ log' = [log EXCEPT ![j] = Started(r) \o files \o <<Event("done", r + c)>>]
    BY <1>3 DEF Reconcile, End
  <2>2. Started(r) \o files = Started(last)
    <3>1. CASE CallsParser(c)
      <4>1. r + c \in Nat /\ r <= r + c /\ last = r + c
        BY <3>1 DEF CallsParser
      <4> QED BY <3>1, <4>1, AnnounceJoin
    <3>2. CASE ~CallsParser(c)
      <4>1. last = r
        BY <3>2 DEF CallsParser
      <4> QED BY <3>2, <4>1, StartedFacts, ConcatEmptySeq
    <3> QED BY <3>1, <3>2
  <2>3. last \in Nat /\ <<Event("done", r + c)>> \in Seq(JobEvent)
    BY EntriesTyped
  <2> HIDE DEF files
  <2>4. log'[j] = Started(last) \o <<Event("done", r + c)>> /\ log'[j] # <<>>
    BY <1>1, <2>1, <2>2, <2>3, StartedFacts
  <2>5. pc'[j] = "returned" /\ \A k \in Job \ {j} : pc'[k] = pc[k] /\ log'[k] = log[k]
    BY <1>1, <2>1
  <2> QED BY <1>2, <2>4, <2>5 DEF ProgressInv, Active, Started, Announce, Event
<1>4. CASE StatementRaises(j, r, c, Started(r))
  <2>1. PICK i \in 1 .. c, why \in {"signature", "statement"} :
          RaiseError(j, why, Started(r) \o Announce(r, r + i))
    BY <1>4 DEF StatementRaises
  <2>2. /\ pc' = [pc EXCEPT ![j] = "raised"]
        /\ log' = [log EXCEPT ![j] = Started(r) \o Announce(r, r + i) \o <<Event("error", 0)>>]
    BY <2>1 DEF RaiseError, End
  <2>3. r + i \in 1 .. r + c /\ r + i \in Nat /\ r <= r + i
    OBVIOUS
  <2>4. Started(r) \o Announce(r, r + i) = Started(r + i)
    BY <2>3, AnnounceJoin
  <2>5. log'[j] = Started(r + i) \o <<Event("error", 0)>> /\ log'[j] # <<>>
    <3>1. log'[j] = Started(r + i) \o <<Event("error", 0)>>
      BY <1>1, <2>2, <2>4
    <3>2. <<Event("error", 0)>> \in Seq(JobEvent)
      BY EntriesTyped
    <3> QED BY <2>3, <3>1, <3>2, StartedFacts
  <2>6. pc'[j] = "raised" /\ \A k \in Job \ {j} : pc'[k] = pc[k] /\ log'[k] = log[k]
    BY <1>1, <2>2
  <2> QED BY <1>2, <2>3, <2>5, <2>6 DEF ProgressInv, Active, Started, Announce, Event
<1> QED BY <1>3, <1>4 DEF FinishRun

\* No step of one job disturbs what another one has published.
LEMMA OthersProgress ==
  ASSUME NEW k \in Job, ProgressInv(k),
         pc'[k] = pc[k], log'[k] = log[k], idx'[k] = idx[k],
         receipts'[k] = receipts[k], statements'[k] = statements[k]
  PROVE  ProgressInv(k)'
BY DEF ProgressInv, Total, Active, Started, Announce, Event

\* Standing in line or not, a job that asks for a permit is active.
LEMMA AcquireActive ==
  ASSUME RunnerTypeOK, NEW j \in Job, NEW v, NEW w, Acquire(j, v, waiters, w)
  PROVE  pc'[j] \in Active /\ \A k \in Job \ {j} : pc'[k] = pc[k]
BY DEF Acquire, RunnerTypeOK, Active

LEMMA RunProgress ==
  ASSUME RunnerTypeOK, RunnerTypeOK', \A k \in Job : ProgressInv(k),
         NEW j \in Job, NEW r \in Nat, NEW c \in Nat, Run(j, r, c)
  PROVE  \A k \in Job : ProgressInv(k)'
<1>1. /\ pc[j] = "idle" /\ r + c > 0 /\ idx[j] = 0 /\ UNCHANGED idx
      /\ receipts' = [receipts EXCEPT ![j] = r]
      /\ statements' = [statements EXCEPT ![j] = c]
  BY DEF Run, ProgressInv
<1>2. /\ receipts'[j] = r /\ statements'[j] = c
      /\ \A k \in Job \ {j} : receipts'[k] = receipts[k] /\ statements'[k] = statements[k]
  BY <1>1 DEF RunnerTypeOK
<1>3. CASE r > 0
  <2>1. /\ log' = [log EXCEPT ![j] = <<Event("uploaded", 0)>> \o Announce(0, 1)]
        /\ Acquire(j, value, waiters, woken)
    BY <1>3 DEF Run
  <2>2. pc'[j] \in Active /\ \A k \in Job \ {j} : pc'[k] = pc[k]
    BY <2>1, AcquireActive
  <2>3. /\ log'[j] = Started(1) /\ Started(1) # <<>>
        /\ \A k \in Job \ {j} : log'[k] = log[k]
    BY <2>1, StartedFacts DEF RunnerTypeOK, Started
  <2>4. ProgressInv(j)'
    BY <1>1, <1>2, <1>3, <2>2, <2>3 DEF ProgressInv, Active, Started, Announce, Event
  <2> QED BY <1>1, <1>2, <2>2, <2>3, <2>4, OthersProgress
<1>4. CASE r = 0
  <2>1. FinishRun(j, r, c, {}, <<Event("uploaded", 0)>>)
    BY <1>4 DEF Run
  <2>2. Started(r) = <<Event("uploaded", 0)>>
    <3>1. Announce(0, r) = <<>>
      BY <1>4 DEF Announce
    <3> QED BY <3>1, EntriesTyped, ConcatEmptySeq DEF Started
  <2>3. /\ FinishRun(j, r, c, {}, Started(r))
        /\ receipts' \in [Job -> Nat] /\ statements' \in [Job -> Nat]
    BY <2>1, <2>2 DEF RunnerTypeOK
  <2>4. /\ ProgressInv(j)'
        /\ \A k \in Job \ {j} : pc'[k] = pc[k] /\ log'[k] = log[k]
    BY <1>1, <1>2, <2>3, FinishProgress
  <2> QED BY <1>1, <1>2, <2>4, OthersProgress
<1> QED BY <1>3, <1>4

LEMMA FileParsedProgress ==
  ASSUME RunnerTypeOK, RunnerTypeOK', \A k \in Job : ProgressInv(k),
         NEW j \in Job, NEW n, FileParsed(j, n)
  PROVE  \A k \in Job : ProgressInv(k)'
<1>1. /\ pc[j] = "parsing" /\ UNCHANGED <<receipts, statements>>
      /\ log[j] = Started(idx[j] + 1) /\ idx[j] < receipts[j]
      /\ receipts[j] \in Nat /\ statements[j] \in Nat /\ idx[j] \in Nat
  BY DEF FileParsed, ProgressInv, Active, RunnerTypeOK
<1>2. CASE /\ idx[j] + 1 < receipts[j]
           /\ idx' = [idx EXCEPT ![j] = @ + 1]
           /\ log' = [log EXCEPT ![j] = @ \o Announce(idx[j] + 1, idx[j] + 2)]
           /\ ReleaseAcquire(j)
  <2>1. pc'[j] \in Active /\ \A k \in Job \ {j} : pc'[k] = pc[k]
    BY <1>2, AcquireActive DEF ReleaseAcquire
  <2>2. Started(idx[j] + 1) \o Announce(idx[j] + 1, idx[j] + 2) = Started(idx[j] + 2)
    <3>1. idx[j] + 1 \in Nat /\ idx[j] + 2 \in Nat /\ idx[j] + 1 <= idx[j] + 2
      BY <1>1
    <3> QED BY <3>1, AnnounceJoin
  <2>3. /\ log'[j] = Started(idx[j] + 2) /\ idx'[j] = idx[j] + 1
        /\ \A k \in Job \ {j} : log'[k] = log[k] /\ idx'[k] = idx[k]
    BY <1>1, <1>2, <2>2 DEF RunnerTypeOK
  <2>4. Started(idx[j] + 2) # <<>> /\ idx[j] + 2 = (idx[j] + 1) + 1
    <3>1. idx[j] + 2 \in Nat /\ idx[j] + 2 = (idx[j] + 1) + 1
      BY <1>1
    <3> QED BY <3>1, StartedFacts
  <2>5. ProgressInv(j)'
    BY <1>1, <1>2, <2>1, <2>3, <2>4 DEF ProgressInv, Active, Started, Announce, Event
  <2> QED BY <1>1, <2>1, <2>3, <2>5, OthersProgress
<1>3. CASE /\ idx[j] + 1 = receipts[j] /\ UNCHANGED idx
           /\ FinishRun(j, receipts[j], statements[j], parsed'[j], log[j])
  <2> DEFINE r == receipts[j]
             c == statements[j]
  <2>1. /\ FinishRun(j, r, c, parsed'[j], Started(r))
        /\ receipts' \in [Job -> Nat] /\ statements' \in [Job -> Nat]
        /\ receipts'[j] = r /\ statements'[j] = c
    BY <1>1, <1>3 DEF RunnerTypeOK
  <2>2. r \in Nat /\ c \in Nat /\ r + c > 0
    BY <1>1
  <2>3. /\ ProgressInv(j)'
        /\ \A k \in Job \ {j} : pc'[k] = pc[k] /\ log'[k] = log[k]
    <3> HIDE DEF r, c
    <3> QED BY <2>1, <2>2, FinishProgress
  <2> QED BY <1>1, <1>3, <2>3, OthersProgress
<1> QED BY <1>2, <1>3, Zenon DEF FileParsed

LEMMA ParserRaisesProgress ==
  ASSUME RunnerTypeOK, \A k \in Job : ProgressInv(k), NEW j \in Job, ParserRaises(j)
  PROVE  \A k \in Job : ProgressInv(k)'
<1>1. /\ pc[j] = "parsing" /\ UNCHANGED <<receipts, statements, idx>>
      /\ log[j] = Started(idx[j] + 1) /\ idx[j] < receipts[j]
      /\ receipts[j] \in Nat /\ statements[j] \in Nat /\ idx[j] \in Nat
      /\ pc' = [pc EXCEPT ![j] = "raised"]
      /\ log' = [log EXCEPT ![j] = log[j] \o <<Event("error", 0)>>]
  BY DEF ParserRaises, RaiseError, End, ProgressInv, Active, RunnerTypeOK
<1>2. idx[j] + 1 \in 1 .. Total(j) /\ idx[j] + 1 \in Nat
  BY <1>1 DEF Total
<1>3. /\ log'[j] = Started(idx[j] + 1) \o <<Event("error", 0)>> /\ pc'[j] = "raised"
      /\ \A k \in Job \ {j} : log'[k] = log[k] /\ pc'[k] = pc[k]
  BY <1>1 DEF RunnerTypeOK
<1>4. log'[j] # <<>>
  <2>1. <<Event("error", 0)>> \in Seq(JobEvent)
    BY EntriesTyped
  <2> QED BY <1>2, <1>3, <2>1, StartedFacts
<1>5. ProgressInv(j)'
  BY <1>1, <1>2, <1>3, <1>4 DEF ProgressInv, Active, Total, Started, Announce, Event
<1> QED BY <1>1, <1>3, <1>5, OthersProgress

\* Every job keeps to the protocol.
LEMMA ProgressInductive == RunnerSpec => []Progressing
<1> USE DEF Progressing
<1>1. RunnerInit => Progressing
  BY DEF RunnerInit, ProgressInv, Active
<1>2. /\ RunnerTypeOK /\ RunnerTypeOK' /\ WaitersAreWaiting
      /\ Progressing /\ [RunnerNext]_runnerVars
      => Progressing'
  <2> SUFFICES ASSUME RunnerTypeOK, RunnerTypeOK', WaitersAreWaiting,
                      Progressing, [RunnerNext]_runnerVars
               PROVE  Progressing'
    OBVIOUS
  <2>1. ASSUME NEW j \in Job, NEW r \in 0 .. MaxFiles, NEW c \in 0 .. MaxFiles, Run(j, r, c)
        PROVE  Progressing'
    <3>1. r \in Nat /\ c \in Nat
      BY RunnerAssumption
    <3> QED BY <2>1, <3>1, RunProgress
  <2>2. ASSUME NEW j \in Job, Resume(j) PROVE Progressing'
    <3>1. /\ pc' = [pc EXCEPT ![j] = "parsing"]
          /\ UNCHANGED <<receipts, statements, idx, log>>
          /\ waiters \in Seq(Job) /\ Len(waiters) > 0 /\ waiters[1] = j
      BY <2>2 DEF Resume, RunnerTypeOK
    <3>2. pc[j] = "waiting"
      BY <3>1 DEF WaitersAreWaiting
    <3>3. /\ pc'[j] = "parsing" /\ \A k \in Job \ {j} : pc'[k] = pc[k]
      BY <3>1 DEF RunnerTypeOK
    <3>4. ProgressInv(j)'
      BY <3>1, <3>2, <3>3 DEF ProgressInv, Active, Started, Announce, Event
    <3> QED BY <3>1, <3>3, <3>4, OthersProgress
  <2>3. ASSUME NEW j \in Job, ParserReturns(j) PROVE Progressing'
    BY <2>3, FileParsedProgress, ParserRaisesProgress DEF ParserReturns
  <2>4. CASE Halt
    <3>1. \A k \in Job : pc'[k] = IF pc[k] \in Active THEN "lost" ELSE pc[k]
      BY <2>4 DEF Halt
    <3> QED BY <2>4, <3>1
            DEF Halt, ProgressInv, Total, Active, Started, Announce, Event
  <2>5. CASE UNCHANGED runnerVars
    BY <2>5, OthersProgress DEF runnerVars
  <2> QED BY <2>1, <2>2, <2>3, <2>4, <2>5 DEF RunnerNext
<1> HIDE DEF Progressing
<1> QED BY <1>1, <1>2, RunnerTypeCorrect, SemaphoreCorrect, PTL DEF RunnerSpec

\* What a job publishes tells its progress, to any number of files: the upload,
\* every file once and in order, and a terminal event exactly when run() ends
\* (runner.py:83-138, 150-157, 181-191).
THEOREM ProgressCorrect == RunnerSpec => []ProgressProtocol
<1>1. Progressing => ProgressProtocol
  BY DEF Progressing, ProgressInv, ProgressProtocol, Started
<1> QED BY <1>1, ProgressInductive, PTL

----------------------------------------------------------------------------
(* What a job returns.                                                     *)

\* The transactions of a job were found in its files.
FilesInv(j) ==
  /\ pc[j] = "idle" => parsed[j] = {} /\ result[j] = {}
  /\ parsed[j] \subseteq (0 .. receipts[j] - 1) \X Nat
  /\ result[j] \subseteq (0 .. Total(j) - 1) \X Nat

FromFiles == \A j \in Job : FilesInv(j)

\* The tail of run() returns nothing, or transactions of receipts and
\* statements.
LEMMA FinishFiles ==
  ASSUME NEW j \in Job, NEW r \in Nat, NEW c \in Nat, NEW events,
         NEW txs \in SUBSET ((0 .. r - 1) \X Nat), FinishRun(j, r, c, txs, events)
  PROVE  \E found \in SUBSET ((0 .. r + c - 1) \X Nat) : result' = [result EXCEPT ![j] = found]
<1>1. CASE Reconcile(j, r, c, txs, events)
  <2>1. PICK count \in [r .. r + c - 1 -> 0 .. MaxTx] : Reconcile(j, r, c, txs, events)!(count)
    BY <1>1 DEF Reconcile
  <2> DEFINE cards == IF CallsParser(c) THEN Txs(r .. r + c - 1, count) ELSE {}
  <2>2. cards \subseteq (r .. r + c - 1) \X Nat
    BY RunnerAssumption DEF Txs
  <2>3. PICK matched \in SUBSET cards : result' = [result EXCEPT ![j] = txs \cup (cards \ matched)]
    BY <2>1 DEF End
  <2>4. txs \cup (cards \ matched) \in SUBSET ((0 .. r + c - 1) \X Nat)
    BY <2>2
  <2> QED BY <2>3, <2>4
<1>2. CASE StatementRaises(j, r, c, events)
  BY <1>2 DEF StatementRaises, RaiseError, End
<1> QED BY <1>1, <1>2 DEF FinishRun

\* What a job has found stays until the job itself finds more.
LEMMA OthersFiles ==
  ASSUME NEW k \in Job, FilesInv(k), pc'[k] = pc[k] \/ pc'[k] = "lost",
         parsed'[k] = parsed[k], result'[k] = result[k],
         receipts'[k] = receipts[k], statements'[k] = statements[k]
  PROVE  FilesInv(k)'
BY DEF FilesInv, Total

\* Every transaction a job returns comes from one of its files
\* (runner.py:117-130).
THEOREM ResultsFromFiles == RunnerSpec => []FromFiles
<1> USE DEF FromFiles, Progressing
<1>1. RunnerInit => FromFiles
  BY DEF RunnerInit, FilesInv
<1>2. /\ RunnerTypeOK /\ RunnerTypeOK' /\ Progressing /\ FromFiles
      /\ [RunnerNext]_runnerVars
      => FromFiles'
  <2> SUFFICES ASSUME RunnerTypeOK, RunnerTypeOK', Progressing, FromFiles,
                      [RunnerNext]_runnerVars
               PROVE  FromFiles'
    OBVIOUS
  <2>1. ASSUME NEW j \in Job, NEW r \in 0 .. MaxFiles, NEW c \in 0 .. MaxFiles, Run(j, r, c)
        PROVE  FromFiles'
    <3>1. r \in Nat /\ c \in Nat /\ pc[j] = "idle" /\ parsed[j] = {} /\ UNCHANGED parsed
      BY <2>1, RunnerAssumption DEF Run, FilesInv
    <3>2. /\ receipts'[j] = r /\ statements'[j] = c
          /\ \A k \in Job \ {j} : receipts'[k] = receipts[k] /\ statements'[k] = statements[k]
      BY <2>1 DEF Run, RunnerTypeOK
    <3>3. CASE r > 0
      <4>1. UNCHANGED result /\ Acquire(j, value, waiters, woken)
        BY <2>1, <3>3 DEF Run
      <4>2. pc'[j] \in Active /\ \A k \in Job \ {j} : pc'[k] = pc[k]
        BY <4>1, AcquireActive
      <4>3. result[j] = {}
        BY <3>1 DEF FilesInv
      <4>4. FilesInv(j)'
        BY <3>1, <3>2, <4>1, <4>2, <4>3 DEF FilesInv, Total, Active
      <4> QED BY <3>1, <3>2, <4>1, <4>2, <4>4, OthersFiles
    <3>4. CASE r = 0
      <4>1. FinishRun(j, r, c, {}, <<Event("uploaded", 0)>>)
        BY <2>1, <3>4 DEF Run
      <4>2. PICK found \in SUBSET ((0 .. r + c - 1) \X Nat) : result' = [result EXCEPT ![j] = found]
        BY <3>1, <4>1, FinishFiles
      <4>3. PICK x \in Ended : pc' = [pc EXCEPT ![j] = x]
        BY <3>1, <4>1, EntriesTyped, FinishTyped
      <4>4. FilesInv(j)'
        BY <3>1, <3>2, <4>2, <4>3 DEF FilesInv, Total, Ended, RunnerTypeOK
      <4> QED BY <3>1, <3>2, <4>2, <4>3, <4>4, OthersFiles DEF RunnerTypeOK
    <3> QED BY <3>1, <3>3, <3>4
  <2>2. ASSUME NEW j \in Job, Resume(j) PROVE FromFiles'
    <3>1. /\ pc' = [pc EXCEPT ![j] = "parsing"]
          /\ UNCHANGED <<receipts, statements, parsed, result>>
      BY <2>2 DEF Resume
    <3>2. FilesInv(j)'
      BY <3>1 DEF FilesInv, Total, RunnerTypeOK
    <3>3. \A k \in Job \ {j} : pc'[k] = pc[k]
      BY <3>1 DEF RunnerTypeOK
    <3> QED BY <3>1, <3>2, <3>3, OthersFiles
  <2>3. ASSUME NEW j \in Job, NEW n \in 0 .. MaxTx, FileParsed(j, n) PROVE FromFiles'
    <3>1. /\ pc[j] = "parsing" /\ idx[j] < receipts[j] /\ idx[j] \in Nat
          /\ receipts[j] \in Nat /\ statements[j] \in Nat
          /\ parsed' = [parsed EXCEPT ![j] = @ \cup {<<idx[j], i>> : i \in 1 .. n}]
          /\ UNCHANGED <<receipts, statements>>
      BY <2>3 DEF FileParsed, ProgressInv, Active, RunnerTypeOK
    <3>2. /\ parsed'[j] \in SUBSET ((0 .. receipts[j] - 1) \X Nat)
          /\ \A k \in Job \ {j} : parsed'[k] = parsed[k]
      <4>1. n \in Nat
        BY RunnerAssumption
      <4>2. {<<idx[j], i>> : i \in 1 .. n} \subseteq (0 .. receipts[j] - 1) \X Nat
        BY <3>1, <4>1
      <4> QED BY <3>1, <4>2 DEF FilesInv, RunnerTypeOK
    <3>3. CASE ReleaseAcquire(j) /\ UNCHANGED result
      <4>1. pc'[j] \in Active /\ \A k \in Job \ {j} : pc'[k] = pc[k]
        BY <3>3, AcquireActive DEF ReleaseAcquire
      <4>2. FilesInv(j)'
        BY <3>1, <3>2, <3>3, <4>1 DEF FilesInv, Total, Active
      <4> QED BY <3>1, <3>2, <3>3, <4>1, <4>2, OthersFiles
    <3>4. CASE FinishRun(j, receipts[j], statements[j], parsed'[j], log[j])
      <4>1. PICK found \in SUBSET ((0 .. receipts[j] + statements[j] - 1) \X Nat) :
              result' = [result EXCEPT ![j] = found]
        BY <3>1, <3>2, <3>4, FinishFiles
      <4>2. PICK x \in Ended : pc' = [pc EXCEPT ![j] = x]
        BY <3>1, <3>4, FinishTyped DEF RunnerTypeOK
      <4>3. FilesInv(j)'
        BY <3>1, <3>2, <4>1, <4>2 DEF FilesInv, Total, Ended, RunnerTypeOK
      <4> QED BY <3>1, <3>2, <4>1, <4>2, <4>3, OthersFiles DEF RunnerTypeOK
    <3> QED BY <2>3, <3>3, <3>4, Zenon DEF FileParsed
  <2>4. ASSUME NEW j \in Job, ParserRaises(j) PROVE FromFiles'
    <3>1. /\ pc' = [pc EXCEPT ![j] = "raised"] /\ result' = [result EXCEPT ![j] = {}]
          /\ UNCHANGED <<receipts, statements, parsed>>
      BY <2>4 DEF ParserRaises, RaiseError, End
    <3>2. FilesInv(j)'
      BY <3>1 DEF FilesInv, Total, RunnerTypeOK
    <3>3. \A k \in Job \ {j} : pc'[k] = pc[k] /\ result'[k] = result[k]
      BY <3>1 DEF RunnerTypeOK
    <3> QED BY <3>1, <3>2, <3>3, OthersFiles
  <2>5. CASE Halt
    BY <2>5, OthersFiles DEF Halt
  <2>6. CASE UNCHANGED runnerVars
    BY <2>6, OthersFiles DEF runnerVars
  <2> QED BY <2>1, <2>2, <2>3, <2>4, <2>5, <2>6 DEF RunnerNext, ParserReturns
<1> HIDE DEF FromFiles, Progressing
<1> QED BY <1>1, <1>2, RunnerTypeCorrect, ProgressInductive, PTL DEF RunnerSpec
=============================================================================
