------------------------ MODULE UploadSession_proofs ------------------------
(***************************************************************************)
(* Proofs about UploadSession, for any number of sessions, files and       *)
(* transactions, on top of those about JobRunner.                          *)
(***************************************************************************)
EXTENDS UploadSession, JobRunner_proofs, WellFoundedInduction

----------------------------------------------------------------------------
(* The sessions run their jobs as the runner's specification says.         *)

Phases == {"none", "saved", "failed"} \cup Pending \cup Abandoned
NameMaps == {NoMap} \cup UNION {Uploads(r, c) : r, c \in 0 .. MaxFiles}
Row == [tx : Nat \X Nat, original : Name, disk : Nat]

SessionTypeOK ==
  /\ status \in [Job -> {"absent", "parsing", "awaiting_user", "failed"}]
  /\ phase \in [Job -> Phases]
  /\ names \in [Job -> NameMaps]
  /\ split \in [Job -> Nat]
  /\ onDisk \in [Job -> SUBSET Nat]
  /\ diskMap \in [Job -> {NoMap} \cup {DiskMapOf(uploaded) : uploaded \in NameMaps}]

\* The files of an upload are numbered, and the receipts come first.
Sized(j) ==
  phase[j] # "none" => \E r, c \in 0 .. MaxFiles :
    r + c > 0 /\ split[j] = r /\ names[j] \in Uploads(r, c)

SizeInv == SessionTypeOK /\ \A j \in Job : Sized(j)

\* The number of files of an upload is the sum of its parts.
LEMMA UploadSize ==
  ASSUME NEW r \in Nat, NEW c \in Nat, NEW uploaded \in Uploads(r, c)
  PROVE  DOMAIN uploaded = 0 .. r + c - 1 /\ Cardinality(DOMAIN uploaded) - r = c
<1>1. DOMAIN uploaded = 0 .. r + c - 1
  BY DEF Uploads
<1>2. Cardinality(0 .. r + c - 1) = r + c
  <2>1. 0 \in Int /\ r + c - 1 \in Int
    OBVIOUS
  <2>2. Cardinality(0 .. r + c - 1) = IF 0 > r + c - 1 THEN 0 ELSE r + c - 1 - 0 + 1
    BY <2>1, FS_Interval
  <2> QED BY <2>2
<1> QED BY <1>1, <1>2

\* Every step keeps the numbering.
LEMMA SizeStep == SizeInv /\ [Next]_vars => SizeInv'
<1> SUFFICES ASSUME SizeInv, [Next]_vars PROVE SizeInv'
  OBVIOUS
<1> USE DEF SizeInv, Sized
<1>1. ASSUME NEW j \in Job, NEW r \in 0 .. MaxFiles, NEW c \in 0 .. MaxFiles, r + c > 0,
             NEW uploaded \in Uploads(r, c), CreateSession(j, r, uploaded)
      PROVE  SizeInv'
  <2>1. /\ uploaded \in NameMaps /\ r \in Nat
        /\ phase' = [phase EXCEPT ![j] = "created"]
        /\ status' = [status EXCEPT ![j] = "parsing"]
        /\ names' = [names EXCEPT ![j] = uploaded]
        /\ split' = [split EXCEPT ![j] = r]
        /\ UNCHANGED <<onDisk, diskMap>>
    BY <1>1, RunnerAssumption DEF CreateSession, NameMaps
  <2>2. SessionTypeOK'
    BY <2>1 DEF SessionTypeOK, Phases, Pending
  <2>3. ASSUME NEW k \in Job PROVE Sized(k)'
    <3>1. CASE k = j
      BY <1>1, <2>1, <3>1 DEF SessionTypeOK, Uploads
    <3>2. CASE k # j
      BY <2>1, <3>2 DEF SessionTypeOK, Uploads
    <3> QED BY <3>1, <3>2
  <2> QED BY <2>2, <2>3
<1>2. ASSUME NEW j \in Job, Store(j) \/ RunJob(j) \/ JobStep(j) \/ Save(j) \/ Fail(j)
      PROVE  SizeInv'
  <2>1. /\ UNCHANGED <<names, split>> /\ phase[j] # "none"
        /\ \E x \in Phases : phase' = [phase EXCEPT ![j] = x]
    BY <1>2 DEF Store, StoreFiles, StoreFails, RunJob, JobStep, AfterRun, Save, Commit,
       CommitFails, Fail, MarkFailed, MarkFailedFails, Phases, Pending, Abandoned
  <2>2. \/ UNCHANGED status
        \/ status' = [status EXCEPT ![j] = "awaiting_user"]
        \/ status' = [status EXCEPT ![j] = "failed"]
    BY <1>2 DEF Store, StoreFiles, StoreFails, RunJob, JobStep, AfterRun, Save, Commit,
       CommitFails, Fail, MarkFailed, MarkFailedFails
  <2>3. \/ UNCHANGED onDisk
        \/ onDisk' = [onDisk EXCEPT ![j] = Files(j)]
        \/ \E n \in Files(j) : onDisk' = [onDisk EXCEPT ![j] = 0 .. n - 1]
    BY <1>2 DEF Store, StoreFiles, StoreFails, RunJob, JobStep, AfterRun, Save, Commit,
       CommitFails, Fail, MarkFailed, MarkFailedFails
  <2>4. \/ UNCHANGED diskMap
        \/ diskMap' = [diskMap EXCEPT ![j] = DiskMapOf(names[j])]
        \/ diskMap' = [diskMap EXCEPT ![j] = NoMap]
    BY <1>2 DEF Store, StoreFiles, StoreFails, RunJob, JobStep, AfterRun, Save, Commit,
       CommitFails, Fail, MarkFailed, MarkFailedFails
  <2>5. Files(j) \subseteq Nat
    <3>1. PICK r \in 0 .. MaxFiles, c \in 0 .. MaxFiles : names[j] \in Uploads(r, c)
      BY <2>1
    <3> QED BY <3>1, RunnerAssumption DEF Files, Uploads
  <2>6. \A n \in Files(j) : 0 .. n - 1 \subseteq Nat
    BY <2>5
  <2>7. SessionTypeOK'
    <3> USE DEF SessionTypeOK
    <3>1. phase' \in [Job -> Phases] /\ names' \in [Job -> NameMaps] /\ split' \in [Job -> Nat]
      BY <2>1
    <3>2. status' \in [Job -> {"absent", "parsing", "awaiting_user", "failed"}]
      BY <2>2
    <3>3. onDisk' \in [Job -> SUBSET Nat]
      BY <2>3, <2>5, <2>6
    <3>4. diskMap' \in [Job -> {NoMap} \cup {DiskMapOf(uploaded) : uploaded \in NameMaps}]
      BY <2>4
    <3>5. NameMaps' = NameMaps
      BY DEF NameMaps, NoMap, Uploads
    <3> QED BY <3>1, <3>2, <3>3, <3>4, <3>5
  <2> QED BY <2>1, <2>7 DEF SessionTypeOK, Uploads
<1>3. CASE Crash
  <2>1. /\ phase' = [j \in Job |-> IF phase[j] \in Pending THEN "lost" ELSE phase[j]]
        /\ diskMap' = [j \in Job |-> NoMap]
        /\ UNCHANGED <<status, names, split, onDisk>>
    BY <1>3 DEF Crash
  <2>2. SessionTypeOK'
    BY <2>1 DEF SessionTypeOK, Phases, Abandoned
  <2> QED BY <2>1, <2>2 DEF Pending, Uploads
<1>4. CASE UNCHANGED vars
  BY <1>4 DEF vars, sessionVars, SessionTypeOK, Uploads
<1> QED BY <1>1, <1>2, <1>3, <1>4 DEF Next

LEMMA SizeInductive == Spec => []SizeInv
<1>1. Init => SizeInv
  BY DEF Init, SizeInv, Sized, SessionTypeOK, Phases, NameMaps
<1> QED BY <1>1, SizeStep, PTL DEF Spec

\* A step of the sessions is a step of the runner, or leaves it alone.
LEMMA RunnerStep == SizeInv /\ [Next]_vars => [RunnerNext]_runnerVars
<1> SUFFICES ASSUME SizeInv, Next PROVE RunnerNext \/ UNCHANGED runnerVars
  BY DEF vars
<1>1. ASSUME NEW j \in Job, RunJob(j) PROVE RunnerNext
  <2>1. PICK r \in 0 .. MaxFiles, c \in 0 .. MaxFiles :
          split[j] = r /\ names[j] \in Uploads(r, c)
    BY <1>1 DEF SizeInv, Sized, RunJob
  <2>2. r \in Nat /\ c \in Nat
    BY RunnerAssumption
  <2>3. Cardinality(Files(j)) - split[j] = c
    BY <2>1, <2>2, UploadSize DEF Files
  <2> QED BY <1>1, <2>1, <2>3 DEF RunJob, RunnerNext
<1>2. ASSUME NEW j \in Job, JobStep(j) PROVE RunnerNext
  BY <1>2 DEF JobStep, RunnerNext
<1>3. CASE Crash
  BY <1>3 DEF Crash, RunnerNext
<1> QED BY <1>1, <1>2, <1>3 DEF Next, CreateSession, Store, StoreFiles, StoreFails, Save, Commit,
       CommitFails, Fail, MarkFailed, MarkFailedFails

\* Background tasks use the runner as its specification allows: whatever is
\* proved of it holds of the jobs of the sessions, crashes included
\* (sessions.py:163-211).
THEOREM SessionsUseRunner == Spec => RunnerSpec
<1>1. Init => RunnerInit
  BY DEF Init
<1> QED BY <1>1, RunnerStep, SizeInductive, PTL DEF Spec, RunnerSpec

----------------------------------------------------------------------------
(* The map of disk names.                                                  *)

\* A set of natural numbers below n that is not empty has a greatest element.
LEMMA GreatestExists ==
  ASSUME NEW n \in Nat, NEW T, T \subseteq 0 .. n - 1, T # {}
  PROVE  \E x \in T : \A y \in T : x >= y
<1> DEFINE Below == {pair \in Nat \X Nat : pair[1] < pair[2]}
           U == {n - x : x \in T}
<1>1. IsWellFoundedOn(Below, Nat)
  BY NatLessThanWellFounded, Zenon DEF OpToRel
<1>2. U \subseteq Nat /\ U # {}
  <2>1. \A x \in T : n - x \in Nat
    OBVIOUS
  <2> QED BY <2>1
<1>3. PICK m \in U : \A k \in U : <<k, m>> \notin Below
  <2> HIDE DEF Below, U
  <2> QED BY <1>1, <1>2, WFMin
<1>4. PICK x \in T : m = n - x
  BY <1>3
<1>5. ASSUME NEW y \in T PROVE x >= y
  <2>1. n - y \in U
    OBVIOUS
  <2>2. <<n - y, m>> \notin Below /\ n - y \in Nat /\ m \in Nat
    BY <1>2, <1>3, <2>1
  <2>3. ~(n - y < m)
    BY <2>2
  <2>4. x \in Int /\ y \in Int
    OBVIOUS
  <2> QED BY <1>4, <2>3, <2>4
<1> QED BY <1>5

\* The map finds, for the name of an uploaded file, a file of that name.
LEMMA DiskMapFinds ==
  ASSUME NEW r \in Nat, NEW c \in Nat, NEW uploaded \in Uploads(r, c),
         NEW f \in DOMAIN uploaded
  PROVE  /\ uploaded[f] \in DOMAIN DiskMapOf(uploaded)
         /\ DiskMapOf(uploaded)[uploaded[f]] \in DOMAIN uploaded
         /\ uploaded[DiskMapOf(uploaded)[uploaded[f]]] = uploaded[f]
<1> DEFINE T == {g \in DOMAIN uploaded : uploaded[g] = uploaded[f]}
<1>1. T \subseteq 0 .. (r + c) - 1 /\ T # {} /\ r + c \in Nat
  BY DEF Uploads
<1>2. \E x \in T : \A y \in T : x >= y
  <2> HIDE DEF T
  <2> QED BY <1>1, GreatestExists
<1>3. Max(T) \in T
  <2> HIDE DEF T
  <2> QED BY <1>2 DEF Max
<1>4. uploaded[f] \in Range(uploaded)
  BY DEF Range
<1>5. DiskMapOf(uploaded)[uploaded[f]] = Max(T) /\ uploaded[f] \in DOMAIN DiskMapOf(uploaded)
  BY <1>4 DEF DiskMapOf
<1> QED BY <1>3, <1>5

----------------------------------------------------------------------------
(* What holds of a session in every state.                                 *)

\* The task is where its phase says, and run() was given all of its files.
PlaceInv(j) ==
  /\ phase[j] \in {"none", "created", "queued"} => pc[j] = "idle"
  /\ phase[j] = "running" => pc[j] \in Active
  /\ phase[j] \in {"saving", "saved"} => pc[j] = "returned"
  /\ phase[j] \in {"failing", "failed"} => pc[j] \in Ended
  /\ pc[j] # "idle" => Files(j) = 0 .. Total(j) - 1

\* The status was committed by the last step of the task.
StatusInv(j) ==
  /\ status[j] = "awaiting_user" <=> phase[j] = "saved"
  /\ status[j] = "failed" <=> phase[j] = "failed"

\* The rows are the transactions of the result: staged first, then committed.
ResultInv(j) ==
  /\ phase[j] = "saving" => {row.tx : row \in staged[j]} = result[j]
  /\ phase[j] = "saved" => {row.tx : row \in rows[j]} = result[j]
  /\ phase[j] # "saving" => staged[j] = {}
  /\ phase[j] # "saved" => rows[j] = {}

\* The disk file of a row is a namesake of the file the row was read from.
Good(j, row) ==
  /\ row.tx[1] \in Files(j) /\ row.disk \in Files(j)
  /\ names[j][row.tx[1]] = row.original /\ names[j][row.disk] = row.original

DiskInv(j) ==
  /\ phase[j] \in {"queued", "running"} => diskMap[j] = DiskMapOf(names[j])
  /\ phase[j] \in {"queued", "running", "saving", "saved"} => onDisk[j] = Files(j)
  /\ \A row \in staged[j] \cup rows[j] : Good(j, row)

SessionInv(j) == PlaceInv(j) /\ StatusInv(j) /\ ResultInv(j) /\ DiskInv(j)

IInv ==
  /\ staged \in [Job -> SUBSET Row]
  /\ rows \in [Job -> SUBSET Row]
  /\ \A j \in Job : SessionInv(j)

\* A session no step touches keeps what holds of it.
LEMMA OthersSession ==
  ASSUME NEW k \in Job, SessionInv(k),
         pc'[k] = pc[k], result'[k] = result[k],
         receipts'[k] = receipts[k], statements'[k] = statements[k],
         status'[k] = status[k], phase'[k] = phase[k], names'[k] = names[k],
         onDisk'[k] = onDisk[k], diskMap'[k] = diskMap[k],
         staged'[k] = staged[k], rows'[k] = rows[k]
  PROVE  SessionInv(k)'
<1>1. PlaceInv(k)'
  BY DEF SessionInv, PlaceInv, Files, Total
<1>2. StatusInv(k)' /\ ResultInv(k)'
  BY DEF SessionInv, StatusInv, ResultInv
<1>3. DiskInv(k)'
  BY DEF SessionInv, DiskInv, Files, Good, DiskMapOf
<1> QED BY <1>1, <1>2, <1>3 DEF SessionInv

\* A step of one job leaves the others where they are.
LEMMA OthersRun ==
  ASSUME RunnerTypeOK, NEW j \in Job, NEW r, NEW c,
         Run(j, r, c) \/ Resume(j) \/ ParserReturns(j)
  PROVE  \A k \in Job \ {j} :
           /\ pc'[k] = pc[k] /\ result'[k] = result[k]
           /\ receipts'[k] = receipts[k] /\ statements'[k] = statements[k]
<1> USE DEF RunnerTypeOK
<1>1. CASE Run(j, r, c)
  BY <1>1 DEF Run, Acquire, FinishRun, Reconcile, StatementRaises, RaiseError, End
<1>2. CASE Resume(j)
  BY <1>2 DEF Resume
<1>3. CASE ParserReturns(j)
  <2>1. UNCHANGED <<receipts, statements>>
    BY <1>3 DEF ParserReturns, ParserRaises, FileParsed
  <2>2. ASSUME NEW n, FileParsed(j, n)
        PROVE  \A k \in Job \ {j} : pc'[k] = pc[k] /\ result'[k] = result[k]
    <3>1. CASE ReleaseAcquire(j) /\ UNCHANGED result
      BY <3>1 DEF ReleaseAcquire, Acquire
    <3>2. CASE FinishRun(j, receipts[j], statements[j], parsed'[j], log[j])
      BY <3>2 DEF FinishRun, Reconcile, StatementRaises, RaiseError, End
    <3> QED BY <2>2, <3>1, <3>2, Zenon DEF FileParsed
  <2>3. CASE ParserRaises(j)
    BY <2>1, <2>3 DEF ParserRaises, RaiseError, End
  <2> QED BY <1>3, <2>1, <2>2, <2>3 DEF ParserReturns
<1> QED BY <1>1, <1>2, <1>3

\* A transaction found in an uploaded file becomes a row of its file's name.
LEMMA RowOfTransaction ==
  ASSUME SizeInv, NEW j \in Job, phase[j] # "none", diskMap[j] = DiskMapOf(names[j]),
         NEW tx \in Nat \X Nat, tx[1] \in Files(j)
  PROVE  /\ ParsedToDbRow(j, tx) \in Row /\ ParsedToDbRow(j, tx).tx = tx
         /\ Good(j, ParsedToDbRow(j, tx))
<1>1. PICK r \in 0 .. MaxFiles, c \in 0 .. MaxFiles : names[j] \in Uploads(r, c)
  BY DEF SizeInv, Sized
<1>2. r \in Nat /\ c \in Nat
  BY RunnerAssumption
<1> DEFINE name == names[j][tx[1]]
           disk == DiskMapOf(names[j])[name]
<1>3. name \in DOMAIN diskMap[j] /\ disk \in Files(j) /\ names[j][disk] = name
  BY <1>1, <1>2, DiskMapFinds DEF Files
<1>4. name \in Name /\ disk \in Nat
  BY <1>1, <1>2, <1>3 DEF Uploads, Files
<1>5. ParsedToDbRow(j, tx) = [tx |-> tx, original |-> name, disk |-> disk]
  BY <1>3 DEF ParsedToDbRow, DiskFile
<1> HIDE DEF name, disk
<1>6. name = names[j][tx[1]]
  BY DEF name
<1> QED BY <1>3, <1>4, <1>5, <1>6 DEF Row, Good

\* The step that calls run(), or goes on with it, and what the task does next.
LEMMA JobKeeps ==
  ASSUME SizeInv, RunnerTypeOK, RunnerTypeOK', FromFiles', IInv,
         NEW j \in Job, RunJob(j) \/ JobStep(j)
  PROVE  IInv'
<1>1. /\ phase[j] \in {"queued", "running"} /\ UNCHANGED <<status, names, split, onDisk, rows>>
      /\ AfterRun(j)
  BY DEF RunJob, JobStep, AfterRun
<1>2. \A k \in Job \ {j} : /\ pc'[k] = pc[k] /\ result'[k] = result[k]
                           /\ receipts'[k] = receipts[k] /\ statements'[k] = statements[k]
  BY OthersRun DEF RunJob, JobStep
<1>3. /\ PlaceInv(j) /\ StatusInv(j) /\ ResultInv(j) /\ DiskInv(j)
      /\ diskMap[j] = DiskMapOf(names[j]) /\ onDisk[j] = Files(j)
      /\ rows[j] = {} /\ \A row \in staged[j] : Good(j, row)
  BY <1>1 DEF IInv, SessionInv, DiskInv, ResultInv
<1>4. Files(j) = 0 .. Total(j)' - 1
  <2>1. CASE RunJob(j)
    <3>1. PICK r \in 0 .. MaxFiles, c \in 0 .. MaxFiles :
            split[j] = r /\ names[j] \in Uploads(r, c)
      BY <1>1 DEF SizeInv, Sized
    <3>2. r \in Nat /\ c \in Nat
      BY RunnerAssumption
    <3>3. Files(j) = 0 .. r + c - 1 /\ Cardinality(Files(j)) - split[j] = c
      BY <3>1, <3>2, UploadSize DEF Files
    <3>4. receipts'[j] = r /\ statements'[j] = c
      BY <2>1, <3>1, <3>3 DEF RunJob, Run, RunnerTypeOK
    <3> QED BY <3>3, <3>4 DEF Total
  <2>2. CASE JobStep(j)
    <3>1. UNCHANGED <<receipts, statements>>
      <4>1. CASE ParserReturns(j)
        BY <4>1 DEF ParserReturns, ParserRaises, FileParsed
      <4>2. CASE Resume(j)
        BY <4>2 DEF Resume
      <4> QED BY <2>2, <4>1, <4>2 DEF JobStep
    <3> QED BY <1>3, <2>2, <3>1 DEF JobStep, PlaceInv, Active, Total
  <2> QED BY <2>1, <2>2
<1>5. ASSUME NEW tx \in result'[j]
      PROVE  /\ ParsedToDbRow(j, tx) \in Row /\ ParsedToDbRow(j, tx).tx = tx
             /\ Good(j, ParsedToDbRow(j, tx))
  <2>1. tx \in Nat \X Nat /\ tx[1] \in 0 .. Total(j)' - 1
    <3>1. result'[j] \subseteq (0 .. Total(j)' - 1) \X Nat
      BY DEF FromFiles, FilesInv
    <3>2. Total(j)' \in Nat
      BY DEF RunnerTypeOK, Total
    <3> QED BY <3>1, <3>2
  <2> QED BY <1>1, <1>3, <1>4, <2>1, RowOfTransaction
<1>6. UNCHANGED <<names, rows, onDisk>> => \A row : Good(j, row) => Good(j, row)'
  BY DEF Good, Files
<1>7. CASE /\ pc'[j] = "returned" /\ phase' = [phase EXCEPT ![j] = "saving"]
           /\ staged' = [staged EXCEPT ![j] = {ParsedToDbRow(j, tx) : tx \in result'[j]}]
           /\ diskMap' = [diskMap EXCEPT ![j] = NoMap]
  <2>1. /\ phase'[j] = "saving"
        /\ staged'[j] = {ParsedToDbRow(j, tx) : tx \in result'[j]}
        /\ \A k \in Job \ {j} : /\ phase'[k] = phase[k] /\ staged'[k] = staged[k]
                                /\ diskMap'[k] = diskMap[k]
    BY <1>7 DEF SizeInv, SessionTypeOK, IInv
  <2>2. staged' \in [Job -> SUBSET Row] /\ rows' \in [Job -> SUBSET Row]
    BY <1>1, <1>5, <1>7 DEF IInv
  <2>3. {row.tx : row \in staged'[j]} = result'[j]
    BY <1>5, <2>1
  <2>4. PlaceInv(j)'
    BY <1>1, <1>4, <1>7, <2>1 DEF PlaceInv, Files
  <2>5. StatusInv(j)' /\ ResultInv(j)'
    BY <1>1, <1>3, <2>1, <2>3 DEF StatusInv, ResultInv
  <2>6. DiskInv(j)'
    BY <1>1, <1>3, <1>5, <1>6, <2>1 DEF DiskInv, Files
  <2> QED BY <1>1, <1>2, <2>1, <2>2, <2>4, <2>5, <2>6, OthersSession DEF IInv, SessionInv
<1>8. CASE /\ \/ pc'[j] \in Active /\ phase' = [phase EXCEPT ![j] = "running"]
              \/ pc'[j] = "raised" /\ phase' = [phase EXCEPT ![j] = "failing"]
           /\ UNCHANGED <<staged, diskMap>>
  <2>1. /\ \/ pc'[j] \in Active /\ phase'[j] = "running"
           \/ pc'[j] = "raised" /\ phase'[j] = "failing"
        /\ \A k \in Job \ {j} : phase'[k] = phase[k]
    BY <1>8 DEF SizeInv, SessionTypeOK
  <2>2. PlaceInv(j)'
    BY <1>1, <1>4, <2>1 DEF PlaceInv, Files, Ended
  <2>3. StatusInv(j)' /\ ResultInv(j)'
    BY <1>1, <1>3, <1>8, <2>1 DEF StatusInv, ResultInv
  <2>4. DiskInv(j)'
    BY <1>1, <1>3, <1>6, <1>8, <2>1 DEF DiskInv, Files, DiskMapOf
  <2> QED BY <1>1, <1>2, <1>8, <2>1, <2>2, <2>3, <2>4, OthersSession DEF IInv, SessionInv, Row
<1> QED BY <1>1, <1>7, <1>8 DEF AfterRun

\* The steps of the request and of the database transactions.
LEMMA RequestKeeps ==
  ASSUME SizeInv, RunnerTypeOK, IInv, NEW j \in Job,
         \/ \E r, c \in 0 .. MaxFiles : \E uploaded \in Uploads(r, c) :
              CreateSession(j, r, uploaded)
         \/ Store(j) \/ Save(j) \/ Fail(j)
  PROVE  IInv'
<1>1. /\ PlaceInv(j) /\ StatusInv(j) /\ ResultInv(j) /\ DiskInv(j)
      /\ UNCHANGED <<pc, result, receipts, statements>>
  BY DEF IInv, SessionInv, CreateSession, Store, StoreFiles, StoreFails, Save, Commit,
     CommitFails, Fail, MarkFailed, MarkFailedFails, runnerVars
<1>2. ASSUME PlaceInv(j)', StatusInv(j)', ResultInv(j)', DiskInv(j)',
             staged' \in [Job -> SUBSET Row], rows' \in [Job -> SUBSET Row],
             \A k \in Job \ {j} :
               /\ status'[k] = status[k] /\ phase'[k] = phase[k] /\ names'[k] = names[k]
               /\ onDisk'[k] = onDisk[k] /\ diskMap'[k] = diskMap[k]
               /\ staged'[k] = staged[k] /\ rows'[k] = rows[k]
      PROVE  IInv'
  BY <1>1, <1>2, OthersSession DEF IInv, SessionInv
<1>3. names' = names => \A row : Good(j, row) => Good(j, row)'
  BY DEF Good, Files
<1> USE DEF SizeInv, SessionTypeOK
<1>4. ASSUME NEW r \in 0 .. MaxFiles, NEW c \in 0 .. MaxFiles,
             NEW uploaded \in Uploads(r, c), CreateSession(j, r, uploaded)
      PROVE  IInv'
  <2>1. /\ phase'[j] = "created" /\ status'[j] = "parsing" /\ phase[j] = "none"
        /\ UNCHANGED <<onDisk, diskMap, staged, rows>>
        /\ \A k \in Job \ {j} : /\ phase'[k] = phase[k] /\ status'[k] = status[k]
                                /\ names'[k] = names[k]
    BY <1>4 DEF CreateSession
  <2>2. PlaceInv(j)' /\ StatusInv(j)' /\ ResultInv(j)' /\ DiskInv(j)'
    BY <1>1, <2>1 DEF PlaceInv, StatusInv, ResultInv, DiskInv
  <2> QED BY <1>2, <2>1, <2>2 DEF IInv, Row
<1>5. CASE StoreFiles(j)
  <2>1. /\ phase'[j] = "queued" /\ phase[j] = "created"
        /\ onDisk'[j] = Files(j) /\ diskMap'[j] = DiskMapOf(names[j])
        /\ UNCHANGED <<status, names, staged, rows>>
        /\ \A k \in Job \ {j} : /\ phase'[k] = phase[k] /\ onDisk'[k] = onDisk[k]
                                /\ diskMap'[k] = diskMap[k]
    BY <1>5 DEF StoreFiles
  <2>2. PlaceInv(j)' /\ StatusInv(j)' /\ ResultInv(j)'
    BY <1>1, <2>1 DEF PlaceInv, StatusInv, ResultInv
  <2>3. DiskInv(j)'
    BY <1>1, <1>3, <2>1 DEF DiskInv, Files, DiskMapOf
  <2> QED BY <1>2, <2>1, <2>2, <2>3 DEF IInv, Row
<1>6. CASE StoreFails(j)
  <2>1. /\ phase'[j] = "aborted" /\ phase[j] = "created"
        /\ UNCHANGED <<status, names, diskMap, staged, rows>>
        /\ \A k \in Job \ {j} : phase'[k] = phase[k] /\ onDisk'[k] = onDisk[k]
    BY <1>6 DEF StoreFails
  <2>2. PlaceInv(j)' /\ StatusInv(j)' /\ ResultInv(j)' /\ DiskInv(j)'
    BY <1>1, <2>1 DEF PlaceInv, StatusInv, ResultInv, DiskInv, Files, Total
  <2> QED BY <1>2, <2>1, <2>2 DEF IInv, Row
<1>7. CASE Commit(j)
  <2>1. /\ phase[j] = "saving" /\ phase'[j] = "saved" /\ status'[j] = "awaiting_user"
        /\ staged'[j] = {} /\ rows'[j] = staged[j]
        /\ UNCHANGED <<names, onDisk, diskMap>>
        /\ staged' \in [Job -> SUBSET Row] /\ rows' \in [Job -> SUBSET Row]
        /\ \A k \in Job \ {j} : /\ phase'[k] = phase[k] /\ status'[k] = status[k]
                                /\ staged'[k] = staged[k] /\ rows'[k] = rows[k]
    BY <1>7 DEF Commit, IInv
  <2>2. PlaceInv(j)' /\ StatusInv(j)' /\ ResultInv(j)'
    BY <1>1, <2>1 DEF PlaceInv, StatusInv, ResultInv, Files, Total
  <2>3. DiskInv(j)'
    BY <1>1, <1>3, <2>1 DEF DiskInv, Files
  <2> QED BY <1>2, <2>1, <2>2, <2>3
<1>8. CASE CommitFails(j)
  <2>1. /\ phase[j] = "saving" /\ phase'[j] = "failing" /\ staged'[j] = {}
        /\ UNCHANGED <<status, names, onDisk, diskMap, rows>>
        /\ staged' \in [Job -> SUBSET Row]
        /\ \A k \in Job \ {j} : phase'[k] = phase[k] /\ staged'[k] = staged[k]
    BY <1>8 DEF CommitFails, IInv
  <2>2. PlaceInv(j)' /\ StatusInv(j)' /\ ResultInv(j)' /\ DiskInv(j)'
    BY <1>1, <2>1 DEF PlaceInv, StatusInv, ResultInv, DiskInv, Files, Total, Ended
  <2> QED BY <1>2, <2>1, <2>2 DEF IInv, Row
<1>9. CASE Fail(j)
  <2>1. /\ phase[j] = "failing"
        /\ \/ phase'[j] = "failed" /\ status'[j] = "failed"
           \/ phase'[j] = "stuck" /\ status' = status
        /\ UNCHANGED <<names, onDisk, diskMap, staged, rows>>
        /\ \A k \in Job \ {j} : phase'[k] = phase[k] /\ status'[k] = status[k]
    BY <1>9 DEF Fail, MarkFailed, MarkFailedFails
  <2>2. PlaceInv(j)' /\ StatusInv(j)' /\ ResultInv(j)' /\ DiskInv(j)'
    BY <1>1, <2>1 DEF PlaceInv, StatusInv, ResultInv, DiskInv, Files, Total
  <2> QED BY <1>2, <2>1, <2>2 DEF IInv, Row
<1> QED BY <1>4, <1>5, <1>6, <1>7, <1>8, <1>9 DEF Store, Save

\* A restart: what was under way is lost, what was committed stays.
LEMMA CrashKeeps ==
  ASSUME SizeInv, RunnerTypeOK, IInv, Crash
  PROVE  IInv'
<1>1. /\ \A k \in Job : /\ phase'[k] = IF phase[k] \in Pending THEN "lost" ELSE phase[k]
                        /\ pc'[k] = IF pc[k] \in Active THEN "lost" ELSE pc[k]
                        /\ diskMap'[k] = NoMap /\ staged'[k] = {}
      /\ UNCHANGED <<result, receipts, statements, status, names, onDisk, rows>>
      /\ staged' \in [Job -> SUBSET Row]
  BY DEF Crash, Halt
<1>2. ASSUME NEW k \in Job PROVE SessionInv(k)'
  <2>1. PlaceInv(k) /\ StatusInv(k) /\ ResultInv(k) /\ DiskInv(k)
    BY DEF IInv, SessionInv
  <2>2. PlaceInv(k)'
    BY <1>1, <2>1 DEF PlaceInv, Pending, Active, Ended, Files, Total
  <2>3. StatusInv(k)' /\ ResultInv(k)'
    BY <1>1, <2>1 DEF StatusInv, ResultInv, Pending
  <2>4. DiskInv(k)'
    BY <1>1, <2>1 DEF DiskInv, Pending, Files, Good
  <2> QED BY <2>2, <2>3, <2>4 DEF SessionInv
<1> QED BY <1>1, <1>2 DEF IInv, Row

----------------------------------------------------------------------------
(* The invariant and what follows from it.                                 *)

LEMMA SessionStep ==
  SizeInv /\ RunnerTypeOK /\ RunnerTypeOK' /\ FromFiles' /\ IInv /\ [Next]_vars => IInv'
<1> SUFFICES ASSUME SizeInv, RunnerTypeOK, RunnerTypeOK', FromFiles', IInv, [Next]_vars
             PROVE  IInv'
  OBVIOUS
<1>1. CASE UNCHANGED vars
  BY <1>1, OthersSession DEF vars, runnerVars, sessionVars, IInv, Row
<1>2. CASE Next
  BY <1>2, JobKeeps, RequestKeeps, CrashKeeps DEF Next
<1> QED BY <1>1, <1>2

\* Every session keeps the invariant, across the steps of all of them and
\* restarts.
LEMMA Inductive == Spec => []IInv
<1>1. Init => IInv
  BY DEF Init, RunnerInit, IInv, SessionInv, PlaceInv, StatusInv, ResultInv, DiskInv, Active
<1>2. Spec => []RunnerTypeOK /\ []FromFiles
  BY SessionsUseRunner, RunnerTypeCorrect, ResultsFromFiles
<1> HIDE DEF RunnerTypeOK, FromFiles, IInv, SizeInv
<1> QED BY <1>1, <1>2, SizeInductive, SessionStep, PTL DEF Spec

\* A session awaits its user exactly when all its transactions are rows of the
\* database, and has none otherwise, for any number of sessions, files and
\* restarts (sessions.py:180-226).
THEOREM RowsCorrect == Spec => []RowsAllOrNothing
<1>1. IInv => RowsAllOrNothing
  BY DEF IInv, SessionInv, StatusInv, ResultInv, RowsAllOrNothing
<1> QED BY <1>1, Inductive, PTL

\* The status a session settles with does not contradict its event stream
\* (runner.py:117-138, sessions.py:213-226).
THEOREM StatusCorrect == Spec => []StatusFollowsStream
<1>1. RunnerTypeOK /\ Progressing /\ IInv => StatusFollowsStream
  <2> SUFFICES ASSUME RunnerTypeOK, Progressing, IInv, NEW j \in Job
               PROVE  /\ pc[j] = "returned" => Said(j, "done")
                      /\ pc[j] = "raised" => Said(j, "error")
    BY DEF StatusFollowsStream, IInv, SessionInv, StatusInv, PlaceInv, Ended
  <2>1. ASSUME NEW n \in Nat, NEW stage, NEW file \in Nat,
               <<Event(stage, file)>> \in Seq(JobEvent),
               log[j] = Started(n) \o <<Event(stage, file)>>
        PROVE  Said(j, stage)
    <3>1. Started(n) \in Seq(JobEvent)
      BY StartedFacts
    <3>2. Len(log[j]) = Len(Started(n)) + 1 /\ log[j][Len(log[j])] = Event(stage, file)
      BY <2>1, <3>1
    <3>3. log[j] # <<>>
      BY <2>1, <3>1
    <3> QED BY <3>2, <3>3 DEF Said, Event
  <2>2. Total(j) \in Nat /\ receipts[j] \in Nat
    BY DEF RunnerTypeOK, Total
  <2>3. ProgressInv(j)
    BY DEF Progressing
  <2>4. CASE pc[j] = "returned"
    <3>1. PICK n \in Nat : log[j] = Started(n) \o <<Event("done", Total(j))>>
      BY <2>2, <2>3, <2>4 DEF ProgressInv
    <3> QED BY <2>1, <2>2, <2>4, <3>1, EntriesTyped
  <2>5. CASE pc[j] = "raised"
    <3>1. PICK n \in 1 .. Total(j) : log[j] = Started(n) \o <<Event("error", 0)>>
      BY <2>3, <2>5, Zenon DEF ProgressInv
    <3>2. n \in Nat
      BY <2>2
    <3> QED BY <2>1, <2>5, <3>1, <3>2, EntriesTyped
  <2> QED BY <2>4, <2>5
<1>2. Spec => []RunnerTypeOK /\ []Progressing
  BY SessionsUseRunner, RunnerTypeCorrect, ProgressInductive
<1> HIDE DEF RunnerTypeOK, Progressing, IInv, StatusFollowsStream
<1> QED BY <1>1, <1>2, Inductive, PTL

\* The disk file of every row is an uploaded namesake of its source, the
\* source itself when the names of the upload are distinct
\* (sessions.py:127-148, 183-194).
THEOREM DiskFilesCorrect == Spec => []RowPointsToNamesake
<1>1. IInv => RowPointsToNamesake
  <2> SUFFICES ASSUME IInv, NEW j \in Job, NEW row \in rows[j]
               PROVE  /\ row.disk \in onDisk[j] /\ names[j][row.disk] = row.original
                      /\ IsInjective(names[j]) => row.disk = row.tx[1]
    BY DEF RowPointsToNamesake
  <2>1. phase[j] = "saved" /\ onDisk[j] = Files(j) /\ Good(j, row)
    BY DEF IInv, SessionInv, ResultInv, DiskInv
  <2> QED BY <2>1 DEF Good, Files, IsInjective
<1> QED BY <1>1, Inductive, PTL
=============================================================================
