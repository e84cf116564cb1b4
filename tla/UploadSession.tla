---------------------------- MODULE UploadSession ----------------------------
(***************************************************************************)
(* An upload session, from POST /sessions to its settled database row:     *)
(* create_session and _run_job_background of app/api/routes/sessions.py    *)
(* around the runs of JobRunner, with the files on disk, the in-memory map *)
(* of disk names and the committed rows. Job is the set of session ids.    *)
(***************************************************************************)
EXTENDS JobRunner, FiniteSetsExt, Functions

CONSTANTS
  Name,        \* original file names
  MaxCrashes   \* bound: how often the process ends and is started again

ASSUME SessionAssumption == MaxCrashes \in Nat

VARIABLES
  status,    \* UploadSession.status, committed; "absent" before the INSERT
  phase,     \* how far the request and then the background task are
  names,     \* the original name of each file, numbered from 0
  split,     \* how many of them are receipts
  onDisk,    \* the files in the session's upload directory
  diskMap,   \* app.state._disk_filename_map: original name -> file
  staged,    \* the Transaction objects of the transaction not committed yet
  rows,      \* the session's committed Transaction rows
  crashes

sessionVars == <<status, phase, names, split, onDisk, diskMap, staged, rows, crashes>>
vars == <<runnerVars, sessionVars>>

NoMap == [name \in {} |-> 0]
Files(j) == DOMAIN names[j]

\* Phases with code still to run; each other phase but "none" is an end.
Pending == {"created", "queued", "running", "saving", "failing"}
\* Ends no handler sees: an error escaped the request or the background task,
\* or the process ended.
Abandoned == {"aborted", "stuck", "lost"}

Init ==
  /\ RunnerInit
  /\ status = [j \in Job |-> "absent"]
  /\ phase = [j \in Job |-> "none"]
  /\ names = [j \in Job |-> NoMap]
  /\ split = [j \in Job |-> 0]
  /\ onDisk = [j \in Job |-> {}]
  /\ diskMap = [j \in Job |-> NoMap]
  /\ staged = [j \in Job |-> {}]
  /\ rows = [j \in Job |-> {}]
  /\ crashes = 0

----------------------------------------------------------------------------
(* The request.                                                            *)

\* Up to the commit: the files passed the guard, the row says "parsing".
CreateSession(j, r, uploaded) ==
  /\ phase[j] = "none"
  /\ phase' = [phase EXCEPT ![j] = "created"]
  /\ status' = [status EXCEPT ![j] = "parsing"]
  /\ names' = [names EXCEPT ![j] = uploaded]
  /\ split' = [split EXCEPT ![j] = r]
  /\ UNCHANGED <<runnerVars, onDisk, diskMap, staged, rows, crashes>>

\* Mutant: each name is mapped to the first file of the upload.
DiskMapOfFirst(uploaded) == [name \in Range(uploaded) |-> 0]

\* disk_map[original] = disk name, file after file: a later namesake wins.
DiskMapOf(uploaded) ==
  [name \in Range(uploaded) |-> Max({f \in DOMAIN uploaded : uploaded[f] = name})]

\* After the commit: write the files, remember their disk names, queue the
\* task, answer 201.
StoreFiles(j) ==
  /\ phase[j] = "created"
  /\ phase' = [phase EXCEPT ![j] = "queued"]
  /\ onDisk' = [onDisk EXCEPT ![j] = Files(j)]
  /\ diskMap' = [diskMap EXCEPT ![j] = DiskMapOf(names[j])]
  /\ UNCHANGED <<runnerVars, status, names, split, staged, rows, crashes>>

\* Making the directory or writing file k raises: the answer is 500.
StoreFails(j) ==
  /\ phase[j] = "created"
  /\ phase' = [phase EXCEPT ![j] = "aborted"]
  /\ \E k \in Files(j) : onDisk' = [onDisk EXCEPT ![j] = 0 .. k - 1]
  /\ UNCHANGED <<runnerVars, status, names, split, diskMap, staged, rows, crashes>>

----------------------------------------------------------------------------
(* The background task.                                                    *)

\* disk_map.get(source): the file a row's source_filename names, -1 for "".
DiskFile(map, name) == IF name \in DOMAIN map THEN map[name] ELSE -1

ParsedToDbRow(j, tx) ==
  [tx |-> tx, original |-> names[j][tx[1]],
   disk |-> DiskFile(diskMap[j], names[j][tx[1]])]

\* What the background task does in the step that ends run(), if it ends.
AfterRun(j) ==
  /\ \/ /\ pc'[j] \in Active
        /\ phase' = [phase EXCEPT ![j] = "running"]
        /\ UNCHANGED <<staged, diskMap>>
     \/ /\ pc'[j] = "returned"
        /\ phase' = [phase EXCEPT ![j] = "saving"]
        /\ staged' = [staged EXCEPT ![j] = {ParsedToDbRow(j, tx) : tx \in result'[j]}]
        /\ diskMap' = [diskMap EXCEPT ![j] = NoMap]
     \/ /\ pc'[j] = "raised"
        /\ phase' = [phase EXCEPT ![j] = "failing"]
        /\ UNCHANGED <<staged, diskMap>>
  /\ UNCHANGED <<status, names, split, onDisk, rows, crashes>>

RunJob(j) ==
  /\ phase[j] = "queued"
  /\ Run(j, split[j], Cardinality(Files(j)) - split[j])
  /\ AfterRun(j)

JobStep(j) ==
  /\ phase[j] = "running"
  /\ Resume(j) \/ ParserReturns(j)
  /\ AfterRun(j)

\* bulk_create and the new status are one database transaction.
Commit(j) ==
  /\ phase[j] = "saving"
  /\ phase' = [phase EXCEPT ![j] = "saved"]
  /\ rows' = [rows EXCEPT ![j] = staged[j]]
  /\ status' = [status EXCEPT ![j] = "awaiting_user"]
  /\ staged' = [staged EXCEPT ![j] = {}]
  /\ UNCHANGED <<runnerVars, names, split, onDisk, diskMap, crashes>>

\* Mutant: bulk_create commits on its own.
CommitFailsAfterRows(j) ==
  /\ phase[j] = "saving"
  /\ phase' = [phase EXCEPT ![j] = "failing"]
  /\ rows' = [rows EXCEPT ![j] = staged[j]]
  /\ staged' = [staged EXCEPT ![j] = {}]
  /\ UNCHANGED <<runnerVars, status, names, split, onDisk, diskMap, crashes>>

\* The transaction raises and is rolled back; the except clause is next.
CommitFails(j) ==
  /\ phase[j] = "saving"
  /\ phase' = [phase EXCEPT ![j] = "failing"]
  /\ staged' = [staged EXCEPT ![j] = {}]
  /\ UNCHANGED <<runnerVars, status, names, split, onDisk, diskMap, rows, crashes>>

\* Mutant: the new status is not committed.
MarkFailedUncommitted(j) ==
  /\ phase[j] = "failing"
  /\ phase' = [phase EXCEPT ![j] = "failed"]
  /\ UNCHANGED <<runnerVars, status, names, split, onDisk, diskMap, staged, rows, crashes>>

MarkFailed(j) ==
  /\ phase[j] = "failing"
  /\ phase' = [phase EXCEPT ![j] = "failed"]
  /\ status' = [status EXCEPT ![j] = "failed"]
  /\ UNCHANGED <<runnerVars, names, split, onDisk, diskMap, staged, rows, crashes>>

\* The except clause's own transaction raises: nobody catches that.
MarkFailedFails(j) ==
  /\ phase[j] = "failing"
  /\ phase' = [phase EXCEPT ![j] = "stuck"]
  /\ UNCHANGED <<runnerVars, status, names, split, onDisk, diskMap, staged, rows, crashes>>

\* The process ends and is started again: the database and the files stay,
\* nothing takes up the sessions that were under way.
Crash ==
  /\ crashes < MaxCrashes
  /\ crashes' = crashes + 1
  /\ Halt
  /\ phase' = [j \in Job |-> IF phase[j] \in Pending THEN "lost" ELSE phase[j]]
  /\ diskMap' = [j \in Job |-> NoMap]
  /\ staged' = [j \in Job |-> {}]
  /\ UNCHANGED <<status, names, split, onDisk, rows>>

Store(j) == StoreFiles(j) \/ StoreFails(j)
Save(j) == Commit(j) \/ CommitFails(j)
Fail(j) == MarkFailed(j) \/ MarkFailedFails(j)

Uploads(r, c) == [0 .. r + c - 1 -> Name]

Next ==
  \/ \E j \in Job, r, c \in 0 .. MaxFiles :
       r + c > 0 /\ \E uploaded \in Uploads(r, c) : CreateSession(j, r, uploaded)
  \/ \E j \in Job : Store(j) \/ RunJob(j) \/ JobStep(j) \/ Save(j) \/ Fail(j)
  \/ Crash

Spec == Init /\ [][Next]_vars

\* The loop runs every task that can run; parsers and database calls return
\* or raise.
FairSpec ==
  /\ Spec
  /\ \A j \in Job :
       WF_vars(Store(j) \/ RunJob(j) \/ JobStep(j) \/ Save(j) \/ Fail(j))

----------------------------------------------------------------------------
(* Properties.                                                             *)

\* A session awaits its user exactly when all its transactions are rows of the
\* database; before, and when the job failed at whatever point, it has none
\* (sessions.py:180-226).
RowsAllOrNothing ==
  \A j \in Job :
    /\ status[j] = "awaiting_user" => {row.tx : row \in rows[j]} = result[j]
    /\ status[j] # "awaiting_user" => rows[j] = {}

Said(j, stage) == log[j] # <<>> /\ log[j][Len(log[j])].stage = stage

\* The status does not contradict the event stream: a session that awaits its
\* user was announced done, one whose stream says error never awaits its user,
\* and a settled session's stream has ended (runner.py:117-138, sessions.py:213-226).
StatusFollowsStream ==
  \A j \in Job :
    /\ status[j] = "awaiting_user" => Said(j, "done")
    /\ status[j] = "failed" => Said(j, "done") \/ Said(j, "error")

\* The disk file of every row is in the upload directory and was uploaded
\* under the row's original name; when the names of an upload are distinct it
\* is the file the transaction was read from (sessions.py:127-148, 183-194).
RowPointsToNamesake ==
  \A j \in Job : \A row \in rows[j] :
    /\ row.disk \in onDisk[j]
    /\ names[j][row.disk] = row.original
    /\ IsInjective(names[j]) => row.disk = row.tx[1]

\* Every session the client was told of settles, unless an error escaped both
\* handlers or the process ended.
ParsingSettles ==
  \A j \in Job :
    status[j] = "parsing" ~>
      status[j] \in {"awaiting_user", "failed"} \/ phase[j] \in Abandoned

\* The file shown beside a transaction is the one it was read from
\* (sessions.py:443).
RowPointsToOwnFile ==
  \A j \in Job : \A row \in rows[j] : row.disk = row.tx[1]
=============================================================================
