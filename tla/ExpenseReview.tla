--------------------------- MODULE ExpenseReview ---------------------------
(***************************************************************************)
(* The review endpoints of app/api/routes/sessions.py over user_repo,      *)
(* session_repo and expense_record_repo, with the two uploads that may     *)
(* bring a new user (POST /sessions, POST /templates): concurrent requests *)
(* on one SQLite database. Each SQL statement is awaited, so a step is one *)
(* statement with the code up to the next.                                 *)
(*                                                                         *)
(* pysqlite opens a transaction at the first INSERT or UPDATE: a SELECT    *)
(* before it sees what is committed then, and the first flush takes the    *)
(* one write lock, which commit or rollback gives back.                    *)
(***************************************************************************)
EXTENDS Integers, Sequences, FiniteSets

CONSTANTS
  Request,          \* identifiers of the requests
  Shape,            \* what a request may ask, see Asked
  User,             \* Azure object ids
  Tx, Owner,        \* transactions, and their users
  Field, Value,     \* what a patch may set, and to what
  Null,             \* field not patched, or empty
  NoOne,            \* nobody holds the write lock
  PlaceholderVendor, \* a vendor with id 0 exists (tests insert it, the app never does)
  Stored            \* what the expense table may hold at first

\* A request: create (POST /sessions), template (POST /templates), list (any
\* read), patch or bulk-tag.
Asked ==
  [kind : {"create", "template", "list", "patch", "bulk"}, user : User, txs : Seq(Tx),
   patch : [Field -> Value \cup {Null}]]

NoRecord == [row |-> FALSE]
Record == [row : {TRUE}, field : [Field -> Value \cup {Null}]]

ASSUME ReviewAssumption ==
  /\ \A s \in Shape : s \in Asked
  /\ Owner \in [Tx -> User]
  /\ NoOne \notin Request /\ Null \notin Record
  /\ PlaceholderVendor \in BOOLEAN
  /\ Stored \subseteq [Tx -> {NoRecord} \cup Record]
  /\ ~PlaceholderVendor => Stored = {[t \in Tx |-> NoRecord]}

VARIABLES
  users,     \* committed rows: the users,
  sessions,  \* the users who have a session,
  templates, \* the users who have registered a template,
  expense,   \* and the expense record of each transaction
  writer,    \* request that holds the write lock
  dirty,     \* what it sees: [users, sessions, templates, expense], or Null
  asked,     \* by Request
  at,        \* statement a request is about to issue, or its answer
  k,         \* position in its transaction_ids
  loaded     \* its identity map: Tx -> record loaded or written, Null if none

vars == <<users, sessions, templates, expense, writer, dirty, asked, at, k, loaded>>

Answers == {"200", "403", "404", "409", "422", "500"}
Committed ==
  [users |-> users, sessions |-> sessions, templates |-> templates, expense |-> expense]
View(r) == IF writer = r THEN dirty ELSE Committed
CurrentTx(r) == asked[r].txs[k[r]]

\* Owners of transactions have used the application before.
Init ==
  /\ users = {Owner[t] : t \in Tx}
  /\ sessions = {Owner[t] : t \in Tx}
  /\ templates = {}
  /\ expense \in Stored
  /\ writer = NoOne
  /\ dirty = Null
  /\ asked \in [Request -> Shape]
  /\ at = [r \in Request |-> "user"]
  /\ k = [r \in Request |-> 1]
  /\ loaded = [r \in Request |-> [t \in Tx |-> Null]]

----------------------------------------------------------------------------
GoTo(r, place) == at' = [at EXCEPT ![r] = place]
Keep == UNCHANGED <<users, sessions, templates, expense>>

\* The end of a transaction.
Release(r) ==
  /\ writer' = IF writer = r THEN NoOne ELSE writer
  /\ dirty' = IF writer = r THEN Null ELSE dirty

\* Mutant: an error response leaves the transaction open.
AnswerKeepsLock(r, code) ==
  /\ GoTo(r, code)
  /\ Keep /\ UNCHANGED <<writer, dirty, asked, k, loaded>>

\* What the writer sees becomes what is stored.
StoreView(r) ==
  /\ users' = View(r).users /\ sessions' = View(r).sessions
  /\ templates' = View(r).templates /\ expense' = View(r).expense

\* Mutant: closing the database session commits.
AnswerCommits(r, code) ==
  /\ GoTo(r, code)
  /\ StoreView(r) /\ Release(r)
  /\ UNCHANGED <<asked, k, loaded>>

\* The response is sent and the database session closed: rollback.
Answer(r, code) ==
  /\ GoTo(r, code) /\ Release(r)
  /\ Keep /\ UNCHANGED <<asked, k, loaded>>

\* bulk-tag turns every error of its loop into 409, after a rollback.
Failure(r, code) == Answer(r, IF asked[r].kind = "bulk" THEN "409" ELSE code)

\* A flush that wrote: the lock is taken and the view updated.
Wrote(r, view) ==
  /\ writer' = r
  /\ dirty' = view
  /\ Keep /\ UNCHANGED asked

LockFree(r) == writer \in {NoOne, r}

----------------------------------------------------------------------------
\* The statement after get_or_create_by_oid.
WithUser(r) ==
  CASE asked[r].kind = "create" -> "newsession"
    [] asked[r].kind = "template" -> "newtemplate"
    [] OTHER -> "session"

\* get_or_create_by_oid: SELECT.
SelectUser(r) ==
  /\ at[r] = "user"
  /\ GoTo(r, IF asked[r].user \notin View(r).users THEN "newuser" ELSE WithUser(r))
  /\ Keep /\ UNCHANGED <<writer, dirty, asked, k, loaded>>

\* get_or_create_by_oid: INSERT. The oid is unique: the second of two first
\* requests fails.
InsertUser(r) ==
  /\ at[r] = "newuser" /\ LockFree(r)
  /\ IF asked[r].user \in View(r).users THEN Answer(r, "500")
     ELSE /\ Wrote(r, [View(r) EXCEPT !.users = @ \cup {asked[r].user}])
          /\ GoTo(r, WithUser(r))
          /\ UNCHANGED <<k, loaded>>

\* create_session: INSERT of the session; it fails when template_id names no
\* template. Then commit.
InsertSession(r) ==
  /\ at[r] = "newsession" /\ LockFree(r)
  /\ \/ Answer(r, "500")
     \/ /\ Wrote(r, [View(r) EXCEPT !.sessions = @ \cup {asked[r].user}])
        /\ GoTo(r, "commit")
        /\ UNCHANGED <<k, loaded>>

\* create_template: the file is looked at only now that the user is there, and
\* may be refused.
RejectTemplate(r) == at[r] = "newtemplate" /\ Answer(r, "422")

\* create_template: INSERT of the template, then its file and the commit.
InsertTemplate(r) ==
  /\ at[r] = "newtemplate" /\ LockFree(r)
  /\ Wrote(r, [View(r) EXCEPT !.templates = @ \cup {asked[r].user}])
  /\ GoTo(r, "commit")
  /\ UNCHANGED <<k, loaded>>

\* session_repo.get; a read then has what it needs.
SelectSession(r) ==
  /\ at[r] = "session"
  /\ IF asked[r].user \notin View(r).sessions THEN Answer(r, "404")
     ELSE IF asked[r].kind = "list" THEN Answer(r, "200")
     ELSE /\ GoTo(r, IF asked[r].txs = <<>> THEN "commit" ELSE "load")
          /\ Keep /\ UNCHANGED <<writer, dirty, asked, k, loaded>>

\* upsert_user_input: the transaction's owner, then SELECT of the record. A row
\* that is in the identity map is not refreshed.
LoadRecord(r) ==
  /\ at[r] = "load"
  /\ IF Owner[CurrentTx(r)] # asked[r].user THEN Failure(r, "403")
     ELSE /\ loaded' = IF loaded[r][CurrentTx(r)] \in Record THEN loaded
                       ELSE [loaded EXCEPT ![r][CurrentTx(r)] = View(r).expense[CurrentTx(r)]]
          /\ GoTo(r, "flush")
          /\ Keep /\ UNCHANGED <<writer, dirty, asked, k>>

\* Fields that the flush puts into its UPDATE.
Changed(r) ==
  {f \in Field : /\ asked[r].patch[f] # Null
                 /\ asked[r].patch[f] # loaded[r][CurrentTx(r)].field[f]}

\* Mutant: the UPDATE writes every column back.
OverlayWhole(r, record) ==
  [row |-> TRUE, field |-> [f \in Field |->
     IF asked[r].patch[f] # Null THEN asked[r].patch[f] ELSE loaded[r][CurrentTx(r)].field[f]]]

\* A row after the UPDATE.
Overlay(r, record) ==
  [record EXCEPT !.field = [f \in Field |->
     IF f \in Changed(r) THEN asked[r].patch[f] ELSE @[f]]]

\* Mutant: the last transaction_id is left out.
NextTxOffByOne(r) == k[r] < Len(asked[r].txs) - 1

NextTx(r) == k[r] < Len(asked[r].txs)

\* Mutant: the loop stays at one transaction_id.
AdvanceInPlace(r) ==
  IF NextTx(r) THEN GoTo(r, "load") /\ UNCHANGED k
  ELSE GoTo(r, "commit") /\ UNCHANGED k

\* After one upsert.
Advance(r) ==
  IF NextTx(r) THEN GoTo(r, "load") /\ k' = [k EXCEPT ![r] = @ + 1]
  ELSE GoTo(r, "commit") /\ UNCHANGED k

\* INSERT of a first record. Its vendor_id is 0, and there may be a record of
\* another request by now.
InsertRecord(r) ==
  /\ at[r] = "flush" /\ loaded[r][CurrentTx(r)] = NoRecord /\ LockFree(r)
  /\ IF ~PlaceholderVendor \/ View(r).expense[CurrentTx(r)] # NoRecord
     THEN Failure(r, "500")
     ELSE LET fresh == [row |-> TRUE, field |-> asked[r].patch] IN
          /\ Wrote(r, [View(r) EXCEPT !.expense[CurrentTx(r)] = fresh])
          /\ loaded' = [loaded EXCEPT ![r][CurrentTx(r)] = fresh]
          /\ Advance(r)

\* UPDATE of the fields that differ from what was loaded. patch_transaction then
\* reads updated_at, which the UPDATE has expired: no value can be awaited there.
UpdateRecord(r) ==
  /\ at[r] = "flush" /\ loaded[r][CurrentTx(r)] # NoRecord /\ Changed(r) # {} /\ LockFree(r)
  /\ IF asked[r].kind = "patch" THEN Answer(r, "500")
     ELSE /\ Wrote(r, [View(r) EXCEPT !.expense[CurrentTx(r)] = Overlay(r, @)])
          /\ loaded' = [loaded EXCEPT ![r][CurrentTx(r)] = Overlay(r, @)]
          /\ Advance(r)

\* Nothing differs: no statement is issued.
NothingToFlush(r) ==
  /\ at[r] = "flush" /\ loaded[r][CurrentTx(r)] # NoRecord /\ Changed(r) = {}
  /\ Advance(r)
  /\ Keep /\ UNCHANGED <<writer, dirty, asked, loaded>>

\* Another connection holds the lock for longer than the busy timeout.
LockTimeout(r) ==
  /\ at[r] \in {"newuser", "newsession", "newtemplate", "flush"} /\ ~LockFree(r)
  /\ at[r] = "flush" /\ loaded[r][CurrentTx(r)] # NoRecord => Changed(r) # {}
  /\ IF at[r] = "flush" THEN Failure(r, "500") ELSE Answer(r, "500")

Commit(r) ==
  /\ at[r] = "commit"
  /\ GoTo(r, "200")
  /\ StoreView(r) /\ Release(r)
  /\ UNCHANGED <<asked, k, loaded>>

\* COMMIT raises, or writing the template's file before it.
CommitFails(r) == at[r] = "commit" /\ Failure(r, "500")

\* The process ends: what is not committed is gone, and so are the requests
\* that were under way.
Crash ==
  /\ at' = [r \in Request |-> IF at[r] \in Answers \cup {"user"} THEN at[r] ELSE "gone"]
  /\ writer' = NoOne /\ dirty' = Null
  /\ Keep /\ UNCHANGED <<asked, k, loaded>>

Step(r) ==
  \/ SelectUser(r) \/ InsertUser(r) \/ InsertSession(r) \/ RejectTemplate(r)
  \/ InsertTemplate(r) \/ SelectSession(r) \/ LoadRecord(r) \/ InsertRecord(r)
  \/ UpdateRecord(r) \/ NothingToFlush(r) \/ LockTimeout(r) \/ Commit(r) \/ CommitFails(r)

Next == Crash \/ \E r \in Request : Step(r)

Spec == Init /\ [][Next]_vars

\* Every statement returns or raises; a waiting one within the busy timeout.
FairSpec == Spec /\ \A r \in Request : WF_vars(Step(r))

----------------------------------------------------------------------------
(* Properties.                                                             *)

\* The write lock is held by a request under way that has written, and never
\* by one that has been answered: an error path that forgets the rollback
\* would stop every later write (sessions.py:513).
LockHasOwner == writer # NoOne => at[writer] \notin Answers \cup {"gone", "user", "newuser"}

\* Every change of stored expense input is the commit of one request that has
\* gone through all its transactions: each patched field gets its value, or
\* stays because it had that value when looked at, and other transactions are
\* left alone. bulk-tag is all or nothing (sessions.py:487).
WholeRequests ==
  [][expense' # expense => \E r \in Request :
       /\ at[r] = "commit" /\ at'[r] = "200"
       /\ \A t \in Tx :
            IF \A n \in DOMAIN asked[r].txs : asked[r].txs[n] # t THEN expense'[t] = expense[t]
            ELSE /\ loaded[r][t] \in Record /\ Owner[t] = asked[r].user
                 /\ \A f \in Field : asked[r].patch[f] # Null =>
                      \/ expense'[t].field[f] = asked[r].patch[f]
                      \/ expense'[t] # NoRecord /\ expense'[t].field[f] = expense[t].field[f]]_vars

\* A field changes only to what the committing request set: a request does not
\* write back other fields as it had read them, so two users' edits of
\* different fields of one transaction both stay ("not-None fields only",
\* sessions.py:361).
NoFieldWrittenBack ==
  [][\A t \in Tx : expense[t] \in Record =>
       \A f \in Field : expense'[t].field[f] # expense[t].field[f] =>
         \E r \in Request : at'[r] # at[r] /\ asked[r].patch[f] = expense'[t].field[f]]_vars

\* A user row comes into the database only by the commit that brings a session
\* or a template of that user: get_or_create_by_oid is called by every endpoint,
\* but no read, no refused upload and no request that fails later registers
\* anybody (user_repo.py:17).
UserComesWithUpload ==
  [][\A u \in users' \ users :
       u \in (sessions' \ sessions) \cup (templates' \ templates)]_vars

\* The write lock is always given back.
LockGivenBack == []<>(writer = NoOne)

\* What the review page promises: input for one's own transaction is saved,
\* unless another request got in its way (sessions.py:359).
AloneIsSaved ==
  \A r \in Request :
    /\ asked[r].kind = "patch"
    /\ \A n \in DOMAIN asked[r].txs : Owner[asked[r].txs[n]] = asked[r].user
    /\ \A s \in Request \ {r} : at[s] = "user"
    => at[r] # "500"
=============================================================================
