-------------------------- MODULE TemplateRegistry --------------------------
(***************************************************************************)
(* app/api/routes/templates.py over template_repo and file_manager:        *)
(* concurrent requests of one user on template rows and their files, and   *)
(* a session that selected a template. A step is one awaited statement     *)
(* with the code up to the next; reading and writing a file does not       *)
(* suspend. Uploads are valid and the sheets of a patch exist: the others  *)
(* are answered 422 before anything is changed.                            *)
(***************************************************************************)
EXTENDS Integers, FiniteSets

CONSTANTS
  Request, Ask,  \* template requests, and what each may ask
  MaxId,         \* bound: ids of templates
  NoOne          \* nobody holds the write lock

Id == 1 .. MaxId
Kinds == {"create", "delete", "cells", "mapping", "rename", "read"}

ASSUME RegistryAssumption ==
  /\ MaxId \in Nat \ {0}
  /\ Ask \subseteq [kind : Kinds, id : Id]
  /\ NoOne \notin Request
  /\ "none" \notin Request   \* the upload of no row

VARIABLES
  rows,      \* committed template rows, by id
  selected,  \* committed template_id of the session, 0 for NULL
  files,     \* template.xlsx, by id
  writer,    \* who holds SQLite's write lock
  pending,   \* what the writer sees: [rows, selected], or NoOne
  asked, at, \* by Request: the request, and its next statement or its answer
  target,    \* the id it works on
  loaded,    \* the row it has read
  broken     \* history: ids whose file, since it was stored, a write of patched
             \* cells cut off

registryVars == <<rows, selected, files, writer, pending, asked, at, target, loaded, broken>>

NoRow == [upload |-> "none", overrides |-> {}]
Missing == [upload |-> "none", patches |-> {}]
\* What a write that is cut off leaves: a part, which no library opens, or
\* nothing at all, which some readers take for a missing file.
Torn == [upload |-> "torn", patches |-> {}]
Empty == [upload |-> "empty", patches |-> {}]
Cut == {Torn, Empty}
Registered(upload) == [upload |-> upload, overrides |-> {}]
Uploaded(upload) == [upload |-> upload, patches |-> {}]

Answers == {"200", "404", "missing", "500", "gone"}

\* Template 1 is the one the session was created with.
Chosen == "first"

RegistryInit ==
  /\ rows = [i \in Id |-> IF i = 1 THEN Registered(Chosen) ELSE NoRow]
  /\ selected = 1
  /\ files = [i \in Id |-> IF i = 1 THEN Uploaded(Chosen) ELSE Missing]
  /\ writer = NoOne /\ pending = NoOne
  /\ asked \in [Request -> Ask]
  /\ at = [r \in Request |-> IF asked[r].kind = "create" THEN "insert" ELSE "get"]
  /\ target = [r \in Request |-> asked[r].id]
  /\ loaded = [r \in Request |-> NoRow]
  /\ broken = {}

----------------------------------------------------------------------------
(* The write lock: taken by the first INSERT, UPDATE or DELETE.             *)

LockFree(r) == writer \in {NoOne, r}
View(r) == IF writer = r THEN pending ELSE [rows |-> rows, selected |-> selected]

GoTo(r, place) == at' = [at EXCEPT ![r] = place]

Write(r, view) == LockFree(r) /\ writer' = r /\ pending' = view

Release(r) ==
  IF writer = r THEN writer' = NoOne /\ pending' = NoOne ELSE UNCHANGED <<writer, pending>>

\* The answer; what was not committed is rolled back.
Answer(r, code) ==
  /\ GoTo(r, code) /\ Release(r)
  /\ UNCHANGED <<rows, selected, asked, target, loaded>>

----------------------------------------------------------------------------
\* template_repo.get
GetTemplate(r) ==
  /\ at[r] = "get"
  /\ IF rows[target[r]] = NoRow THEN Answer(r, "404")
     ELSE /\ loaded' = [loaded EXCEPT ![r] = rows[target[r]]]
          /\ GoTo(r, CASE asked[r].kind = "delete" -> "delete"
                       [] asked[r].kind \in {"mapping", "rename"} -> "update"
                       [] OTHER -> "file")
          /\ UNCHANGED <<rows, selected, writer, pending, asked, target>>
  /\ UNCHANGED <<files, broken>>

\* The rowid SQLite gives: one more than the largest, so that the id of a
\* deleted last row is given again.
NewId(view) ==
  CHOOSE i \in 1 .. MaxId + 1 :
    /\ \A j \in Id : view.rows[j] # NoRow => j < i
    /\ i = 1 \/ view.rows[i - 1] # NoRow

\* Mutant: the row is committed before the file is written.
InsertTemplateFirst(r) ==
  /\ at[r] = "insert"
  /\ NewId(View(r)) \in Id /\ LockFree(r)
  /\ rows' = [rows EXCEPT ![NewId(View(r))] = Registered(r)]
  /\ target' = [target EXCEPT ![r] = NewId(View(r))]
  /\ GoTo(r, "store")
  /\ UNCHANGED <<selected, files, writer, pending, asked, loaded, broken>>

\* create_template up to the flush.
InsertTemplate(r) ==
  /\ at[r] = "insert"
  /\ NewId(View(r)) \in Id
  /\ Write(r, [View(r) EXCEPT !.rows[NewId(View(r))] = Registered(r)])
  /\ target' = [target EXCEPT ![r] = NewId(View(r))]
  /\ GoTo(r, "store")
  /\ UNCHANGED <<rows, selected, files, asked, loaded, broken>>

\* create_template: mkdir, write_bytes and file_path.
StoreFile(r) ==
  /\ at[r] = "store"
  /\ files' = [files EXCEPT ![target[r]] = Uploaded(r)]
  /\ broken' = broken \ {target[r]}
  /\ GoTo(r, "commit")
  /\ UNCHANGED <<rows, selected, writer, pending, asked, target, loaded>>

\* An OSError: the file is as it was, or cut off.
StoreFails(r) ==
  /\ at[r] = "store"
  /\ files' \in {files} \cup {[files EXCEPT ![target[r]] = cut] : cut \in Cut}
  /\ Answer(r, "500")
  /\ UNCHANGED broken

Whole(id) == files[id] \notin Cut \cup {Missing}

\* One of the readers, after template_repo.get: the workbook's cells, which
\* takes a whole file, or the file as it is.
ReadFile(r) ==
  /\ at[r] = "file" /\ asked[r].kind = "read"
  /\ \/ files[target[r]] = Missing /\ Answer(r, "missing")
     \/ files[target[r]] \in Cut /\ Answer(r, "500")
     \/ files[target[r]] # Missing /\ Answer(r, "200")
  /\ UNCHANGED <<files, broken>>

\* patch_template_cells, after template_repo.get: the whole workbook is read,
\* changed and written back.
PatchCells(r) ==
  /\ at[r] = "file" /\ asked[r].kind = "cells"
  /\ files' = IF Whole(target[r]) THEN [files EXCEPT ![target[r]].patches = @ \cup {r}]
              ELSE files
  /\ Answer(r, IF Whole(target[r]) THEN "200"
               ELSE IF files[target[r]] = Missing THEN "missing" ELSE "500")
  /\ UNCHANGED broken

\* What cutting off the writing of patched cells makes of the file.
CutCells(r, cut) ==
  /\ at[r] = "file" /\ asked[r].kind = "cells" /\ Whole(target[r])
  /\ files' = [files EXCEPT ![target[r]] = cut]
  /\ broken' = broken \cup {target[r]}

\* A patched cell is one of a merged range, or the workbook cannot be written
\* back, or only a part of it.
CellsFail(r) ==
  /\ at[r] = "file" /\ asked[r].kind = "cells" /\ Whole(target[r])
  /\ UNCHANGED <<files, broken>> \/ \E cut \in Cut : CutCells(r, cut)
  /\ Answer(r, "500")

\* Mutant: the foreign key of the sessions is not enforced.
WithoutTemplateOnly(view, id) == [view EXCEPT !.rows[id] = NoRow]

\* DELETE, with ON DELETE SET NULL of upload_session.template_id.
WithoutTemplate(view, id) ==
  [rows |-> [view.rows EXCEPT ![id] = NoRow],
   selected |-> IF view.selected = id THEN 0 ELSE view.selected]

\* delete_by_id: the file stays; deleting a row that is gone is no error.
DeleteRow(r) ==
  /\ at[r] = "delete"
  /\ Write(r, WithoutTemplate(View(r), target[r]))
  /\ GoTo(r, "commit")
  /\ UNCHANGED <<rows, selected, files, asked, target, loaded, broken>>

\* Mutant: sheets_json holds the patched sheet only.
PatchedMappingOnly(r, row) ==
  IF asked[r].kind = "mapping" THEN [row EXCEPT !.overrides = {r}] ELSE row

\* sheets_json is written as it was read, with one sheet replaced.
PatchedMapping(r, row) ==
  IF asked[r].kind = "mapping" THEN [row EXCEPT !.overrides = loaded[r].overrides \cup {r}]
  ELSE row

\* patch_template_mapping and patch_template_meta: the UPDATE. It raises when
\* the row is gone.
UpdateRow(r) ==
  /\ at[r] = "update" /\ LockFree(r)
  /\ IF View(r).rows[target[r]] = NoRow THEN Answer(r, "500")
     ELSE /\ Write(r, [View(r) EXCEPT !.rows[target[r]] = PatchedMapping(r, @)])
          /\ GoTo(r, "commit")
          /\ UNCHANGED <<rows, selected, asked, target, loaded>>
  /\ UNCHANGED <<files, broken>>

\* Mutant: with a template's row its file is deleted.
CommitAndUnlink(r) ==
  /\ at[r] = "commit"
  /\ rows' = View(r).rows /\ selected' = View(r).selected
  /\ files' = IF asked[r].kind = "delete" THEN [files EXCEPT ![target[r]] = Missing] ELSE files
  /\ GoTo(r, "200") /\ Release(r)
  /\ UNCHANGED <<asked, target, loaded, broken>>

Commit(r) ==
  /\ at[r] = "commit"
  /\ rows' = View(r).rows /\ selected' = View(r).selected
  /\ GoTo(r, "200") /\ Release(r)
  /\ UNCHANGED <<files, asked, target, loaded, broken>>

\* COMMIT raises: the rows are as before, a file that was written stays.
CommitFails(r) == at[r] = "commit" /\ Answer(r, "500") /\ UNCHANGED <<files, broken>>

\* Another connection keeps the lock for longer than the busy timeout.
LockTimeout(r) ==
  /\ at[r] \in {"insert", "delete", "update"} /\ ~LockFree(r)
  /\ Answer(r, "500")
  /\ UNCHANGED <<files, broken>>

RegistryStep(r) ==
  \/ GetTemplate(r) \/ InsertTemplate(r) \/ StoreFile(r) \/ StoreFails(r) \/ ReadFile(r)
  \/ PatchCells(r) \/ CellsFail(r) \/ DeleteRow(r) \/ UpdateRow(r) \/ Commit(r)
  \/ CommitFails(r) \/ LockTimeout(r)

\* Requests that have issued no statement yet come after a restart.
NotBegun == {"insert", "get"}

\* The process ends with what was under way, and is started again; committed
\* rows stay, and files but for one that was being written.
RegistryCrash ==
  /\ at' = [r \in Request |-> IF at[r] \in Answers \cup NotBegun THEN at[r] ELSE "gone"]
  /\ \/ UNCHANGED <<files, broken>>
     \/ \E r \in Request, cut \in Cut :
          \/ CutCells(r, cut)
          \/ /\ at[r] = "store"
             /\ files' = [files EXCEPT ![target[r]] = cut] /\ UNCHANGED broken
  /\ writer' = NoOne /\ pending' = NoOne
  /\ UNCHANGED <<rows, selected, asked, target, loaded>>

----------------------------------------------------------------------------
(* Properties.                                                             *)

\* Whatever fails or ends half-way, and whoever had the id before, the file of a
\* committed template holds the upload its row was registered for: the flush
\* takes an id, the file is written under it, and only then the row is committed
\* (templates.py:191). The one way to lose it is the writing back of patched
\* cells of this same template, cut off (templates.py:288).
TemplateRowHasItsFile ==
  \A i \in Id : rows[i] # NoRow =>
    \/ files[i].upload = rows[i].upload
    \/ files[i] \in Cut /\ i \in broken

\* The session's template stays the one it was created with, or none: the id
\* of a deleted template may be given to another one (models.py:212).
SessionKeepsTemplate == selected # 0 => rows[selected].upload = Chosen

\* A mapping override is lost only to a request that had read the row before
\* the override was committed, or with its template (templates.py:314).
OverridesKept ==
  [][\A i \in Id : rows'[i].upload = rows[i].upload =>
       \A r \in rows[i].overrides \ rows'[i].overrides :
         \E s \in Request : at[s] = "commit" /\ r \notin loaded[s].overrides]_registryVars
=============================================================================
