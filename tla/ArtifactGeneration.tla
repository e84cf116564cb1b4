------------------------- MODULE ArtifactGeneration -------------------------
(***************************************************************************)
(* generate_session_artifacts and download_session_artifact                *)
(* (app/api/routes/sessions.py) over generated_artifact_repo, for one      *)
(* session: concurrent generations and downloads, beside the template      *)
(* requests of TemplateRegistry and the background job that stores the     *)
(* session's transactions. Files have the same names in each generation.   *)
(***************************************************************************)
EXTENDS TemplateRegistry

CONSTANTS
  Generation, Download,  \* requests
  Pdf                    \* PDF kinds the session's receipts yield

ASSUME GenerationAssumption ==
  /\ Pdf \subseteq {"layout_pdf", "merged_pdf"}
  /\ NoOne \notin Generation /\ Generation \cap Request = {}

VARIABLES
  parsed,    \* the job has stored the transactions
  artifacts, \* committed generated_artifact rows: [by, kind]
  disk,      \* output file of each kind: [by, upload], or Nothing
  gat,       \* by Generation: its next statement, or its answer
  template,  \* the template row it read
  kinds,     \* the kinds of file it makes
  old,       \* the rows its SELECT found, to be deleted
  dat, wants, \* by Download: the same; the kind asked for
  latest,    \* history: the generation committed last
  wrote,     \* history: the one that wrote files last
  overlapped \* history: generations that wrote or stored while another did

generationVars ==
  <<parsed, artifacts, disk, gat, template, kinds, old, dat, wants, latest, wrote, overlapped>>
vars == <<registryVars, generationVars>>

Nothing == [by |-> NoOne, upload |-> "none"]
Kind == {"xlsx", "zip"} \cup Pdf
GenerationAnswers == Answers \cup {"422"}

Init ==
  /\ RegistryInit
  /\ parsed = FALSE
  /\ artifacts = {}
  /\ disk = [kind \in Kind |-> Nothing]
  /\ gat = [g \in Generation |-> "session"]
  /\ template = [g \in Generation |-> [id |-> 0, upload |-> "none"]]
  /\ kinds = [g \in Generation |-> {}]
  /\ old = [g \in Generation |-> {}]
  /\ dat = [d \in Download |-> "select"]
  /\ wants \in [Download -> Kind]
  /\ latest = NoOne /\ wrote = NoOne /\ overlapped = {}

----------------------------------------------------------------------------
Go(g, place) == gat' = [gat EXCEPT ![g] = place]

\* Between its first file and its commit.
Storing == {g \in Generation : gat[g] \in {"select", "replace", "commit"}}

\* The rows of the files a generation has made.
RowsOf(g) == {[by |-> g, kind |-> kind] : kind \in kinds[g]}

\* session_repo.get; the session's status is not looked at.
GetSession(g) ==
  /\ gat[g] = "session"
  /\ template' = [template EXCEPT ![g].id = selected]
  /\ Go(g, IF selected = 0 THEN "422" ELSE "template")
  /\ UNCHANGED <<registryVars, parsed, artifacts, disk, kinds, old, dat, wants, latest, wrote, overlapped>>

\* template_repo.get
GetSelected(g) ==
  /\ gat[g] = "template"
  /\ template' = [template EXCEPT ![g].upload = rows[template[g].id].upload]
  /\ Go(g, IF rows[template[g].id] = NoRow THEN "404" ELSE "rows")
  /\ UNCHANGED <<registryVars, parsed, artifacts, disk, kinds, old, dat, wants, latest, wrote, overlapped>>

\* The transactions and their expense records; a PDF kind is made if there are
\* receipts of it.
ReadRows(g) ==
  /\ gat[g] = "rows"
  /\ kinds' = [kinds EXCEPT ![g] = {"xlsx", "zip"} \cup IF parsed THEN Pdf ELSE {}]
  /\ Go(g, "build")
  /\ UNCHANGED <<registryVars, parsed, artifacts, disk, template, old, dat, wants, latest, wrote, overlapped>>

\* Mutant: the user's newest template is taken.
TemplateFileNewest(g) ==
  CHOOSE i \in Id : files[i] # Missing /\ \A j \in Id : files[j] # Missing => j <= i

\* _resolve_template_path: the path names the template by its id.
TemplateFile(g) == template[g].id

\* The files that are on disk after those of some kinds have been written.
Written(g, done) ==
  [kind \in Kind |-> IF kind \in done
                     THEN [by |-> g, upload |-> files[TemplateFile(g)].upload] ELSE disk[kind]]

Usable(g) == Whole(TemplateFile(g))

\* Without awaiting anything, the template's file is read and analysed and all
\* artifacts are made and written.
BuildAndWrite(g) ==
  /\ gat[g] = "build" /\ Usable(g)
  /\ disk' = Written(g, kinds[g])
  /\ wrote' = g
  /\ overlapped' = IF Storing = {} THEN overlapped ELSE overlapped \cup Storing \cup {g}
  /\ Go(g, "select")
  /\ UNCHANGED <<registryVars, parsed, artifacts, template, kinds, old, dat, wants, latest>>

\* Writing fails after some kinds.
WriteSome(g, some) ==
  \E done \in SUBSET some :
    /\ disk' = Written(g, done)
    /\ wrote' = IF done = {} THEN wrote ELSE g

\* There is no template file, or it is empty, which is answered alike, or it is
\* no workbook, or writing fails.
BuildFails(g) ==
  /\ gat[g] = "build"
  /\ \/ /\ files[TemplateFile(g)] \in {Missing, Empty}
        /\ Go(g, "missing") /\ UNCHANGED <<disk, wrote>>
     \/ /\ files[TemplateFile(g)] = Torn
        /\ Go(g, "500") /\ UNCHANGED <<disk, wrote>>
     \/ /\ Usable(g) /\ WriteSome(g, kinds[g] \ {"zip"})
        /\ Go(g, "500")
  /\ UNCHANGED <<registryVars, parsed, artifacts, template, kinds, old, dat, wants, latest, overlapped>>

\* Mutant: only rows of the same kinds are replaced.
SelectOldKinds(g) == {row \in artifacts : row.kind \in kinds[g]}

\* replace_for_session: SELECT of the rows to be deleted.
SelectOld(g) == artifacts

FindOld(g) ==
  /\ gat[g] = "select"
  /\ old' = [old EXCEPT ![g] = SelectOld(g)]
  /\ Go(g, "replace")
  /\ UNCHANGED <<registryVars, parsed, artifacts, disk, template, kinds, dat, wants, latest, wrote, overlapped>>

\* replace_for_session: flush of the DELETEs and INSERTs; a DELETE of a row
\* that is gone is a warning.
Replace(g) ==
  /\ gat[g] = "replace" /\ LockFree(g)
  /\ writer' = g
  /\ Go(g, "commit")
  /\ UNCHANGED <<rows, selected, files, pending, asked, at, target, loaded, broken>>
  /\ UNCHANGED <<parsed, artifacts, disk, template, kinds, old, dat, wants, latest, wrote, overlapped>>

ReplaceTimeout(g) ==
  /\ gat[g] = "replace" /\ ~LockFree(g)
  /\ Go(g, "500")
  /\ UNCHANGED <<registryVars, parsed, artifacts, disk, template, kinds, old, dat, wants, latest, wrote, overlapped>>

CommitRows(g) ==
  /\ gat[g] = "commit"
  /\ artifacts' = (artifacts \ old[g]) \cup RowsOf(g)
  /\ latest' = g
  /\ writer' = NoOne
  /\ Go(g, "200")
  /\ UNCHANGED <<rows, selected, files, pending, asked, at, target, loaded, broken>>
  /\ UNCHANGED <<parsed, disk, template, kinds, old, dat, wants, wrote, overlapped>>

\* COMMIT raises: the rows are as before, the new files stay.
CommitRowsFails(g) ==
  /\ gat[g] = "commit"
  /\ writer' = NoOne
  /\ Go(g, "500")
  /\ UNCHANGED <<rows, selected, files, pending, asked, at, target, loaded, broken>>
  /\ UNCHANGED <<parsed, artifacts, disk, template, kinds, old, dat, wants, latest, wrote, overlapped>>

GenerationStep(g) ==
  \/ GetSession(g) \/ GetSelected(g) \/ ReadRows(g) \/ BuildAndWrite(g) \/ BuildFails(g)
  \/ FindOld(g) \/ Replace(g) \/ ReplaceTimeout(g) \/ CommitRows(g) \/ CommitRowsFails(g)

----------------------------------------------------------------------------
\* Mutant: rows of every kind are found.
OfKindAny(kind) == artifacts

OfKind(kind) == {row \in artifacts : row.kind = kind}

\* get_by_kind: one row, or an error.
SelectArtifact(d) ==
  /\ dat[d] = "select"
  /\ dat' = [dat EXCEPT ![d] = IF OfKind(wants[d]) = {} THEN "404"
                               ELSE IF Cardinality(OfKind(wants[d])) > 1 THEN "500" ELSE "file"]
  /\ UNCHANGED <<registryVars, parsed, artifacts, disk, gat, template, kinds, old, wants, latest, wrote, overlapped>>

\* The file is there, and sent.
SendArtifact(d) ==
  /\ dat[d] = "file"
  /\ dat' = [dat EXCEPT ![d] = IF disk[wants[d]] = Nothing THEN "missing" ELSE "200"]
  /\ UNCHANGED <<registryVars, parsed, artifacts, disk, gat, template, kinds, old, wants, latest, wrote, overlapped>>

\* _run_job_background commits the transactions (UploadSession). That a restart
\* ends the job is left out here: it would only take steps away.
JobCommits ==
  /\ ~parsed /\ writer = NoOne
  /\ parsed' = TRUE
  /\ UNCHANGED <<registryVars, artifacts, disk, gat, template, kinds, old, dat, wants, latest, wrote, overlapped>>

\* The process ends, between two writes of a generation perhaps, and is started
\* again.
Crash ==
  /\ RegistryCrash
  /\ \/ UNCHANGED <<disk, wrote>>
     \/ /\ UNCHANGED files
        /\ \E g \in Generation : gat[g] = "build" /\ Usable(g) /\ WriteSome(g, kinds[g])
  /\ gat' = [g \in Generation |->
               IF gat[g] \in GenerationAnswers \cup {"session"} THEN gat[g] ELSE "gone"]
  /\ dat' = [d \in Download |->
               IF dat[d] \in GenerationAnswers \cup {"select"} THEN dat[d] ELSE "gone"]
  /\ UNCHANGED <<parsed, artifacts, template, kinds, old, wants, latest, overlapped>>

Next ==
  \/ \E r \in Request : RegistryStep(r) /\ UNCHANGED generationVars
  \/ \E g \in Generation : GenerationStep(g)
  \/ \E d \in Download : SelectArtifact(d) \/ SendArtifact(d)
  \/ JobCommits \/ Crash

Spec == Init /\ [][Next]_vars

----------------------------------------------------------------------------
(* Properties.                                                             *)

\* Whatever was deleted, replaced or rolled back in between, no request finds
\* the file of a row it has read missing (templates.py:270, sessions.py:753). A
\* generation does (sessions.py:585) only when a write of patched cells emptied
\* the file, or when the template was deleted while it was under way.
NoFileMissing ==
  /\ \A r \in Request : at[r] # "missing"
  /\ \A d \in Download : dat[d] # "missing"
  /\ \A g \in Generation :
       gat[g] = "missing" => selected = 0 \/ template[g].id \in broken

\* As long as the session has its template, every workbook on disk was made
\* from what was uploaded as that template (sessions.py:551).
MadeFromChosen ==
  selected # 0 => \A kind \in Kind : disk[kind] # Nothing => disk[kind].upload = Chosen

\* A generation that no other one overlapped leaves its own rows and no others,
\* whatever generations before it left (sessions.py:657), and until files are
\* written again, its rows lead to the files it wrote.
QuietGenerationIsWhole ==
  latest # NoOne /\ latest \notin overlapped =>
    /\ artifacts = RowsOf(latest)
    /\ wrote = latest => \A row \in artifacts : disk[row.kind].by = latest

\* A download fails only after generations that overlapped
\* (generated_artifact_repo.py:64).
DownloadFailsByOverlap ==
  (\E d \in Download : dat[d] = "500") => overlapped # {}

\* There is one row of each kind: generating again replaces what there was
\* (sessions.py:657: "DB persistence (replace - idempotent)").
OneRowPerKind ==
  \A a, b \in artifacts : a.kind = b.kind => a = b
=============================================================================
